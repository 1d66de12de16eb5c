\* code()/message() recover the parts of every variant but _Inner.
CONSTANTS
  Chars <- MCChars
  MaxLen = 3
  CustomCodes <- MCCodesPlain
  Variants <- MCVariantsNoInner
  Panic = Panic
  None = None

SPECIFICATION Spec

INVARIANT TypeOK
INVARIANT SplitRecoversParts
