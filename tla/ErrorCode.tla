----------------------------- MODULE ErrorCode -----------------------------
(***************************************************************************)
(* The error type of src/src/basic/error.rs.  A TardisError displays as    *)
(* "<code>##<message>" (derive_more Display), except _Inner, which         *)
(* displays its text alone.  code() and message() recover the two parts by *)
(* splitting the Display text at the first "##" (GENERAL_SPLIT), and panic *)
(* through .expect() when there is none.  The From impls turn std and url  *)
(* errors into IOError or FormatError.                                     *)
(*                                                                         *)
(* A string is a sequence of characters drawn from a small alphabet that   *)
(* holds '#'; the fixed twelve-digit codes contain no '#' and are kept as  *)
(* single symbols.  A caller raises or converts an error and then calls    *)
(* code() and message() on it.                                             *)
(***************************************************************************)
EXTENDS Sequences, SequencesExt, FiniteSets

CONSTANTS
  Chars,        \* the alphabet of field strings; contains "#"
  MaxLen,       \* longest field string
  CustomCodes,  \* code strings given to TardisError::Custom
  Variants,     \* the variants a caller may construct
  Panic,        \* model value: the thread panicked in .expect()
  None          \* model value: not called yet

ASSUME "#" \in Chars

GENERAL_SPLIT == <<"#", "#">>

Strings == BoundedSeq(Chars, MaxLen)

(* The fixed code each single-field variant displays before "##". *)
FixedCode ==
  [Box            |-> "000000000000",
   InternalError  |-> "500000000000",
   NotImplemented |-> "501000000000",
   IOError        |-> "503000000000",
   BadRequest     |-> "400000000000",
   Unauthorized   |-> "401000000000",
   NotFound       |-> "404000000000",
   FormatError    |-> "406000000000",
   Timeout        |-> "408000000000",
   Conflict       |-> "409000000000"]

AllVariants == DOMAIN FixedCode \cup {"Custom", "_Inner"}

(* f0, f1 are the tuple fields; for Box, f0 is the {:?} text of the inner *)
(* error.                                                                 *)
Errors ==
  {[variant |-> "Custom", f0 |-> c, f1 |-> m] : c \in CustomCodes, m \in Strings}
  \cup {[variant |-> v, f0 |-> s, f1 |-> <<>>] : v \in AllVariants \ {"Custom"}, s \in Strings}

(* #[derive(Display)] with the #[display(fmt = ...)] of each variant. *)
Display(e) ==
  CASE e.variant = "Custom" -> e.f0 \o GENERAL_SPLIT \o e.f1
    [] e.variant = "_Inner" -> e.f0
    [] OTHER                -> <<FixedCode[e.variant]>> \o GENERAL_SPLIT \o e.f0

(* Mutant: the split index taken from the last "##" (rfind). *)
FindLast(text) ==
  LET hits == {i \in 1..(Len(text) - 1) : SubSeq(text, i, i + 1) = GENERAL_SPLIT}
  IN IF hits = {} THEN 0 ELSE Max(hits)

(* str::find: the 1-based index of the first "##", 0 for None. *)
Find(text) ==
  IF GENERAL_SPLIT \in SubSeqs(text) THEN IndexFirstSubSeq(GENERAL_SPLIT, text) ELSE 0

code(e) ==
  LET text == Display(e)
      idx  == Find(text)
  IN IF idx = 0 THEN Panic ELSE SubSeq(text, 1, idx - 1)

(* Mutant: the message taken from one character after the split index. *)
messageOffByOne(e) ==
  LET text == Display(e)
      idx  == Find(text)
  IN IF idx = 0 THEN Panic ELSE SubSeq(text, idx + 1, Len(text))

message(e) ==
  LET text == Display(e)
      idx  == Find(text)
  IN IF idx = 0 THEN Panic ELSE SubSeq(text, idx + 2, Len(text))

(* The From impls: std::io::Error becomes IOError, every other source      *)
(* (Utf8Error, FromUtf8Error, url::ParseError, ParseIntError, Infallible)   *)
(* becomes FormatError, with the source's to_string() as its field.         *)
SourceKinds == {"io", "utf8", "from_utf8", "url_parse", "parse_int", "infallible"}

From(kind, s) ==
  [variant |-> IF kind = "io" THEN "IOError" ELSE "FormatError", f0 |-> s, f1 |-> <<>>]

(* The parts a variant is built from: what code() and message() should    *)
(* give back.                                                             *)
ExpectedCode(e) ==
  IF e.variant = "Custom" THEN e.f0 ELSE <<FixedCode[e.variant]>>
ExpectedMessage(e) ==
  IF e.variant = "Custom" THEN e.f1 ELSE e.f0

-----------------------------------------------------------------------------
VARIABLES err, codeOut, msgOut

vars == <<err, codeOut, msgOut>>

Raisable == {e \in Errors : e.variant \in Variants}

Alive == codeOut # Panic /\ msgOut # Panic

Init ==
  /\ err \in Raisable
  /\ codeOut = None
  /\ msgOut = None

(* A handler constructs a variant directly ... *)
Raise ==
  /\ Alive
  /\ \E e \in Raisable : err' = e
  /\ codeOut' = None
  /\ msgOut' = None

(* ... or converts a source error with `?`. *)
Convert ==
  /\ Alive
  /\ \E k \in SourceKinds, s \in Strings : err' = From(k, s)
  /\ codeOut' = None
  /\ msgOut' = None

CallCode ==
  /\ Alive
  /\ codeOut = None
  /\ codeOut' = code(err)
  /\ UNCHANGED <<err, msgOut>>

CallMessage ==
  /\ Alive
  /\ msgOut = None
  /\ msgOut' = message(err)
  /\ UNCHANGED <<err, codeOut>>

Next == Raise \/ Convert \/ CallCode \/ CallMessage

Spec == Init /\ [][Next]_vars

-----------------------------------------------------------------------------
TypeOK ==
  /\ err \in Errors
  /\ codeOut \in Strings \cup {<<c>> : c \in Range(FixedCode)} \cup {Panic, None}
  /\ msgOut \in Strings \cup {Panic, None}

(* code() and message() of error.rs give back exactly the code and the    *)
(* message the error was built from, for every variant the caller builds  *)
(* and every field text, "##" inside a message included.                  *)
SplitRecoversParts ==
  /\ codeOut \notin {None} => codeOut = ExpectedCode(err)
  /\ msgOut \notin {None} => msgOut = ExpectedMessage(err)

(* code() and message() never reach the .expect() panic: every error a    *)
(* caller can hold displays a "##".                                       *)
NoPanic == Alive

=============================================================================
