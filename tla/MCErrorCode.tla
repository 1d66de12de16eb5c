---------------------------- MODULE MCErrorCode ----------------------------
(***************************************************************************)
(* Field strings of up to three characters over {a, #}: enough for a "##" *)
(* inside a message, at its start or end, and for a code ending in '#'.    *)
(***************************************************************************)
EXTENDS ErrorCode

MCChars == {"a", "#"}

(* Codes as tardis writes them ("404-tardis-..."): no '#' at all. *)
MCCodesPlain == {c \in BoundedSeq(MCChars, 3) : "#" \notin ToSet(c)}

MCCodesAll == BoundedSeq(MCChars, 3)

MCVariantsNoInner == AllVariants \ {"_Inner"}

=============================================================================
