---------------------------- MODULE StringHelpers ----------------------------
(***************************************************************************)
(* split, replace and replaceGlobal (src/util/easycl_stringhelper.cpp),    *)
(* loops over the occurrences std::string::find reports, which reports an  *)
(* empty pattern everywhere.  Positions count from 0.  What the loops      *)
(* gather has to fit in memory; when it does not, std::bad_alloc is thrown.*)
(***************************************************************************)
EXTENDS Integers, Sequences, SequencesExt

CONSTANTS Letters,
          MaxText, MaxPattern, \* bounds: length of texts, of what is looked for
          Memory               \* bound: pieces, or letters, of a result

ASSUME StringAssumption == {MaxText, MaxPattern, Memory} \subseteq Nat

VARIABLE helper \* the call in progress or done last

Texts == BoundedSeq(Letters, MaxText)
Patterns == BoundedSeq(Letters, MaxPattern)

(* std::string::find                                                       *)
None == -1
Find(text, pattern, start) ==
  LET found == {p \in start .. Len(text) - Len(pattern) :
                  SubSeq(text, p + 1, p + Len(pattern)) = pattern}
  IN  IF found = {} THEN None ELSE CHOOSE p \in found : \A r \in found : p <= r

(* substr from a position to before another, or to the end.                *)
Between(text, from, to) == SubSeq(text, from + 1, to)
Rest(text, from) == SubSeq(text, from + 1, Len(text))

StringInit == helper = [op |-> "none"]

Looping == helper.op \in {"split", "replaceGlobal"}
NoCall == helper.op = "none"

CallSplit(text, separator) ==
  /\ NoCall
  /\ helper' = [op |-> "split", text |-> text, pattern |-> separator,
                start |-> 0, pieces |-> <<>>]

CallReplaceGlobal(text, oldValue, newValue) ==
  /\ NoCall
  /\ helper' = [op |-> "replaceGlobal", text |-> text, pattern |-> oldValue,
                new |-> newValue, start |-> 0, result |-> <<>>]

(* The first occurrence only; no loop.                                     *)
CallReplace(text, oldValue, newValue) ==
  /\ NoCall
  /\ LET at == Find(text, oldValue, 0)
     IN  helper' = [op |-> "replaced", text |-> text, pattern |-> oldValue, new |-> newValue,
                    result |-> IF at = None THEN text
                               ELSE Between(text, 0, at) \o newValue
                                    \o Rest(text, at + Len(oldValue))]

At == Find(helper.text, helper.pattern, helper.start)
Before == Between(helper.text, helper.start, At)

(* Slips: only the first letter of what was found is passed over; nothing  *)
(* is.                                                                     *)
AfterFirst(at) == at + 1
AfterNothing(at) == at

After(at) == at + Len(helper.pattern)

SplitStep ==
  /\ helper.op = "split" /\ At # None
  /\ Len(helper.pieces) < Memory
  /\ helper' = [helper EXCEPT !.pieces = Append(@, Before), !.start = After(At)]
SplitReturns ==
  /\ helper.op = "split" /\ At = None
  /\ helper' = [helper EXCEPT !.op = "splitDone",
                              !.pieces = Append(@, Rest(helper.text, helper.start))]

Grown == helper.result \o Before \o helper.new
ReplaceStep ==
  /\ helper.op = "replaceGlobal" /\ At # None
  /\ Len(Grown) <= Memory
  /\ helper' = [helper EXCEPT !.result = Grown, !.start = After(At)]
ReplaceReturns ==
  /\ helper.op = "replaceGlobal" /\ At = None
  /\ helper' = [helper EXCEPT !.op = "replacedGlobal",
                              !.result = @ \o Rest(helper.text, helper.start)]

(* Memory is exhausted and the call throws.                                *)
MemoryExhausted ==
  /\ Looping /\ At # None
  /\ IF helper.op = "split" THEN Len(helper.pieces) = Memory ELSE Len(Grown) > Memory
  /\ helper' = [op |-> "threw"]

(* The client has seen what the call returned, or that it threw.           *)
Seen == ~NoCall /\ ~Looping /\ helper' = [op |-> "none"]

StringLoop == SplitStep \/ SplitReturns \/ ReplaceStep \/ ReplaceReturns \/ MemoryExhausted
StringNext == \/ \E text \in Texts, pattern \in Patterns :
                   \/ CallSplit(text, pattern)
                   \/ \E new \in Patterns : \/ CallReplaceGlobal(text, pattern, new)
                                            \/ CallReplace(text, pattern, new)
              \/ Seen \/ StringLoop

StringSpec == StringInit /\ [][StringNext]_helper /\ WF_helper(StringLoop)
-----------------------------------------------------------------------------
Joined(pieces, glue) ==
  FoldLeft(LAMBDA all, piece : all \o glue \o piece, Head(pieces), Tail(pieces))

(* What split returns is the text cut at the separator, wherever the next  *)
(* one begins: the pieces and the separators between them make the text,   *)
(* none was missed, and where two overlap the first counts.                *)
SplitIsLeftmost ==
  helper.op = "splitDone" =>
    LET n == Len(helper.pieces)
    IN  /\ Joined(helper.pieces, helper.pattern) = helper.text
        /\ \A i \in 1 .. n - 1 :
             Find(helper.pieces[i] \o helper.pattern, helper.pattern, 0) = Len(helper.pieces[i])
        /\ Find(helper.pieces[n], helper.pattern, 0) = None

(* The sequence of pieces the property above describes, of the text from a *)
(* position on.                                                            *)
Pieces(text, pattern, start) ==
  LET From[i \in 0 .. Len(text)] ==
        LET at == Find(text, pattern, i)
        IN  IF at = None THEN <<Rest(text, i)>>
            ELSE <<Between(text, i, at)>> \o From[at + Len(pattern)]
  IN  From[start]

(* replaceGlobal is a split joined again with the new value; replace leaves*)
(* the old one everywhere but in the first place.  The new value is never  *)
(* searched itself, though it may hold or complete another old one.        *)
ReplacedWhereSplit ==
  helper.op \in {"replaced", "replacedGlobal"} /\ helper.pattern # <<>> =>
    LET pieces == Pieces(helper.text, helper.pattern, 0)
    IN  helper.result =
          IF helper.op = "replacedGlobal" THEN Joined(pieces, helper.new)
          ELSE IF Len(pieces) = 1 THEN helper.text
          ELSE Head(pieces) \o helper.new \o Joined(Tail(pieces), helper.pattern)

(* The loops end, and what they gather fits in memory, unless what they    *)
(* look for is empty: then they find it where they are for ever.           *)
HelpersEnd ==
  Looping /\ helper.pattern # <<>> ~> helper.op \in {"splitDone", "replacedGlobal"}
=============================================================================
