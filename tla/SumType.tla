------------------------------ MODULE SumType ------------------------------
(***************************************************************************)
(* What pimc::Result and pimc::Optional promise their users, with the      *)
(* union, the discriminator and the destructors hidden: a slot holds one   *)
(* of two alternatives, a value or the other one (an error, or nothing),   *)
(* every call decides the slots it names and leaves the others alone.  A   *)
(* slot is broken once the construction of its new alternative has thrown  *)
(* after the old one was destroyed; nothing is promised about the result   *)
(* of a call that names a broken slot.                                     *)
(***************************************************************************)

CONSTANTS Slots,     \* the objects of the program
          Payload,   \* what an alternative may hold, Moved included
          Conv,      \* the conversion a converting call applies to a payload
          Moved,     \* the content of an alternative that was moved from
          Unit       \* the content of an alternative that has none

VARIABLES slot,      \* the content of each slot
          op         \* the last call: its name and the slots it names

vars == <<slot, op>>

Absent == [tag |-> "absent", val |-> Moved]
Broken == [tag |-> "broken", val |-> Moved]
Alternatives == [tag : {"value", "other"}, val : Payload]

Ops == [name : {"none", "put", "copy", "move", "convert", "convertMove",
                "discard", "discardMove", "swap", "then", "thenMove", "orElse", "orElseMove",
                "take", "observe", "drop", "throwPut", "throw", "throwSwap"},
        x : Slots, y : Slots]

MovedFrom(s) == IF s.val = Unit THEN s ELSE [s EXCEPT !.val = Moved]
Converted(s) == [s EXCEPT !.val = Conv[s.val]]
\* The same alternative without its value.
Discarded(s) == IF s.tag = "value" THEN [s EXCEPT !.val = Unit] ELSE Converted(s)

Init == /\ slot = [x \in Slots |-> Absent]
        /\ op \in Ops
        /\ op.name = "none"

\* x becomes s, the content of y or its conversion.
Copy(x, s) == slot' = [slot EXCEPT ![x] = s]

\* x becomes s and y keeps its alternative but not its payload.
Move(x, y, s) ==
    slot' = [slot EXCEPT ![y] = MovedFrom(@), ![x] = IF x = y THEN MovedFrom(s) ELSE s]

\* A function is applied to the alternative of y tagged t and decides what x
\* is; the other alternative is handed on, with any payload if it has none.
Apply(x, y, t, after) ==
    \E a \in Alternatives :
        /\ slot[y].tag # t => /\ a.tag = slot[y].tag
                              /\ a.val = slot[y].val \/ slot[y].val = Unit
        /\ slot' = [slot EXCEPT ![x] = a, ![y] = after]

\* A call that throws changes nothing, or breaks a slot that was about to
\* change its alternative; a swap may have moved y into x before.
Throw(x, y) ==
    \/ UNCHANGED slot
    \/ slot[x].tag # slot[y].tag /\ slot' = [slot EXCEPT ![x] = Broken]

\* If y has no payload it may be left as it was: what x held is lost.
ThrowSwap(x, y) ==
    \/ Throw(x, y)
    \/ /\ slot[x].tag # slot[y].tag
       /\ \E s \in {Broken} \cup ({slot[y]} \cap {a \in Alternatives : a.val = Unit}) :
            slot' = [slot EXCEPT ![x] = slot[y], ![y] = s]

Effect(name, x, y) ==
    CASE name = "put"         -> \E a \in Alternatives : Copy(x, a)
      [] name = "copy"        -> Copy(x, slot[y])
      [] name = "convert"     -> Copy(x, Converted(slot[y]))
      [] name = "move"        -> Move(x, y, slot[y])
      [] name = "convertMove" -> Move(x, y, Converted(slot[y]))
      [] name = "discard"     -> Copy(x, Discarded(slot[y]))
      [] name = "discardMove" ->
           slot' = [slot EXCEPT ![y] = IF @.tag = "value" THEN @ ELSE MovedFrom(@),
                                ![x] = Discarded(slot[y])]
      [] name = "swap"        -> slot' = [slot EXCEPT ![x] = slot[y], ![y] = slot[x]]
      [] name = "then"        -> Apply(x, y, "value", slot[y])
      [] name = "thenMove"    -> Apply(x, y, "value", MovedFrom(slot[y]))
      [] name = "orElse"      -> Apply(x, y, "other", slot[y])
      [] name = "orElseMove"  -> Apply(x, y, "other", MovedFrom(slot[y]))
      [] name = "take"        -> Copy(x, MovedFrom(slot[x]))
      [] name = "observe"     -> UNCHANGED slot
      [] name = "drop"        -> Copy(x, Absent)
      [] name = "throwPut"    -> UNCHANGED slot \/ Copy(x, Broken)
      [] name = "throw"       -> Throw(x, y)
      [] name = "throwSwap"   -> ThrowSwap(x, y)
      [] OTHER                -> FALSE

\* Nothing is promised about the slots a call names once one of them is broken.
Unspecified(x, y) == /\ Broken \in {slot[x], slot[y]}
                     /\ \A z \in Slots \ {x, y} : slot'[z] = slot[z]

Next == /\ op' \in Ops
        /\ Unspecified(op'.x, op'.y) \/ Effect(op'.name, op'.x, op'.y)

Spec == Init /\ [][Next]_vars
=============================================================================
