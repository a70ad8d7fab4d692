------------------------------ MODULE Optional ------------------------------
(***************************************************************************)
(* pimc::Optional<T> (src/lib/pimc/core/Optional.hpp): the union of a      *)
(* value and nothing, the discriminator hasValue_, and every operation     *)
(* that constructs, assigns, moves, swaps, maps, compares or destroys an   *)
(* optional.  As in Result, each constructor and each assignment of T may  *)
(* throw, and T has a destructor that does something.                      *)
(***************************************************************************)
EXTENDS Integers

CONSTANTS Opts,        \* the Optional<T> objects of the program
          Values,      \* the values of T
          Conv,        \* the conversion between payloads of different types
          Unit,        \* the content of an empty optional
          Moved        \* valid but unspecified content

VARIABLES opt,         \* the storage of every optional
          op,          \* observation: the last call and the objects it names
          ub,          \* observation: a member was used that is not alive
          threw        \* observation: a constructor or an assignment of T threw

ovars == <<opt, op, ub, threw>>

\* OptionalAlt: alive is "value" if the union holds a value.
Storage == [alive : {"absent", "none", "value", "both"},
            hasValue : BOOLEAN, val : Values \cup {Unit, Moved}]
Absent == [alive |-> "absent", hasValue |-> FALSE, val |-> Unit]

Exists(x) == opt[x].alive # "absent"

-----------------------------------------------------------------------------
(* OptionalAlt and OptionalStorage.                                        *)

Sound(s) == s.alive = IF s.hasValue THEN "value" ELSE "none"
payload(s) == IF s.hasValue /\ Sound(s) THEN s.val ELSE Moved
movedFrom(s) == IF s.hasValue /\ Sound(s) THEN [s EXCEPT !.val = Moved] ELSE s

empty == [alive |-> "none", hasValue |-> FALSE, val |-> Unit]
alternative(v) == [alive |-> "value", hasValue |-> TRUE, val |-> v]

\* A union that holds nothing and a discriminator that is not initialized.
monostate(flag) == [empty EXCEPT !.hasValue = flag]

\* A destroy() that leaves the discriminator as it was.
DestroyKeepsFlag(s) == IF s.hasValue THEN [s EXCEPT !.alive = "none"] ELSE s
\* The value is destroyed and the discriminator cleared.
destroy(s) == IF s.hasValue THEN empty ELSE s

constructValue(s, v) ==
    [alive |-> IF s.alive = "none" THEN "value" ELSE "both", hasValue |-> TRUE, val |-> v]
constructFromOptional(s, r, v) ==
    IF r.hasValue THEN constructValue(s, v) ELSE [s EXCEPT !.hasValue = FALSE]

assignValue(s, v) ==
    IF s.hasValue THEN [s EXCEPT !.val = v] ELSE constructValue(destroy(s), v)
assignFromOptional(s, r, v) ==
    CASE s.hasValue # r.hasValue -> constructFromOptional(destroy(s), r, v)
      [] s.hasValue /\ r.hasValue -> [s EXCEPT !.val = v]
      [] OTHER -> s

-----------------------------------------------------------------------------
Init == opt = [x \in Opts |-> Absent]

Called(name, x, y) == op' = [name |-> name, x |-> x, y |-> y]
Uses(S) == ub' = (ub \/ \E x \in S : ~Sound(opt[x]))

\* x becomes r.
Put(x, r) ==
    /\ opt' = [opt EXCEPT ![x] = r]
    /\ Called("put", x, x)
    /\ UNCHANGED threw

defaultConstruct(x) == ~Exists(x) /\ Put(x, empty) /\ UNCHANGED ub
inPlaceValue(x, v) == ~Exists(x) /\ Put(x, alternative(v)) /\ UNCHANGED ub
fromValue(x, v) == ~Exists(x) /\ Put(x, alternative(Conv[v])) /\ UNCHANGED ub

\* x becomes r, what y or its conversion makes of it.
TakeFrom(name, x, y, r, mv) ==
    /\ opt' = [opt EXCEPT ![y] = IF mv THEN movedFrom(@) ELSE @,
                          ![x] = IF mv /\ x = y THEN movedFrom(r) ELSE r]
    /\ Called(name, x, y)
    /\ Uses({x, y} \ {z \in {x} : ~Exists(z)})
    /\ UNCHANGED threw

\* The copy of the value throws: the destructor runs on the monostate.
ConstructThrows(x, y) ==
    /\ opt[y].hasValue
    /\ \E flag \in BOOLEAN : ub' = (ub \/ ~Sound(monostate(flag)))
    /\ threw' = TRUE
    /\ Called("throw", x, y)
    /\ UNCHANGED opt

\* The value is constructed in an optional that is empty by then, or assigned.
AssignThrows(name, x, y) ==
    /\ opt' = [opt EXCEPT ![x] = IF @.hasValue THEN @ ELSE destroy(@)]
    /\ threw' = TRUE
    /\ Called(name, x, y)
    /\ Uses({x, y})

CopyName(mv) == IF mv THEN "move" ELSE "copy"
ConvertName(mv) == IF mv THEN "convertMove" ELSE "convert"
ThenName(mv) == IF mv THEN "thenMove" ELSE "then"

copyConstruct(x, y, mv) ==
    /\ ~Exists(x) /\ Exists(y)
    /\ \/ \E flag \in BOOLEAN :
             TakeFrom(CopyName(mv), x, y,
                 constructFromOptional(monostate(flag), opt[y], payload(opt[y])), mv)
       \/ ConstructThrows(x, y)

convertConstruct(x, y, mv) ==
    /\ ~Exists(x) /\ Exists(y)
    /\ \/ \E flag \in BOOLEAN :
             TakeFrom(ConvertName(mv), x, y,
                 constructFromOptional(monostate(flag), opt[y], Conv[payload(opt[y])]), mv)
       \/ ConstructThrows(x, y)

copyAssign(x, y, mv) ==
    /\ Exists(x) /\ Exists(y)
    /\ \/ TakeFrom(CopyName(mv), x, y, assignFromOptional(opt[x], opt[y], payload(opt[y])), mv)
       \/ opt[y].hasValue /\ AssignThrows("throw", x, y)

convertAssign(x, y, mv) ==
    /\ Exists(x) /\ Exists(y) /\ x # y
    /\ \/ TakeFrom(ConvertName(mv), x, y,
             assignFromOptional(opt[x], opt[y], Conv[payload(opt[y])]), mv)
       \/ opt[y].hasValue /\ AssignThrows("throw", x, y)

valueAssign(x, v) ==
    /\ Exists(x)
    /\ \/ Put(x, assignValue(opt[x], v)) /\ Uses({x})
       \/ AssignThrows("throwPut", x, x)

\* The observers.  The caller has made sure that there is a value.
HasValue(x) == Exists(x) /\ opt[x].hasValue

Look(x, mv) ==
    /\ opt' = [opt EXCEPT ![x] = IF mv THEN movedFrom(@) ELSE @]
    /\ Called(IF mv THEN "take" ELSE "observe", x, x)
    /\ Uses({x})
    /\ UNCHANGED threw

dereference(x, mv) == HasValue(x) /\ Look(x, mv)
arrow(x) == HasValue(x) /\ Look(x, FALSE)
getValue(x, mv) == HasValue(x) /\ Look(x, mv)
valueOr(x, mv) == HasValue(x) /\ Look(x, mv)

\* f returns the optional r, or a value v.
flatMap(x, y, r, mv) ==
    /\ ~Exists(x) /\ Exists(y)
    /\ TakeFrom(ThenName(mv), x, y, IF opt[y].hasValue THEN r ELSE empty, mv)

map(x, y, v, mv) ==
    /\ ~Exists(x) /\ Exists(y)
    /\ TakeFrom(ThenName(mv), x, y, IF opt[y].hasValue THEN alternative(v) ELSE empty, mv)

\* With one value, tmp takes lhs, lhs takes rhs and rhs takes tmp.
swap(x, y) ==
    /\ Exists(x) /\ Exists(y) /\ x # y
    /\ Called("swap", x, y)
    /\ Uses({x, y})
    /\ UNCHANGED threw
    /\ LET tmp == constructFromOptional(empty, opt[x], payload(opt[x]))
       IN opt' = IF opt[x].hasValue = opt[y].hasValue
                 THEN [opt EXCEPT ![x].val = opt[y].val, ![y].val = opt[x].val]
                 ELSE [opt EXCEPT
                         ![x] = assignFromOptional(movedFrom(@), opt[y], payload(opt[y])),
                         ![y] = assignFromOptional(movedFrom(@), tmp, payload(tmp))]

\* The move that carries the value throws: into tmp, out of rhs, or out of tmp.
swapThrows(x, y) ==
    /\ Exists(x) /\ Exists(y) /\ opt[x].hasValue # opt[y].hasValue
    /\ \/ opt[x].hasValue /\ ConstructThrows(x, y)
       \/ opt[y].hasValue /\ AssignThrows("throwSwap", x, y)
       \/ /\ opt[x].hasValue
          /\ opt' = [opt EXCEPT ![x] = destroy(@)]
          /\ threw' = TRUE
          /\ Called("throwSwap", x, y)
          /\ Uses({x, y})

destructor(x) ==
    /\ Exists(x)
    /\ opt' = [opt EXCEPT ![x] = Absent]
    /\ Called("drop", x, x)
    /\ Uses({x})
    /\ UNCHANGED threw

-----------------------------------------------------------------------------
(* Comparisons of two optionals a and b, the empty one below every value,  *)
(* and of an optional a and a value v: <<a op v, v op a>>.                 *)

Ordinal(s) == IF s.hasValue THEN 1 ELSE 0
BothHold(a, b) == a.hasValue /\ b.hasValue

optionalEq(a, b) == a.hasValue = b.hasValue /\ (a.hasValue => a.val = b.val)
optionalNe(a, b) == a.hasValue = b.hasValue => a.hasValue /\ a.val # b.val
optionalLt(a, b) == IF BothHold(a, b) THEN a.val < b.val ELSE Ordinal(a) < Ordinal(b)
optionalLe(a, b) == IF BothHold(a, b) THEN a.val <= b.val ELSE Ordinal(a) <= Ordinal(b)
optionalGt(a, b) == IF BothHold(a, b) THEN a.val > b.val ELSE Ordinal(a) > Ordinal(b)
optionalGe(a, b) == IF BothHold(a, b) THEN a.val >= b.val ELSE Ordinal(a) >= Ordinal(b)

valueEq(a, v) == <<a.hasValue /\ a.val = v, a.hasValue /\ v = a.val>>
valueLt(a, v) == <<~a.hasValue \/ a.val < v, a.hasValue /\ v < a.val>>
valueLe(a, v) == <<~a.hasValue \/ a.val <= v, a.hasValue /\ v <= a.val>>
valueGt(a, v) == <<a.hasValue /\ a.val > v, ~a.hasValue \/ v > a.val>>
valueGe(a, v) == <<a.hasValue /\ a.val >= v, ~a.hasValue \/ v >= a.val>>

-----------------------------------------------------------------------------
Next ==
    \E x \in Opts :
      \/ defaultConstruct(x) \/ arrow(x) \/ destructor(x)
      \/ \E v \in Values : inPlaceValue(x, v) \/ fromValue(x, v) \/ valueAssign(x, v)
      \/ \E mv \in BOOLEAN :
           \/ dereference(x, mv) \/ getValue(x, mv) \/ valueOr(x, mv)
           \/ \E y \in Opts :
                \/ copyConstruct(x, y, mv) \/ convertConstruct(x, y, mv)
                \/ copyAssign(x, y, mv) \/ convertAssign(x, y, mv)
                \/ \E r \in {empty} \cup {alternative(v) : v \in Values} : flatMap(x, y, r, mv)
                \/ \E v \in Values : map(x, y, v, mv)
      \/ \E y \in Opts : swap(x, y) \/ swapThrows(x, y)

Spec == Init /\ [][Next]_ovars

-----------------------------------------------------------------------------
(* Properties.                                                             *)

\* Every optional holds a value exactly when its discriminator says so, even
\* after an assignment or a swap that threw: unlike a Result it is then empty.
OptionalSound == \A x \in Opts : Exists(x) => Sound(opt[x])

\* The comparison operators agree with one total order, and a plain value
\* compares like an optional that holds it.
Below(a, b) == b.hasValue /\ (a.hasValue => a.val < b.val)
Reference(a, b) == <<a = b, Below(a, b), ~Below(b, a), Below(b, a), ~Below(a, b)>>
OptionalComparisonsAgree ==
    \A a, b \in {opt[x] : x \in {z \in Opts : Exists(z) /\ opt[z].val # Moved}} :
      /\ Reference(a, b) = <<optionalEq(a, b), optionalLt(a, b), optionalLe(a, b),
                             optionalGt(a, b), optionalGe(a, b)>>
      /\ optionalNe(a, b) = ~optionalEq(a, b)
      /\ \A v \in Values :
           LET six == <<valueEq(a, v), valueLt(a, v), valueLe(a, v),
                        valueGt(a, v), valueGe(a, v)>>
           IN /\ [k \in 1..5 |-> six[k][1]] = Reference(a, alternative(v))
              /\ [k \in 1..5 |-> six[k][2]] = Reference(alternative(v), a)

\* The slot of SumType that an optional is.
Slot(x) == CASE ~Exists(x) -> [tag |-> "absent", val |-> Moved]
             [] Exists(x) /\ ~Sound(opt[x]) -> [tag |-> "broken", val |-> Moved]
             [] OTHER -> [tag |-> IF opt[x].hasValue THEN "value" ELSE "other",
                          val |-> opt[x].val]
=============================================================================
