------------------------------- MODULE Result -------------------------------
(***************************************************************************)
(* pimc::Result<T, E>, pimc::Result<void, E> and pimc::Failure<E>          *)
(* (src/lib/pimc/core/Result.hpp): the union of a value and an error, the  *)
(* discriminator hasValue_, and every operation that constructs, assigns,  *)
(* moves, swaps, maps, compares or destroys a result.                      *)
(*                                                                         *)
(* The constructors and assignments of T and E are code of the user: each  *)
(* one may throw.  A conversion of another type to T or E is Conv, what a  *)
(* function given to map() returns is any payload.  A payload that was     *)
(* moved from, or read from a member that is not alive, is Moved.          *)
(***************************************************************************)
EXTENDS Integers

CONSTANTS Objs,        \* the Result<T, E> objects of the program
          VoidObjs,    \* the Result<void, E> objects
          Failures,    \* the Failure<E> objects
          Values,      \* the values of T
          Errors,      \* the values of E
          Conv,        \* the conversion between payloads of different types
          Unit,        \* the value of Result<void, E>, a std::monostate
          Moved,       \* valid but unspecified content
          None         \* there is no such Failure

Payload == Values \cup Errors \cup {Unit, Moved}

ASSUME ResultAssumption ==
    /\ Objs \cap VoidObjs = {}
    /\ Values \subseteq Int /\ Values # {}
    /\ Errors \subseteq Int /\ Errors # {}
    /\ Moved \notin Values \cup Errors \cup {Unit}
    /\ Unit \notin Values \cup Errors
    /\ None \notin Errors \cup {Moved}
    /\ Conv \in [Payload -> Payload]
    /\ Conv[Moved] = Moved /\ Conv[Unit] = Unit
    /\ \A v \in Values : Conv[v] \in Values
    /\ \A e \in Errors : Conv[e] \in Errors

VARIABLES obj,         \* the storage of every result
          failure,     \* the error in every Failure, or None if there is no such object
          op,          \* observation: the last call and the objects it names
          ub,          \* observation: a member was used that is not alive
          threw        \* observation: a constructor or an assignment of T or E threw

vars == <<obj, failure, op, ub, threw>>

Results == Objs \cup VoidObjs

\* ResultAlt: alive is the union member whose lifetime has begun, "none" if
\* there is none (the monostate), "both" if one was built over another.
Storage == [alive : {"absent", "none", "value", "error", "both"},
            hasValue : BOOLEAN, val : Payload]
Absent == [alive |-> "absent", hasValue |-> FALSE, val |-> Moved]

Exists(x) == obj[x].alive # "absent"
SameType(x, y) == x \in VoidObjs <=> y \in VoidObjs
ValuesOf(x) == IF x \in VoidObjs THEN {Unit} ELSE Values

-----------------------------------------------------------------------------
(* ResultAlt and ResultStorage.                                            *)

\* The member the discriminator says is there, and whether it is.
member(s) == IF s.hasValue THEN "value" ELSE "error"
Sound(s) == s.alive = member(s)
payload(s) == IF Sound(s) THEN s.val ELSE Moved
movedFrom(s) == IF Sound(s) /\ s.val # Unit THEN [s EXCEPT !.val = Moved] ELSE s

\* A union that holds the monostate: hasValue_ is not initialized.
monostate(flag) == [alive |-> "none", hasValue |-> flag, val |-> Moved]

destroy(s) == [s EXCEPT !.alive = "none", !.hasValue = FALSE, !.val = Moved]

\* A member built in place by a constructor of ResultAlt.
alternative(m, p) == [alive |-> m, hasValue |-> m = "value", val |-> p]

construct(s, m, p) ==
    [alive |-> IF s.alive = "none" THEN m ELSE "both", hasValue |-> m = "value", val |-> p]
constructValue(s, v) == construct(s, "value", v)
constructError(s, e) == construct(s, "error", e)

constructErrorFromResult(s, r, p) ==
    IF r.hasValue THEN constructValue(s, Unit) ELSE constructError(s, p)
constructFromResult(s, r, p) ==
    IF r.hasValue THEN constructValue(s, p) ELSE constructError(s, p)

assignValue(s, v) ==
    IF s.hasValue THEN [s EXCEPT !.val = v] ELSE constructValue(destroy(s), v)
assignError(s, e) ==
    IF s.hasValue THEN constructError(destroy(s), e) ELSE [s EXCEPT !.val = e]
\* An assignment that builds the new alternative over the old one.
AssignWithoutDestroy(s, r, p) ==
    IF s.hasValue # r.hasValue
    THEN constructFromResult(s, r, p) ELSE [s EXCEPT !.val = p]
\* A new alternative is built only after the old one was destroyed.
assignFromResult(s, r, p) ==
    IF s.hasValue # r.hasValue
    THEN constructFromResult(destroy(s), r, p) ELSE [s EXCEPT !.val = p]

\* What an assignment of alternative m leaves behind if it throws: a new
\* alternative is constructed only after the old one was destroyed.
thrownInto(s, m) == IF s.hasValue # m THEN destroy(s) ELSE s

-----------------------------------------------------------------------------
Init == /\ obj = [x \in Results |-> Absent]
        /\ failure = [f \in Failures |-> None]
        /\ op \in [name : {"none"}, x : Results, y : Results]
        /\ ub = FALSE
        /\ threw = FALSE

Called(name, x, y) == op' = [name |-> name, x |-> x, y |-> y]

\* The members of the results in S are used: undefined unless they are alive.
Uses(S) == ub' = (ub \/ \E x \in S : ~Sound(obj[x]))

Throws(name, x, y) == Called(name, x, y) /\ threw' = TRUE

-----------------------------------------------------------------------------
(* The steps the constructors and assignments of both classes share.       *)

\* An alternative is built in place; if that throws there is no object.
InPlace(x, m, p) ==
    /\ ~Exists(x)
    /\ obj' = [obj EXCEPT ![x] = alternative(m, p)]
    /\ Called("put", x, x)
    /\ UNCHANGED <<failure, ub, threw>>

\* x is constructed from y, r being what constructFromResult() or
\* constructErrorFromResult() makes of the monostate.
ConstructFrom(name, x, y, r, mv) ==
    /\ ~Exists(x) /\ Exists(y)
    /\ obj' = [obj EXCEPT ![x] = r, ![y] = IF mv THEN movedFrom(@) ELSE @]
    /\ Called(name, x, y)
    /\ Uses({y})
    /\ UNCHANGED <<failure, threw>>

\* The construction throws: the destructor of ResultAlt runs on the monostate,
\* and destroys one of the two members whatever hasValue_ happens to hold.
ConstructThrows(x, y) ==
    /\ ~Exists(x) /\ Exists(y)
    /\ obj[y].val # Unit
    /\ ub' = TRUE
    /\ Throws("throw", x, y)
    /\ UNCHANGED <<obj, failure>>

AssignFrom(name, x, y, p, mv) ==
    /\ Exists(x) /\ Exists(y) /\ SameType(x, y)
    /\ LET r == assignFromResult(obj[x], obj[y], p)
       IN obj' = [obj EXCEPT ![y] = IF mv THEN movedFrom(@) ELSE @,
                             ![x] = IF mv /\ x = y THEN movedFrom(r) ELSE r]
    /\ Called(name, x, y)
    /\ Uses({x, y})
    /\ UNCHANGED <<failure, threw>>

AssignThrows(x, y) ==
    /\ Exists(x) /\ Exists(y) /\ SameType(x, y)
    /\ obj[y].val # Unit
    /\ obj' = [obj EXCEPT ![x] = thrownInto(@, obj[y].hasValue)]
    /\ Throws("throw", x, y)
    /\ Uses({x, y})
    /\ UNCHANGED failure

\* x is assigned r, what assignValue() or assignError() makes of it.
Assign(x, r) ==
    /\ Exists(x)
    /\ obj' = [obj EXCEPT ![x] = r]
    /\ Called("put", x, x)
    /\ Uses({x})
    /\ UNCHANGED threw

PutThrows(x, hasValue) ==
    /\ Exists(x)
    /\ obj' = [obj EXCEPT ![x] = thrownInto(@, hasValue)]
    /\ Throws("throwPut", x, x)
    /\ Uses({x})
    /\ UNCHANGED failure

\* The member of x is read, or moved out of it.
Look(x, mv) ==
    /\ obj' = [obj EXCEPT ![x] = IF mv THEN movedFrom(@) ELSE @]
    /\ Called(IF mv THEN "take" ELSE "observe", x, x)
    /\ Uses({x})
    /\ UNCHANGED <<failure, threw>>

\* The result x of a mapping function applied to y; name says to which
\* alternative of y it is applied, r is the result.
Mapped(name, x, y, r, mv) ==
    /\ ~Exists(x) /\ Exists(y)
    /\ obj' = [obj EXCEPT ![x] = r, ![y] = IF mv THEN movedFrom(@) ELSE @]
    /\ Called(name, x, y)
    /\ Uses({y})
    /\ UNCHANGED <<failure, threw>>

-----------------------------------------------------------------------------
(* Failure<E>.                                                             *)

HasFailure(f) == failure[f] # None

failureConstruct(f, e) ==
    /\ ~HasFailure(f)
    /\ failure' = [failure EXCEPT ![f] = e]
    /\ UNCHANGED <<obj, op, ub, threw>>

fail(f, e) == failureConstruct(f, e)

failureCopy(f, g, mv) ==
    /\ HasFailure(g) /\ f # g
    /\ failure' = [failure EXCEPT ![f] = failure[g], ![g] = IF mv THEN Moved ELSE @]
    /\ UNCHANGED <<obj, op, ub, threw>>

failureSet(f, e) ==
    /\ HasFailure(f)
    /\ failure' = [failure EXCEPT ![f] = e]
    /\ UNCHANGED <<obj, op, ub, threw>>

failureTake(f) == HasFailure(f) /\ failureSet(f, Moved)

failureSwap(f, g) ==
    /\ HasFailure(f) /\ HasFailure(g)
    /\ failure' = [failure EXCEPT ![f] = failure[g], ![g] = failure[f]]
    /\ UNCHANGED <<obj, op, ub, threw>>

failureDestroy(f) ==
    /\ HasFailure(f)
    /\ failure' = [failure EXCEPT ![f] = None]
    /\ UNCHANGED <<obj, op, ub, threw>>

-----------------------------------------------------------------------------
(* Result<T, E>.                                                           *)

DefaultValue == CHOOSE v \in Values : TRUE

defaultConstruct(x) == x \in Objs /\ InPlace(x, "value", DefaultValue)
inPlaceValue(x, v) == x \in Objs /\ InPlace(x, "value", v)
inPlaceError(x, e) == x \in Objs /\ InPlace(x, "error", e)
fromValue(x, v) == x \in Objs /\ InPlace(x, "value", Conv[v])

\* A constructor that stores the Failure instead of the error in it.
FromFailureItself(x, f, mv) ==
    /\ x \in Objs /\ ~Exists(x) /\ HasFailure(f)
    /\ obj' = [obj EXCEPT ![x] = alternative("error", f)]
    /\ failure' = [failure EXCEPT ![f] = IF mv THEN Moved ELSE @]
    /\ Called("put", x, x)
    /\ UNCHANGED <<ub, threw>>
\* The error of the Failure is copied or moved.
fromFailure(x, f, mv) ==
    /\ x \in Objs /\ ~Exists(x) /\ HasFailure(f)
    /\ obj' = [obj EXCEPT ![x] = alternative("error", failure[f])]
    /\ failure' = [failure EXCEPT ![f] = IF mv THEN Moved ELSE @]
    /\ Called("put", x, x)
    /\ UNCHANGED <<ub, threw>>

CopyName(mv) == IF mv THEN "move" ELSE "copy"
ConvertName(mv) == IF mv THEN "convertMove" ELSE "convert"
ThenName(mv) == IF mv THEN "thenMove" ELSE "then"
OrElseName(mv) == IF mv THEN "orElseMove" ELSE "orElse"

copyConstruct(x, y, mv) ==
    /\ x \in Objs /\ y \in Objs
    /\ \/ \E flag \in BOOLEAN :
             ConstructFrom(CopyName(mv), x, y,
                 constructFromResult(monostate(flag), obj[y], payload(obj[y])), mv)
       \/ ConstructThrows(x, y)

convertConstruct(x, y, mv) ==
    /\ x \in Objs /\ y \in Objs
    /\ \/ \E flag \in BOOLEAN :
             ConstructFrom(ConvertName(mv), x, y,
                 constructFromResult(monostate(flag), obj[y], Conv[payload(obj[y])]), mv)
       \/ ConstructThrows(x, y)

copyAssign(x, y, mv) ==
    /\ x \in Objs
    /\ \/ AssignFrom(CopyName(mv), x, y, payload(obj[y]), mv)
       \/ AssignThrows(x, y)

convertAssign(x, y, mv) ==
    /\ x \in Objs /\ x # y
    /\ \/ AssignFrom(ConvertName(mv), x, y, Conv[payload(obj[y])], mv)
       \/ AssignThrows(x, y)

valueAssign(x, v) ==
    /\ x \in Objs
    /\ \/ Assign(x, assignValue(obj[x], v)) /\ UNCHANGED failure
       \/ PutThrows(x, TRUE)

failureAssign(x, f, mv) ==
    /\ x \in Objs /\ HasFailure(f)
    /\ \/ /\ Assign(x, assignError(obj[x], failure[f]))
          /\ failure' = [failure EXCEPT ![f] = IF mv THEN Moved ELSE @]
       \/ PutThrows(x, FALSE)

\* The observers.  The caller has made sure that the alternative is there.
HasValue(x) == Exists(x) /\ obj[x].hasValue
HasError(x) == Exists(x) /\ ~obj[x].hasValue

dereference(x, mv) == x \in Objs /\ HasValue(x) /\ Look(x, mv)
arrow(x) == x \in Objs /\ HasValue(x) /\ Look(x, FALSE)
getValue(x, mv) == x \in Objs /\ HasValue(x) /\ Look(x, mv)
getError(x, mv) == x \in Objs /\ HasError(x) /\ Look(x, mv)
valueOr(x, mv) == x \in Objs /\ HasValue(x) /\ Look(x, mv)
errorOr(x, mv) == x \in Objs /\ HasError(x) /\ Look(x, mv)

\* What f returns: any result, or a value of the type of x.
flatMap(x, y, r, mv) ==
    /\ y \in Objs
    /\ Mapped(ThenName(mv), x, y,
           IF obj[y].hasValue THEN r ELSE alternative("error", payload(obj[y])), mv)

map(x, y, v, mv) ==
    /\ y \in Objs
    /\ Mapped(ThenName(mv), x, y,
           IF obj[y].hasValue THEN alternative("value", v)
           ELSE alternative("error", payload(obj[y])), mv)

flatMapError(x, y, r, mv) ==
    /\ x \in Objs /\ y \in Objs
    /\ Mapped(OrElseName(mv), x, y,
           IF obj[y].hasValue THEN alternative("value", payload(obj[y])) ELSE r, mv)

mapError(x, y, e, mv) ==
    /\ x \in Objs /\ y \in Objs
    /\ Mapped(OrElseName(mv), x, y,
           IF obj[y].hasValue THEN alternative("value", payload(obj[y]))
           ELSE alternative("error", e), mv)

-----------------------------------------------------------------------------
(* Result<void, E>: the value is a std::monostate and is never moved.      *)

voidDefault(x) == x \in VoidObjs /\ InPlace(x, "value", Unit)
voidInPlaceError(x, e) == x \in VoidObjs /\ InPlace(x, "error", e)

voidFromFailure(x, f, mv) ==
    /\ x \in VoidObjs /\ ~Exists(x) /\ HasFailure(f)
    /\ obj' = [obj EXCEPT ![x] = alternative("error", failure[f])]
    /\ failure' = [failure EXCEPT ![f] = IF mv THEN Moved ELSE @]
    /\ Called("put", x, x)
    /\ UNCHANGED <<ub, threw>>

voidCopyConstruct(x, y, mv) ==
    /\ x \in VoidObjs /\ y \in VoidObjs
    /\ \/ \E flag \in BOOLEAN :
             ConstructFrom(CopyName(mv), x, y,
                 constructFromResult(monostate(flag), obj[y], payload(obj[y])), mv)
       \/ ConstructThrows(x, y)

\* A value of the other result is not looked at, only an error is moved.
voidConvertConstruct(x, y, mv) ==
    /\ x \in VoidObjs
    /\ \/ \E flag \in BOOLEAN :
             ConstructFrom(IF mv THEN "discardMove" ELSE "discard", x, y,
                 constructErrorFromResult(monostate(flag), obj[y], Conv[payload(obj[y])]),
                 mv /\ ~obj[y].hasValue)
       \/ ~obj[y].hasValue /\ ConstructThrows(x, y)

voidCopyAssign(x, y, mv) ==
    /\ x \in VoidObjs
    /\ \/ AssignFrom(CopyName(mv), x, y, payload(obj[y]), mv)
       \/ AssignThrows(x, y)

voidConvertAssign(x, y, mv) ==
    /\ x \in VoidObjs /\ x # y
    /\ \/ AssignFrom(ConvertName(mv), x, y, Conv[payload(obj[y])], mv)
       \/ AssignThrows(x, y)

voidFailureAssign(x, f, mv) ==
    /\ x \in VoidObjs /\ HasFailure(f)
    /\ \/ /\ Assign(x, assignError(obj[x], failure[f]))
          /\ failure' = [failure EXCEPT ![f] = IF mv THEN Moved ELSE @]
       \/ PutThrows(x, FALSE)

voidGetError(x, mv) == x \in VoidObjs /\ HasError(x) /\ Look(x, mv)
voidErrorOr(x, mv) == x \in VoidObjs /\ HasError(x) /\ Look(x, mv)

voidFlatMap(x, y, r, mv) ==
    /\ y \in VoidObjs
    /\ Mapped(ThenName(mv), x, y,
           IF obj[y].hasValue THEN r ELSE alternative("error", payload(obj[y])), mv)

voidMap(x, y, v, mv) ==
    /\ y \in VoidObjs
    /\ Mapped(ThenName(mv), x, y,
           IF obj[y].hasValue THEN alternative("value", v)
           ELSE alternative("error", payload(obj[y])), mv)

\* The result of f has a value type that can be default constructed.
voidFlatMapError(x, y, r, mv) ==
    /\ y \in VoidObjs
    /\ Mapped(OrElseName(mv), x, y,
           IF obj[y].hasValue
           THEN alternative("value", IF x \in VoidObjs THEN Unit ELSE DefaultValue)
           ELSE r, mv)

voidMapError(x, y, e, mv) ==
    /\ x \in VoidObjs /\ y \in VoidObjs
    /\ Mapped(OrElseName(mv), x, y,
           IF obj[y].hasValue THEN alternative("value", Unit)
           ELSE alternative("error", e), mv)

-----------------------------------------------------------------------------
(* swap() and the destructor.                                              *)

\* An exchange that forgets what lhs held.
ExchangedWithoutTmp(x, y) ==
    LET lhs == assignFromResult(obj[x], obj[y], payload(obj[y]))
    IN [obj EXCEPT ![x] = lhs, ![y] = assignFromResult(movedFrom(@), lhs, payload(lhs))]
\* With different alternatives, tmp takes lhs, lhs takes rhs and rhs takes tmp.
Exchanged(x, y) ==
    LET tmp == constructFromResult(monostate(FALSE), obj[x], payload(obj[x]))
    IN [obj EXCEPT ![x] = assignFromResult(movedFrom(@), obj[y], payload(obj[y])),
                   ![y] = assignFromResult(movedFrom(@), tmp, payload(tmp))]

\* One of the three moves throws: the construction of tmp, of which nothing
\* is left but the destructor of its monostate, or an assignment.
SwapThrows(x, y) ==
    /\ Throws("throwSwap", x, y)
    /\ \/ /\ obj[x].val # Unit
          /\ obj' = obj /\ ub' = TRUE
       \/ /\ obj[y].val # Unit
          /\ obj' = [obj EXCEPT ![x] = thrownInto(@, obj[y].hasValue)]
          /\ Uses({x, y})
       \/ /\ obj[x].val # Unit
          /\ obj' = [Exchanged(x, y) EXCEPT ![y] = thrownInto(obj[y], obj[x].hasValue)]
          /\ Uses({x, y})

Swap(x, y) ==
    /\ Exists(x) /\ Exists(y) /\ x # y
    /\ UNCHANGED failure
    /\ \/ /\ obj[x].hasValue = obj[y].hasValue
          /\ obj' = [obj EXCEPT ![x].val = obj[y].val, ![y].val = obj[x].val]
          /\ Called("swap", x, y) /\ Uses({x, y}) /\ UNCHANGED threw
       \/ /\ obj[x].hasValue # obj[y].hasValue
          /\ obj' = Exchanged(x, y)
          /\ Called("swap", x, y) /\ Uses({x, y}) /\ UNCHANGED threw
       \/ obj[x].hasValue # obj[y].hasValue /\ SwapThrows(x, y)

swap(x, y) == x \in Objs /\ y \in Objs /\ Swap(x, y)
voidSwap(x, y) == x \in VoidObjs /\ y \in VoidObjs /\ Swap(x, y)

destructor(x) ==
    /\ Exists(x)
    /\ obj' = [obj EXCEPT ![x] = Absent]
    /\ Called("drop", x, x)
    /\ Uses({x})
    /\ UNCHANGED <<failure, threw>>

-----------------------------------------------------------------------------
(* Comparisons of two results a and b, with an error below every value.    *)

Ordinal(s) == IF s.hasValue THEN 1 ELSE 0

resultEq(a, b) == a.hasValue = b.hasValue /\ a.val = b.val
resultNe(a, b) == a.hasValue = b.hasValue => a.val # b.val
resultLt(a, b) ==
    IF a.hasValue = b.hasValue THEN a.val < b.val ELSE Ordinal(a) < Ordinal(b)
resultLe(a, b) ==
    IF a.hasValue = b.hasValue THEN a.val <= b.val ELSE Ordinal(a) <= Ordinal(b)
resultGt(a, b) ==
    IF a.hasValue = b.hasValue THEN a.val > b.val ELSE Ordinal(a) > Ordinal(b)
resultGe(a, b) ==
    IF a.hasValue = b.hasValue THEN a.val >= b.val ELSE Ordinal(a) >= Ordinal(b)

\* Of two Result<void, E> only the errors are compared.
voidEq(a, b) == a.hasValue = b.hasValue /\ (a.hasValue \/ a.val = b.val)
voidNe(a, b) == a.hasValue = b.hasValue => ~a.hasValue /\ a.val # b.val
\* A < that takes two values for ordered.
VoidValuesUnordered(a, b) ==
    IF a.hasValue = b.hasValue THEN a.hasValue \/ a.val < b.val ELSE Ordinal(a) < Ordinal(b)
\* Two results without an error are equal.
voidLt(a, b) == IF a.hasValue = b.hasValue
                THEN ~a.hasValue /\ a.val < b.val ELSE Ordinal(a) < Ordinal(b)
voidLe(a, b) == IF a.hasValue = b.hasValue
                THEN a.hasValue \/ a.val <= b.val ELSE Ordinal(a) <= Ordinal(b)
voidGt(a, b) == IF a.hasValue = b.hasValue
                THEN ~a.hasValue /\ a.val > b.val ELSE Ordinal(a) > Ordinal(b)
voidGe(a, b) == IF a.hasValue = b.hasValue
                THEN a.hasValue \/ a.val >= b.val ELSE Ordinal(a) >= Ordinal(b)

\* A result a and a value v: <<a op v, v op a>>.
valueEq(a, v) == <<a.hasValue /\ a.val = v, a.hasValue /\ v = a.val>>
valueNe(a, v) == <<~a.hasValue \/ a.val # v, ~a.hasValue \/ v # a.val>>
valueLt(a, v) == <<~a.hasValue \/ a.val < v, a.hasValue /\ v < a.val>>
valueLe(a, v) == <<~a.hasValue \/ a.val <= v, a.hasValue /\ v <= a.val>>
valueGt(a, v) == <<a.hasValue /\ a.val > v, ~a.hasValue \/ v > a.val>>
valueGe(a, v) == <<a.hasValue /\ a.val >= v, ~a.hasValue \/ v >= a.val>>

\* A result a, of either class, and a Failure that holds e.
errorEq(a, e) == <<~a.hasValue /\ a.val = e, ~a.hasValue /\ e = a.val>>
errorNe(a, e) == <<a.hasValue \/ a.val # e, a.hasValue \/ e # a.val>>
errorLt(a, e) == <<~a.hasValue /\ a.val < e, a.hasValue \/ e < a.val>>
errorLe(a, e) == <<~a.hasValue /\ a.val <= e, a.hasValue \/ e <= a.val>>
errorGt(a, e) == <<a.hasValue \/ a.val > e, ~a.hasValue /\ e > a.val>>
errorGe(a, e) == <<a.hasValue \/ a.val >= e, ~a.hasValue /\ e >= a.val>>

\* Two failures that hold e and g.
failureEq(e, g) == e = g
failureNe(e, g) == e # g
failureLt(e, g) == e < g
failureLe(e, g) == e <= g
failureGt(e, g) == e > g
failureGe(e, g) == e >= g

-----------------------------------------------------------------------------
FailureNext ==
    \/ \E f \in Failures :
          \/ \E e \in Errors : failureConstruct(f, e) \/ fail(f, e) \/ failureSet(f, e)
          \/ \E g \in Failures, mv \in BOOLEAN : failureCopy(f, g, mv)
          \/ \E g \in Failures : failureSwap(f, g)
          \/ failureTake(f)
          \/ failureDestroy(f)

\* What a function given to flatMap() or flatMapError() may return for x.
Returned(x) == {alternative("value", v) : v \in ValuesOf(x)}
                 \cup {alternative("error", e) : e \in Errors}

ResultNext ==
    \E x \in Objs :
      \/ defaultConstruct(x)
      \/ \E v \in Values : inPlaceValue(x, v) \/ fromValue(x, v) \/ valueAssign(x, v)
      \/ \E e \in Errors : inPlaceError(x, e)
      \/ arrow(x)
      \/ \E mv \in BOOLEAN :
           \/ \E f \in Failures : fromFailure(x, f, mv) \/ failureAssign(x, f, mv)
           \/ dereference(x, mv) \/ getValue(x, mv) \/ getError(x, mv)
           \/ valueOr(x, mv) \/ errorOr(x, mv)
           \/ \E y \in Objs :
                \/ copyConstruct(x, y, mv) \/ convertConstruct(x, y, mv)
                \/ copyAssign(x, y, mv) \/ convertAssign(x, y, mv)
                \/ \E r \in Returned(x) : flatMapError(x, y, r, mv)
                \/ \E e \in Errors : mapError(x, y, e, mv)
      \/ \E y \in Objs : swap(x, y)
      \/ destructor(x)

VoidNext ==
    \E x \in VoidObjs :
      \/ voidDefault(x)
      \/ \E e \in Errors : voidInPlaceError(x, e)
      \/ \E mv \in BOOLEAN :
           \/ \E f \in Failures : voidFromFailure(x, f, mv) \/ voidFailureAssign(x, f, mv)
           \/ voidGetError(x, mv) \/ voidErrorOr(x, mv)
           \/ \E y \in VoidObjs : voidCopyConstruct(x, y, mv) \/ voidCopyAssign(x, y, mv)
           \/ \E y \in Results : voidConvertConstruct(x, y, mv)
           \/ \E y \in VoidObjs, e \in Errors : voidMapError(x, y, e, mv)
           \/ \E y \in VoidObjs : voidConvertAssign(x, y, mv)
      \/ \E y \in VoidObjs : voidSwap(x, y)
      \/ destructor(x)

\* The functions that take a result of one class to one of any class.
MapNext ==
    \E x, y \in Results, mv \in BOOLEAN :
      \/ \E r \in Returned(x) :
           flatMap(x, y, r, mv) \/ voidFlatMap(x, y, r, mv) \/ voidFlatMapError(x, y, r, mv)
      \/ \E v \in ValuesOf(x) : map(x, y, v, mv) \/ voidMap(x, y, v, mv)

Next == FailureNext \/ ResultNext \/ VoidNext \/ MapNext

Spec == Init /\ [][Next]_vars

-----------------------------------------------------------------------------
(* Properties.                                                             *)

\* Every variable has its type.
TypeOK ==
    /\ obj \in [Results -> Storage]
    /\ failure \in [Failures -> Errors \cup {Moved, None}]
    /\ ub \in BOOLEAN /\ threw \in BOOLEAN

\* Without exceptions no operation reads, assigns or destroys a member of the
\* union that is not alive or builds one over another, and every result holds
\* exactly the member its discriminator names, whatever calls came before.
DiscriminatorTracksUnion ==
    ~threw => ~ub /\ \A x \in Results : Exists(x) => Sound(obj[x])

\* The documentation of the class: a result "at any given time contains
\* either a valid result of a computation or an error".
AlwaysValueOrError == \A x \in Results : Exists(x) => Sound(obj[x])

\* The six comparisons of one pair against the reference order: errors below
\* values, equal alternatives by their payload.
Below(a, b) == \/ ~a.hasValue /\ b.hasValue
               \/ a.hasValue = b.hasValue /\ a.val # Unit /\ a.val < b.val
Reference(a, b) == <<a = b, a # b, Below(a, b), ~Below(b, a), Below(b, a), ~Below(a, b)>>
Both(six, i) == [k \in 1..6 |-> six[k][i]]
Mixed(six, a, b) == Both(six, 1) = Reference(a, b) /\ Both(six, 2) = Reference(b, a)

Comparable == {obj[x] : x \in {z \in Results : Sound(obj[z]) /\ obj[z].val # Moved}}
OfValue(a) == a.val # Unit
OfVoid(a) == a.hasValue => a.val = Unit

\* The comparison operators of two results, of a result and a value, of a
\* result and a Failure and of two failures all agree with one total order in
\* which a plain value is a result with that value and a Failure a result with
\* that error.
ComparisonsAgree ==
    \A a \in Comparable :
      /\ \A b \in Comparable :
           /\ OfValue(a) /\ OfValue(b) =>
                Reference(a, b) = <<resultEq(a, b), resultNe(a, b), resultLt(a, b),
                                    resultLe(a, b), resultGt(a, b), resultGe(a, b)>>
           /\ OfVoid(a) /\ OfVoid(b) =>
                Reference(a, b) = <<voidEq(a, b), voidNe(a, b), voidLt(a, b),
                                    voidLe(a, b), voidGt(a, b), voidGe(a, b)>>
           /\ OfVoid(a) /\ OfVoid(b) /\ OfValue(a) /\ OfValue(b) =>
                Reference(a, b) =
                  <<failureEq(a.val, b.val), failureNe(a.val, b.val), failureLt(a.val, b.val),
                    failureLe(a.val, b.val), failureGt(a.val, b.val), failureGe(a.val, b.val)>>
      /\ OfValue(a) => \A v \in Values :
           Mixed(<<valueEq(a, v), valueNe(a, v), valueLt(a, v),
                   valueLe(a, v), valueGt(a, v), valueGe(a, v)>>, a, alternative("value", v))
      /\ \A e \in Errors :
           Mixed(<<errorEq(a, e), errorNe(a, e), errorLt(a, e),
                   errorLe(a, e), errorGt(a, e), errorGe(a, e)>>, a, alternative("error", e))

\* The slot of SumType that a result is.
Slot(x) == CASE ~Exists(x) -> [tag |-> "absent", val |-> Moved]
             [] Exists(x) /\ ~Sound(obj[x]) -> [tag |-> "broken", val |-> Moved]
             [] OTHER -> [tag |-> IF obj[x].hasValue THEN "value" ELSE "other",
                          val |-> obj[x].val]
=============================================================================
