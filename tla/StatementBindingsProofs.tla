----------------------- MODULE StatementBindingsProofs -----------------------
(***************************************************************************)
(* Theorems about StatementBindings for any number of parameters, and for  *)
(* execute() calls within each other to any depth: what the values stored  *)
(* so far owe to the innermost call, and what its execution then uses; and *)
(* about SqlPlan for texts of any length over any set of placeholders: the *)
(* slots of a statement's values fit the array they are bound from, and    *)
(* expanding a statement binds each placeholder as DuckDB would.           *)
(***************************************************************************)
EXTENDS StatementBindings, SqlPlan, Recursion, FiniteSetTheorems, SequenceTheorems, TLAPS

Positions == Params \cup Extra

CallRecords ==
    [id : 1..MaxCalls, todo : SUBSET Positions, at : Positions \cup {None},
     complete : BOOLEAN, outer : BOOLEAN]

Fields ==
    /\ bound \subseteq Positions
    /\ calls \in Seq(CallRecords)
    /\ cleared \in BOOLEAN /\ deferred \in BOOLEAN /\ remote \in BOOLEAN
    /\ prepared \in Values /\ expanded \in Values
    /\ count \in 0..MaxCalls

\* The calls of the stack: one converts what it still has to do, each but the
\* innermost one is inside a conversion and was executed again from there.
Nesting ==
    \A i \in 1..Len(calls) :
       /\ calls[i].id <= count
       /\ calls[i].todo \subseteq bound
       /\ calls[i].at # None => calls[i].at \in calls[i].todo
       /\ i < Len(calls) => calls[i].at # None /\ calls[i].outer

\* A call is identified by its number: inner ones are later.
CallsInOrder ==
    \A i, j \in 1..Len(calls) : i < j => calls[i].id < calls[j].id

\* Bindings are cleared only by a call that is still active.
ClearedByCall == cleared => calls # <<>>

\* Once they are cleared, what the innermost call has converted is its own, and
\* what it has not is of a parameter it will convert.
OwnValues ==
    cleared => \A p \in Params :
       expanded[p] # 0 => /\ p \in bound
                          /\ p \in Call.todo \/ expanded[p] = Call.id

\* Both copies agree until queries are deferred.
CopiesAgree == cleared /\ ~deferred => prepared = expanded

\* A call that was not executed again keeps every value it converted.
NothingLost ==
    calls # <<>> /\ ~Call.outer =>
       /\ Call.at # None => cleared
       /\ Call.complete =>
             \A p \in Params :
                p \in Call.todo \/ (cleared /\ expanded[p] = Call.id)

IInv ==
    /\ Fields
    /\ Nesting /\ CallsInOrder /\ ClearedByCall
    /\ OwnValues /\ CopiesAgree /\ NothingLost
    /\ ValuesOfOneCall /\ ResultOfLastCall /\ CompleteCallsRun

-----------------------------------------------------------------------------
(* The stack.                                                               *)

USE NoneAssumption, BoundsAssumption DEF Positions

\* The record on top is there and typed.
LEMMA TopIsCall ==
  ASSUME Fields, calls # <<>>
  PROVE  /\ Len(calls) \in Nat \ {0} /\ Len(calls) \in 1..Len(calls)
         /\ Call = calls[Len(calls)] /\ Call \in CallRecords
BY DEF Fields, Call

\* A step of the innermost call replaces its record and no other.
LEMMA TopReplaced ==
  ASSUME Fields, calls # <<>>, NEW r \in CallRecords,
         calls' = [calls EXCEPT ![Len(calls)] = r]
  PROVE  /\ calls' \in Seq(CallRecords) /\ calls' # <<>>
         /\ Len(calls') = Len(calls) /\ Call' = r
         /\ \A i \in 1..Len(calls) :
               calls'[i] = IF i = Len(calls) THEN r ELSE calls[i]
<1>1. Len(calls) \in 1..Len(calls)  BY TopIsCall
<1>2. calls \in Seq(CallRecords)  BY DEF Fields
<1>3. /\ calls' \in Seq(CallRecords) /\ Len(calls') = Len(calls)
      /\ \A i \in 1..Len(calls) :
            calls'[i] = IF i = Len(calls) THEN r ELSE calls[i]
  BY <1>1, <1>2, ExceptSeq
<1> QED  BY <1>1, <1>2, <1>3 DEF Call

\* When it returns, the call around it is the innermost one again.
LEMMA TopPopped ==
  ASSUME Fields, calls # <<>>, calls' = Outer
  PROVE  /\ calls' \in Seq(CallRecords) /\ Len(calls') = Len(calls) - 1
         /\ \A i \in 1..Len(calls') : calls'[i] = calls[i]
         /\ calls' # <<>> => /\ Len(calls) - 1 \in 1..Len(calls)
                             /\ Call' = calls[Len(calls) - 1]
<1> DEFINE n == Len(calls)
<1>1. n \in Nat \ {0}  BY TopIsCall
<1>2. \A i \in 1..n - 1 : calls[i] \in CallRecords  BY <1>1 DEF Fields
<1>3. /\ Outer \in Seq(CallRecords)
      /\ Len(Outer) = IF 1 <= n - 1 THEN n - 1 - 1 + 1 ELSE 0
      /\ \A i \in 1..n - 1 - 1 + 1 : Outer[i] = calls[1 + i - 1]
  <2>1. 1 \in Int /\ n - 1 \in Int  BY <1>1
  <2> HIDE DEF n
  <2> QED  BY <2>1, <1>2, SubSeqProperties DEF Outer, n
<1>4. Len(calls') = n - 1
  <2>1. Len(calls') = IF 1 <= n - 1 THEN n - 1 - 1 + 1 ELSE 0
    BY <1>3
  <2> HIDE DEF n
  <2> QED  BY <1>1, <2>1
<1>5. \A i \in 1..Len(calls') : calls'[i] = calls[i]  BY <1>1, <1>3, <1>4
<1>6. ASSUME calls' # <<>>  PROVE n - 1 \in 1..n /\ n - 1 \in 1..Len(calls')
  BY <1>1, <1>3, <1>4, <1>6
<1> QED  BY <1>1, <1>3, <1>4, <1>5, <1>6 DEF Call

LEMMA NoValuesTyped == NoValues \in Values /\ Retained(prepared) \in
                                                {prepared, NoValues}
BY DEF NoValues, Values, Retained

LEMMA EmptyStack == <<>> \in Seq(CallRecords) /\ Len(<<>>) = 0
OBVIOUS

\* Without an active call there is nothing to say of values.
LEMMA NoCalls ==
  ASSUME calls' = <<>>, ~cleared'
  PROVE  (Nesting /\ CallsInOrder /\ ClearedByCall /\ OwnValues /\ CopiesAgree
            /\ NothingLost)'
<1>1. Len(calls') = 0  OBVIOUS
<1> QED
  BY <1>1 DEF Nesting, CallsInOrder, ClearedByCall, OwnValues, CopiesAgree,
              NothingLost

-----------------------------------------------------------------------------
(* Actions outside a conversion, and those that leave the stack alone.      *)

LEMMA BindValuePreserves ==
  ASSUME IInv, NEW p \in Positions, BindValue(p)
  PROVE  IInv'
<1>1. calls' = <<>> /\ ~cleared'  BY DEF IInv, BindValue, ClearedByCall
<1>2. Fields'  BY DEF IInv, Fields, BindValue, Values
<1>3. (ValuesOfOneCall /\ ResultOfLastCall /\ CompleteCallsRun)'
  BY DEF IInv, BindValue, ValuesOfOneCall, ResultOfLastCall, CompleteCallsRun
<1> QED  BY <1>1, <1>2, <1>3, NoCalls DEF IInv

LEMMA QuietPreserves ==
  ASSUME IInv, UNCHANGED <<bound, calls, cleared, prepared, expanded, deferred,
                           last, count>>,
         result' \in {result, None}, remote' \in BOOLEAN
  PROVE  IInv'
<1>1. Fields'  BY DEF IInv, Fields, Values
<1>2. (Nesting /\ CallsInOrder /\ ClearedByCall /\ OwnValues /\ CopiesAgree
         /\ NothingLost)'
  BY DEF IInv, Nesting, CallsInOrder, ClearedByCall, OwnValues, CopiesAgree,
         NothingLost, Call
<1>3. (ValuesOfOneCall /\ ResultOfLastCall /\ CompleteCallsRun)'
  BY DEF IInv, ValuesOfOneCall, ResultOfLastCall, CompleteCallsRun
<1> QED  BY <1>1, <1>2, <1>3 DEF IInv

LEMMA BeginPreserves ==
  ASSUME IInv, NEW positions \in SUBSET Positions, Begin(positions)
  PROVE  IInv'
<1> DEFINE r == NewCall(positions)
<1>1. count \in 0..MaxCalls /\ count < MaxCalls /\ count' = count + 1
      /\ bound' = positions /\ calls = <<>> /\ calls' = <<r>>
      /\ UNCHANGED <<cleared, prepared, expanded, deferred, remote, result, last>>
  BY DEF IInv, Fields, Begin
<1>2. r \in CallRecords /\ r.id = count + 1 /\ r.todo = positions
      /\ r.at = None /\ r.complete = (Params \subseteq positions) /\ ~r.outer
  BY <1>1 DEF NewCall, CallRecords
<1> HIDE DEF r
<1>3. calls' \in Seq(CallRecords) /\ Len(calls') = 1 /\ calls' # <<>>
      /\ calls'[1] = r /\ Call' = r
  BY <1>1, <1>2 DEF Call
<1>4. ~cleared'  BY <1>1 DEF IInv, ClearedByCall
<1>5. Fields'  BY <1>1, <1>3 DEF IInv, Fields, Values
<1>6. (Nesting /\ CallsInOrder /\ ClearedByCall /\ OwnValues /\ CopiesAgree)'
  BY <1>1, <1>2, <1>3, <1>4
     DEF Nesting, CallsInOrder, ClearedByCall, OwnValues, CopiesAgree
<1>7. NothingLost'  BY <1>2, <1>3 DEF NothingLost
<1>8. (ValuesOfOneCall /\ ResultOfLastCall /\ CompleteCallsRun)'
  BY <1>1 DEF IInv, ValuesOfOneCall, ResultOfLastCall, CompleteCallsRun
<1> QED  BY <1>5, <1>6, <1>7, <1>8 DEF IInv

LEMMA BeginUndefinedPreserves ==
  ASSUME IInv, NEW positions \in SUBSET Positions, BeginUndefined(positions)
  PROVE  IInv'
<1>1. calls' = <<>> /\ cleared' = FALSE /\ result' = None /\ ~last'.missing
      /\ expanded' = NoValues /\ bound' = positions
      /\ count \in 0..MaxCalls /\ count < MaxCalls /\ count' = count + 1
      /\ UNCHANGED <<prepared, deferred, remote>>
  BY DEF IInv, Fields, BeginUndefined, BindFailure, FailedResult
<1>2. Fields'
  <2>1. bound' \subseteq Positions  BY <1>1
  <2>2. calls' \in Seq(CallRecords)  BY <1>1, EmptyStack
  <2>3. prepared' \in Values /\ expanded' \in Values
    BY <1>1, NoValuesTyped DEF IInv, Fields
  <2>4. count' \in 0..MaxCalls  BY <1>1
  <2> QED  BY <1>1, <2>1, <2>2, <2>3, <2>4 DEF IInv, Fields
<1>3. (ValuesOfOneCall /\ ResultOfLastCall /\ CompleteCallsRun)'
  BY <1>1 DEF ValuesOfOneCall, ResultOfLastCall, CompleteCallsRun
<1> QED  BY <1>1, <1>2, <1>3, NoCalls DEF IInv

-----------------------------------------------------------------------------
(* Conversions.                                                             *)

LEMMA ReenterPreserves ==
  ASSUME IInv, Reenter
  PROVE  IInv'
<1> DEFINE n == Len(calls)
           q == [calls EXCEPT ![n].outer = TRUE]
           top == [Call EXCEPT !.outer = TRUE]
           r == NewCall(bound)
<1>1. /\ Fields /\ calls # <<>> /\ Call.at # None
      /\ count \in 0..MaxCalls /\ count < MaxCalls /\ count' = count + 1
      /\ calls' = Append(q, r)
      /\ UNCHANGED <<bound, cleared, prepared, expanded, deferred, remote,
                     result, last>>
  BY DEF IInv, Fields, Reenter
<1>2. /\ n \in Nat \ {0} /\ n \in 1..n /\ calls \in Seq(CallRecords)
      /\ Call = calls[n] /\ Call \in CallRecords
  BY <1>1, TopIsCall DEF Fields
<1>3. /\ top \in CallRecords /\ top.id = Call.id /\ top.todo = Call.todo
      /\ top.at = Call.at /\ top.outer
  BY <1>2 DEF CallRecords
<1>4. r \in CallRecords /\ r.id = count + 1 /\ r.todo = bound /\ r.at = None
      /\ ~r.outer
  BY <1>1 DEF NewCall, CallRecords, Fields
<1>5. q = [calls EXCEPT ![n] = top]  BY <1>2
<1> HIDE DEF top, r, q
<1>6. /\ q \in Seq(CallRecords) /\ Len(q) = n
      /\ \A i \in 1..n : q[i] = IF i = n THEN top ELSE calls[i]
  BY <1>2, <1>3, <1>5, ExceptSeq
<1>7. /\ calls' \in Seq(CallRecords) /\ calls' # <<>> /\ Len(calls') = n + 1
      /\ \A i \in 1..n : calls'[i] = IF i = n THEN top ELSE calls[i]
      /\ calls'[n + 1] = r
  BY SMTT(30), <1>1, <1>4, <1>6, AppendProperties
<1>8. Call' = r  BY <1>7 DEF Call
<1>9. \A i \in 1..n : calls[i] \in CallRecords /\ calls[i].id \in 1..MaxCalls
  <2>1. \A i \in 1..n : calls[i] \in CallRecords  BY <1>2
  <2> QED  BY <2>1 DEF CallRecords
<1> HIDE DEF n
<1>10. Nesting'
  <2> SUFFICES ASSUME NEW i \in 1..n + 1
               PROVE  /\ calls'[i].id <= count'
                      /\ calls'[i].todo \subseteq bound'
                      /\ calls'[i].at # None => calls'[i].at \in calls'[i].todo
                      /\ i < n + 1 => calls'[i].at # None /\ calls'[i].outer
    BY <1>7 DEF Nesting
  <2>1. CASE i = n + 1  BY <2>1, <1>1, <1>2, <1>4, <1>7
  <2>2. CASE i = n
    <3>1. calls[n].id \in 1..MaxCalls  BY <1>2, <1>9
    <3>2. /\ calls[n].id <= count /\ calls[n].todo \subseteq bound
          /\ calls[n].at # None => calls[n].at \in calls[n].todo
      BY <1>2 DEF IInv, Nesting, n
    <3> QED  BY SMTT(30), <2>2, <3>1, <3>2, <1>1, <1>2, <1>3, <1>7
  <2>3. CASE i \in 1..n - 1
    <3>1. i \in 1..n /\ i < n  BY <2>3, <1>2
    <3>2. /\ calls[i].id <= count /\ calls[i].todo \subseteq bound
          /\ calls[i].at # None => calls[i].at \in calls[i].todo
          /\ calls[i].at # None /\ calls[i].outer
      BY <3>1 DEF IInv, Nesting, n
    <3>3. calls'[i] = calls[i] /\ calls[i].id \in 1..MaxCalls
      BY <3>1, <1>2, <1>7, <1>9
    <3> QED  BY <3>1, <3>2, <3>3, <1>1
  <2> QED  BY <2>1, <2>2, <2>3, <1>2
<1>11. CallsInOrder'
  <2> SUFFICES ASSUME NEW i \in 1..n + 1, NEW j \in 1..n + 1, i < j
               PROVE  calls'[i].id < calls'[j].id
    BY <1>7 DEF CallsInOrder
  <2>1. i \in 1..n /\ calls'[i].id = calls[i].id
    BY <1>2, <1>3, <1>7
  <2>2. calls[i].id \in 1..MaxCalls /\ calls[i].id <= count
    BY <2>1, <1>9 DEF IInv, Nesting, n
  <2>3. CASE j = n + 1  BY <2>1, <2>2, <2>3, <1>1, <1>4, <1>7
  <2>4. CASE j \in 1..n
    <3>1. calls'[j].id = calls[j].id  BY <2>4, <1>2, <1>3, <1>7
    <3>2. calls[i].id < calls[j].id  BY <2>1, <2>4 DEF IInv, CallsInOrder, n
    <3> QED  BY <2>1, <3>1, <3>2
  <2> QED  BY <2>3, <2>4, <1>2
<1>12. (ClearedByCall /\ OwnValues /\ CopiesAgree)'
  BY <1>1, <1>4, <1>7, <1>8 DEF IInv, ClearedByCall, OwnValues, CopiesAgree
<1>13. NothingLost'
  <2> SUFFICES ASSUME Call'.complete, NEW p \in Params
               PROVE  p \in Call'.todo
    BY <1>4, <1>8 DEF NothingLost
  <2> QED  BY <1>4, <1>8 DEF r, NewCall
<1>14. Fields'  BY <1>1, <1>7 DEF Fields
<1>15. (ValuesOfOneCall /\ ResultOfLastCall /\ CompleteCallsRun)'
  BY <1>1 DEF IInv, ValuesOfOneCall, ResultOfLastCall, CompleteCallsRun
<1> QED  BY <1>10, <1>11, <1>12, <1>13, <1>14, <1>15 DEF IInv

\* What an exchange of the innermost record leaves of the stack.
LEMMA StackKept ==
  ASSUME IInv, calls # <<>>, NEW r \in CallRecords,
         calls' = [calls EXCEPT ![Len(calls)] = r],
         r.id = Call.id, r.todo \subseteq Call.todo,
         r.at # None => r.at \in r.todo,
         UNCHANGED <<bound, count>>
  PROVE  Nesting' /\ CallsInOrder'
<1> DEFINE n == Len(calls)
<1>1. /\ Len(calls') = n /\ n \in Nat \ {0} /\ n \in 1..n /\ Call = calls[n]
      /\ \A i \in 1..n : calls'[i] = IF i = n THEN r ELSE calls[i]
  BY TopIsCall, TopReplaced DEF IInv
<1>2. /\ calls[n].todo \subseteq bound /\ calls[n].id <= count
      /\ \A i \in 1..n : calls'[i].id = calls[i].id
  BY <1>1 DEF IInv, Nesting
<1> HIDE DEF n
<1>3. Nesting'
  <2> SUFFICES ASSUME NEW i \in 1..n
               PROVE  /\ calls'[i].id <= count'
                      /\ calls'[i].todo \subseteq bound'
                      /\ calls'[i].at # None => calls'[i].at \in calls'[i].todo
                      /\ i < n => calls'[i].at # None /\ calls'[i].outer
    BY <1>1 DEF Nesting
  <2>1. CASE i = n  BY <2>1, <1>1, <1>2
  <2>2. CASE i # n
    BY ZenonT(60), <2>2, <1>1 DEF IInv, Nesting, n
  <2> QED  BY <2>1, <2>2
<1>4. CallsInOrder'  BY ZenonT(60), <1>1, <1>2 DEF IInv, CallsInOrder, n
<1> QED  BY <1>3, <1>4

LEMMA EnterHookPreserves ==
  ASSUME IInv, NEW p \in Positions, EnterHook(p)
  PROVE  IInv'
<1> DEFINE r == [Call EXCEPT !.at = p]
<1>1. /\ Fields /\ calls # <<>> /\ Call.at = None /\ p \in Call.todo
      /\ cleared' = TRUE
      /\ prepared' = (IF ~cleared THEN NoValues ELSE prepared)
      /\ expanded' = (IF ~cleared THEN NoValues ELSE expanded)
      /\ UNCHANGED <<bound, deferred, remote, result, last, count>>
  BY DEF IInv, EnterHook, MustClear
<1>2. /\ Call \in CallRecords /\ Call = calls[Len(calls)]
      /\ Len(calls) \in 1..Len(calls) /\ calls \in Seq(CallRecords)
  BY <1>1, TopIsCall DEF Fields
<1>3. /\ r \in CallRecords /\ r.id = Call.id /\ r.todo = Call.todo /\ r.at = p
      /\ r.complete = Call.complete /\ r.outer = Call.outer
  BY <1>2 DEF CallRecords
<1>4. calls' = [calls EXCEPT ![Len(calls)] = r]  BY <1>2 DEF EnterHook
<1> HIDE DEF r
<1>5. calls' \in Seq(CallRecords) /\ calls' # <<>> /\ Call' = r
  BY <1>1, <1>3, <1>4, TopReplaced
<1>6. Nesting' /\ CallsInOrder'  BY <1>1, <1>3, <1>4, StackKept
<1>7. Fields'  BY <1>1, <1>5, NoValuesTyped DEF Fields
<1>8. ClearedByCall'  BY <1>5 DEF ClearedByCall
<1>9. OwnValues'
  BY <1>1, <1>3, <1>5 DEF IInv, OwnValues, NoValues
<1>10. CopiesAgree'  BY <1>1 DEF IInv, CopiesAgree
<1>11. NothingLost'
  BY <1>1, <1>3, <1>5 DEF IInv, NothingLost
<1>12. (ValuesOfOneCall /\ ResultOfLastCall /\ CompleteCallsRun)'
  BY <1>1 DEF IInv, ValuesOfOneCall, ResultOfLastCall, CompleteCallsRun
<1> QED  BY <1>6, <1>7, <1>8, <1>9, <1>10, <1>11, <1>12 DEF IInv

LEMMA BindPreserves ==
  ASSUME IInv, Bind
  PROVE  IInv'
<1> DEFINE c == Call
           r == [c EXCEPT !.at = None, !.todo = @ \ {c.at}]
<1>1. /\ Fields /\ calls # <<>> /\ c.at \in Params
      /\ expanded' = [expanded EXCEPT ![c.at] = c.id]
      /\ prepared' = (IF deferred THEN prepared
                      ELSE [prepared EXCEPT ![c.at] = c.id])
      /\ UNCHANGED <<bound, cleared, deferred, remote, result, last, count>>
  BY DEF IInv, Bind, Stored
<1>2. /\ c \in CallRecords /\ c = calls[Len(calls)]
      /\ Len(calls) \in 1..Len(calls) /\ calls \in Seq(CallRecords)
  BY <1>1, TopIsCall DEF Fields
<1>3. /\ r \in CallRecords /\ r.id = c.id /\ r.todo = c.todo \ {c.at}
      /\ r.at = None /\ r.complete = c.complete /\ r.outer = c.outer
  BY <1>2 DEF CallRecords
<1>4. calls' = [calls EXCEPT ![Len(calls)] = r]  BY <1>2 DEF Bind
<1>5. /\ c.at # None /\ c.at \in c.todo /\ c.todo \subseteq bound
      /\ c.id \in 1..MaxCalls
  BY <1>1, <1>2 DEF IInv, Nesting, CallRecords
<1> HIDE DEF r
<1>6. calls' \in Seq(CallRecords) /\ calls' # <<>> /\ Call' = r
  BY <1>1, <1>3, <1>4, TopReplaced
<1>7. Nesting' /\ CallsInOrder'  BY <1>1, <1>3, <1>4, StackKept
<1>8. c.id \in 0..MaxCalls /\ expanded \in Values /\ prepared \in Values
  BY <1>1, <1>5 DEF Fields
<1>9. expanded' \in Values /\ prepared' \in Values
  BY <1>1, <1>8 DEF Values
<1>10. \A p \in Params : expanded'[p] = IF p = c.at THEN c.id ELSE expanded[p]
  BY <1>1, <1>8 DEF Values
<1> HIDE DEF c
<1>11. Fields'  BY <1>1, <1>6, <1>9 DEF Fields
<1>12. ClearedByCall'  BY <1>6 DEF ClearedByCall
<1>13. OwnValues'
  BY <1>1, <1>3, <1>5, <1>6, <1>10 DEF IInv, OwnValues, c
<1>14. CopiesAgree'  BY <1>1 DEF IInv, CopiesAgree
<1>15. NothingLost'
  BY <1>1, <1>3, <1>5, <1>6, <1>10 DEF IInv, NothingLost, c
<1>16. (ValuesOfOneCall /\ ResultOfLastCall /\ CompleteCallsRun)'
  BY <1>1 DEF IInv, ValuesOfOneCall, ResultOfLastCall, CompleteCallsRun
<1> QED  BY <1>7, <1>11, <1>12, <1>13, <1>14, <1>15, <1>16 DEF IInv

-----------------------------------------------------------------------------
(* The end of a call.                                                       *)

\* Whatever the call around it has, nothing of it counts any more.
LEMMA ReturnLeaves ==
  ASSUME IInv, calls # <<>>, calls' = Outer, cleared' = FALSE,
         prepared' \in Values, expanded' \in Values, deferred' \in BOOLEAN,
         UNCHANGED <<bound, remote, count>>
  PROVE  (Fields /\ Nesting /\ CallsInOrder /\ ClearedByCall /\ OwnValues
            /\ CopiesAgree /\ NothingLost)'
<1> DEFINE n == Len(calls)
<1>1. n \in Nat \ {0}  BY TopIsCall DEF IInv
<1>2. /\ calls' \in Seq(CallRecords) /\ Len(calls') = n - 1
      /\ \A i \in 1..n - 1 : calls'[i] = calls[i]
      /\ calls' # <<>> => n - 1 \in 1..n /\ Call' = calls[n - 1]
  BY TopPopped DEF IInv
<1> HIDE DEF n
<1>3. \A i \in 1..n - 1 : i \in 1..n /\ i < n  BY <1>1
<1>4. Fields'  BY <1>2 DEF IInv, Fields
<1>5. Nesting' /\ CallsInOrder'
  BY ZenonT(60), <1>1, <1>2, <1>3 DEF IInv, Nesting, CallsInOrder, n
<1>6. (ClearedByCall /\ OwnValues /\ CopiesAgree)'
  BY DEF ClearedByCall, OwnValues, CopiesAgree
<1>7. NothingLost'
  <2>1. calls' # <<>> => Call'.outer
    BY <1>1, <1>2 DEF IInv, Nesting, n
  <2> QED  BY <2>1 DEF NothingLost
<1> QED  BY <1>4, <1>5, <1>6, <1>7

LEMMA BindFailsPreserves ==
  ASSUME IInv, BindFails
  PROVE  IInv'
<1>1. /\ calls # <<>> /\ calls' = Outer /\ cleared' = FALSE
      /\ result' = None /\ ~last'.missing /\ expanded' = NoValues
      /\ UNCHANGED <<bound, prepared, deferred, remote, count>>
  BY DEF BindFails, BindFailure, FailedResult, Return
<1>2. prepared' \in Values /\ expanded' \in Values /\ deferred' \in BOOLEAN
  BY <1>1, NoValuesTyped DEF IInv, Fields
<1>3. (ValuesOfOneCall /\ ResultOfLastCall /\ CompleteCallsRun)'
  BY <1>1 DEF ValuesOfOneCall, ResultOfLastCall, CompleteCallsRun
<1> QED  BY <1>1, <1>2, <1>3, ReturnLeaves DEF IInv

LEMMA ExecuteDeniedPreserves ==
  ASSUME IInv, ExecuteDenied
  PROVE  IInv'
<1>1. /\ calls # <<>> /\ calls' = Outer /\ cleared' = FALSE
      /\ result' = None /\ ~last'.missing
      /\ prepared' = Retained(prepared) /\ expanded' = Retained(expanded)
      /\ UNCHANGED <<bound, deferred, remote, count>>
  BY DEF ExecuteDenied, ReadyToRun, Return
<1>2. prepared' \in Values /\ expanded' \in Values /\ deferred' \in BOOLEAN
  BY <1>1, NoValuesTyped DEF IInv, Fields, Retained
<1>3. (ValuesOfOneCall /\ ResultOfLastCall /\ CompleteCallsRun)'
  BY <1>1 DEF ValuesOfOneCall, ResultOfLastCall, CompleteCallsRun
<1> QED  BY <1>1, <1>2, <1>3, ReturnLeaves DEF IInv

\* What the query runs with: each value is one the call itself converted, and
\* all are there unless the call was executed again in between.
LEMMA ValuesUsed ==
  ASSUME IInv, ReadyToRun,
         NEW values,
         values = IF deferred \/ remote THEN Retained(expanded)
                                        ELSE Retained(prepared)
  PROVE  /\ \A p \in Params : values[p] # 0 => values[p] = Call.id
         /\ ~Call.outer /\ Call.complete => Complete(values)
<1>1. Call \in CallRecords /\ Call.id # 0
  BY TopIsCall DEF IInv, ReadyToRun, CallRecords
<1>2. CASE cleared
  <2>1. values = expanded
    BY <1>2 DEF IInv, CopiesAgree, Retained
  <2> QED
    BY <2>1, <1>1, <1>2 DEF IInv, OwnValues, NothingLost, ReadyToRun, Complete
<1>3. CASE ~cleared
  <2>1. values = NoValues  BY <1>3 DEF Retained
  <2>2. ~Call.outer /\ Call.complete => Params = {}
    BY <1>3 DEF IInv, NothingLost, ReadyToRun
  <2> QED  BY <2>1, <2>2 DEF NoValues, Complete
<1> QED  BY <1>2, <1>3

LEMMA ExecutePreserves ==
  ASSUME IInv, Execute
  PROVE  IInv'
<1> DEFINE path == deferred \/ remote
           values == IF path THEN Retained(expanded) ELSE Retained(prepared)
<1>1. /\ ReadyToRun /\ calls # <<>> /\ calls' = Outer /\ cleared' = FALSE
      /\ deferred' = path
      /\ prepared' = Retained(prepared) /\ expanded' = NoValues
      /\ UNCHANGED <<bound, remote, count>>
  BY DEF Execute, ReadyToRun, Return
<1>2. \/ /\ ~Complete(values) /\ result' = None
         /\ last'.complete = Call.complete /\ last'.outer = Call.outer
      \/ result' = None /\ ~last'.missing
      \/ /\ Complete(values) /\ result'.call = Call.id /\ result'.values = values
         /\ last'.id = Call.id /\ ~last'.missing
  BY DEF Execute, Return
<1>3. /\ \A p \in Params : values[p] # 0 => values[p] = Call.id
      /\ ~Call.outer /\ Call.complete => Complete(values)
  BY <1>1, ValuesUsed
<1>4. prepared' \in Values /\ expanded' \in Values /\ deferred' \in BOOLEAN
  BY <1>1, NoValuesTyped DEF IInv, Fields
<1> HIDE DEF values, path
<1>5. (ValuesOfOneCall /\ ResultOfLastCall /\ CompleteCallsRun)'
  BY <1>2, <1>3
     DEF ValuesOfOneCall, ResultOfLastCall, CompleteCallsRun, Complete
<1> QED  BY <1>1, <1>4, <1>5, ReturnLeaves DEF IInv

-----------------------------------------------------------------------------
(* The theorems.                                                            *)

\* What the innermost call has converted is its own, at every step.
THEOREM Invariance == Spec => []IInv
<1>1. Init => IInv
  <2> SUFFICES ASSUME Init  PROVE IInv
    OBVIOUS
  <2>1. Fields
    <3>1. calls \in Seq(CallRecords)  BY EmptyStack DEF Init
    <3>2. prepared \in Values /\ expanded \in Values
      BY NoValuesTyped DEF Init
    <3>3. bound \subseteq Positions /\ count \in 0..MaxCalls  BY DEF Init
    <3> QED  BY <3>1, <3>2, <3>3 DEF Init, Fields
  <2> QED
    BY <2>1, EmptyStack
       DEF Init, IInv, Nesting, CallsInOrder, ClearedByCall, OwnValues, CopiesAgree,
           NothingLost, ValuesOfOneCall, ResultOfLastCall, CompleteCallsRun
<1>2. IInv /\ [Next]_vars => IInv'
  <2> SUFFICES ASSUME IInv, [Next]_vars  PROVE IInv'
    OBVIOUS
  <2>1. ASSUME NEW p \in Positions, BindValue(p)  PROVE IInv'
    BY <2>1, BindValuePreserves
  <2>2. ASSUME NEW p \in Positions, EnterHook(p)  PROVE IInv'
    BY <2>2, EnterHookPreserves
  <2>3. ASSUME NEW positions \in SUBSET Positions, Begin(positions)
        PROVE  IInv'
    BY <2>3, BeginPreserves
  <2>4. ASSUME NEW positions \in SUBSET Positions, BeginUndefined(positions)
        PROVE  IInv'
    BY <2>4, BeginUndefinedPreserves
  <2>5. CASE Reenter  BY <2>5, ReenterPreserves
  <2>6. CASE CloseCursor
    BY <2>6, QuietPreserves DEF CloseCursor, IInv, Fields
  <2>7. CASE ChangeRemote
    BY <2>7, QuietPreserves DEF ChangeRemote
  <2>8. CASE Bind  BY <2>8, BindPreserves
  <2>9. CASE BindFails  BY <2>9, BindFailsPreserves
  <2>10. CASE ExecuteDenied  BY <2>10, ExecuteDeniedPreserves
  <2>11. CASE Execute  BY <2>11, ExecutePreserves
  <2>12. CASE UNCHANGED vars
    BY <2>12, QuietPreserves DEF vars, IInv, Fields
  <2> QED
    BY <2>1, <2>2, <2>3, <2>4, <2>5, <2>6, <2>7, <2>8, <2>9, <2>10, <2>11,
       <2>12 DEF Next
<1> QED  BY <1>1, <1>2, PTL DEF Spec

\* Every field keeps its type, and bindings are cleared only within a call.
THEOREM TypeCorrect == Spec => []TypeOK
<1>1. IInv => TypeOK
  <2> SUFFICES ASSUME IInv  PROVE TypeOK
    OBVIOUS
  <2>1. \A i \in 1..Len(calls) : calls[i] \in CallRecords
    BY DEF IInv, Fields
  <2>2. \A i \in 1..Len(calls) :
           /\ calls[i].id \in 1..count /\ calls[i].todo \subseteq bound
           /\ calls[i].at \in Positions \cup {None}
           /\ i < Len(calls) => calls[i].at # None
    BY <2>1 DEF IInv, Fields, Nesting, CallRecords
  <2> QED  BY <2>2 DEF IInv, Fields, ClearedByCall, TypeOK
<1> QED  BY <1>1, Invariance, PTL

\* A query runs with the values the same call converted, never with one an
\* earlier, an outer or an inner call left behind, deferred or not
\* (php_pdo_duckdb_int.h:161).
THEOREM NoForeignValues == Spec => []ValuesOfOneCall
<1>1. IInv => ValuesOfOneCall  BY DEF IInv
<1> QED  BY <1>1, Invariance, PTL

\* A readable result is that of the call that ended last: a call that failed
\* leaves none (duckdb_statement.c:3236).
THEOREM NoStaleResult == Spec => []ResultOfLastCall
<1>1. IInv => ResultOfLastCall  BY DEF IInv
<1> QED  BY <1>1, Invariance, PTL

\* A call with every parameter bound is refused for a missing one only if the
\* statement was executed again during it, also if a remote database appears
\* while its values are converted.
THEOREM BoundCallsRun == Spec => []CompleteCallsRun
<1>1. IInv => CompleteCallsRun  BY DEF IInv
<1> QED  BY <1>1, Invariance, PTL

-----------------------------------------------------------------------------
(* The placeholders of a statement.                                         *)

\* A text's placeholders, one after the other.
PlanSpec == InitPlan /\ [][\E use \in Placements : AddToText(use)]_planVars

TypedText == uses \in Seq(Placements) /\ legacy \in BOOLEAN

AllKeys == {PdoKey(use) : use \in Placements} \cup {NativeKey(use) : use \in Placements}

Plans == [style : Styles \cup {NoSlot}, mixed : BOOLEAN, parameters : Nat,
          names : SUBSET (AllKeys \X Nat), nativeNames : SUBSET (AllKeys \X Nat),
          positions : SUBSET (Nat \X Nat), nativeCount : Nat, next : Nat,
          indices : Seq(Nat \cup {NoSlot})]

\* The larger of two numbers.
LEMMA MaxOfTwo ==
  ASSUME NEW a \in Nat, NEW b \in Nat
  PROVE  Max({a, b}) = IF a >= b THEN a ELSE b
<1>1. \E x \in {a, b} : \A y \in {a, b} : x >= y  OBVIOUS
<1>2. Max({a, b}) \in {a, b} /\ \A y \in {a, b} : Max({a, b}) >= y
  BY <1>1 DEF Max
<1> QED  BY <1>2

\* What a table has under a key.
LEMMA GetFacts ==
  ASSUME NEW table, NEW key, Has(table, key)
  PROVE  \E e \in table : e[1] = key /\ e[2] = Get(table, key)
<1>1. \E e \in table : e[1] = key  BY DEF Has
<1>2. PICK e \in table : e = (CHOOSE x \in table : x[1] = key) /\ e[1] = key
  BY <1>1
<1> QED  BY <1>2 DEF Get

\* An entry of a table of numbers is a number, under the key it was asked for.
LEMMA GetTyped ==
  ASSUME NEW K, NEW table \in SUBSET (K \X Nat), NEW key, Has(table, key)
  PROVE  Get(table, key) \in Nat /\ key \in K /\ <<key, Get(table, key)>> \in table
<1>1. PICK e \in table : e[1] = key /\ e[2] = Get(table, key)
  BY GetFacts
<1>2. e \in K \X Nat  OBVIOUS
<1>3. e = <<e[1], e[2]>> /\ e[1] \in K /\ e[2] \in Nat  BY <1>2
<1> QED  BY <1>1, <1>3

\* Put keeps the entries there are and has one for the key.
LEMMA PutTyped ==
  ASSUME NEW K, NEW table \in SUBSET (K \X Nat), NEW key \in K, NEW value \in Nat
  PROVE  /\ Put(table, key, value) \in SUBSET (K \X Nat)
         /\ Has(Put(table, key, value), key)
         /\ table \subseteq Put(table, key, value)
<1>1. CASE Has(table, key)  BY <1>1 DEF Put
<1>2. CASE ~Has(table, key)
  <2>1. Put(table, key, value) = table \cup {<<key, value>>}  BY <1>2 DEF Put
  <2>2. <<key, value>>[1] = key  OBVIOUS
  <2>3. Has(Put(table, key, value), key)  BY <2>1, <2>2 DEF Has
  <2> QED  BY <2>1, <2>3
<1> QED  BY <1>1, <1>2

\* A number or a $name has a position.
LEMMA PositionTyped ==
  ASSUME NEW p \in Plans, NEW use \in Placements, IsNative(use)
  PROVE  Position(p, use) \in Nat
<1>1. p.nativeNames \in SUBSET (AllKeys \X Nat) /\ p.next \in Nat /\ p.nativeCount \in Nat
  BY DEF Plans
<1>2. CASE Anonymous(use)
  <2>1. Position(p, use) = p.next  BY <1>2, Zenon DEF Position
  <2> QED  BY <1>1, <2>1
<1>3. CASE ~Anonymous(use) /\ Has(p.nativeNames, NativeKey(use))
  <2>1. PICK names \in SUBSET (AllKeys \X Nat) : names = p.nativeNames  BY <1>1
  <2>2. PICK key : key = NativeKey(use)  OBVIOUS
  <2>3. Get(names, key) \in Nat
    <3>1. Has(names, key)  BY <1>3, <2>1, <2>2
    <3>2. PICK K : K = AllKeys  OBVIOUS
    <3>3. names \in SUBSET (K \X Nat)  BY <3>2
    <3> QED  BY <3>1, <3>3, GetTyped, Zenon
  <2>4. Position(p, use) = Get(names, key)  BY <1>3, <2>1, <2>2, Zenon DEF Position
  <2> QED  BY <2>3, <2>4
<1>4. CASE ~Anonymous(use) /\ ~Has(p.nativeNames, NativeKey(use))
  <2>1. CASE use.style = "number"
    <3>1. use.name \in Nat /\ use.name # 0
      BY <1>4, <2>1, PlacementsAssumption DEF Anonymous
    <3>2. Position(p, use) = use.name - 1  BY <1>4, <2>1 DEF Position
    <3> QED  BY <3>1, <3>2
  <2>2. CASE use.style # "number"
    <3>1. Position(p, use) = p.nativeCount  BY <1>4, <2>2 DEF Position
    <3> QED  BY <1>1, <3>1
  <2> QED  BY <2>1, <2>2
<1> QED  BY <1>2, <1>3, <1>4

\* A placeholder ? or :name, field by field.
LEMMA PlaceholderAdded ==
  ASSUME NEW p \in Plans, NEW use \in Placements, ~IsNative(use)
  PROVE  LET q == AddPlaceholder(p, use)
             known == use.style = "named" /\ Has(p.names, PdoKey(use))
             index == IF known THEN Get(p.names, PdoKey(use)) ELSE p.parameters
         IN /\ q \in Plans
            /\ p.style \notin {NoSlot, use.style} => q.mixed
            /\ p.style \in {NoSlot, use.style} =>
                  /\ index \in Nat /\ q.style = use.style /\ q.mixed = p.mixed
                  /\ q.parameters = IF known THEN p.parameters ELSE p.parameters + 1
                  /\ q.names = IF use.style = "named" THEN Put(p.names, PdoKey(use), index)
                               ELSE p.names
                  /\ q.nativeNames = p.nativeNames /\ q.positions = p.positions
                  /\ q.nativeCount = p.nativeCount
                  /\ q.next = (IF p.next >= index + 1 THEN p.next ELSE index + 1)
                  /\ q.indices = Append(p.indices, index)
<1> DEFINE known == use.style = "named" /\ Has(p.names, PdoKey(use))
           index == IF known THEN Get(p.names, PdoKey(use)) ELSE p.parameters
           names == IF use.style = "named" THEN Put(p.names, PdoKey(use), index) ELSE p.names
           params == IF known THEN p.parameters ELSE p.parameters + 1
           next == IF p.next >= index + 1 THEN p.next ELSE index + 1
           q == AddPlaceholder(p, use)
<1>1. /\ p.names \in SUBSET (AllKeys \X Nat) /\ p.parameters \in Nat /\ p.next \in Nat
      /\ p.indices \in Seq(Nat \cup {NoSlot})
  BY DEF Plans
<1>2. use.style \in Styles /\ PdoKey(use) \in AllKeys
  BY PlacementsAssumption DEF AllKeys
<1>3. index \in Nat
  <2>1. CASE known  BY <1>1, <2>1, GetTyped
  <2>2. CASE ~known  BY <1>1, <2>2
  <2> QED  BY <2>1, <2>2
<1>4. params \in Nat  BY <1>1
<1> HIDE DEF index
<1>5. names \in SUBSET (AllKeys \X Nat)
  <2>1. Put(p.names, PdoKey(use), index) \in SUBSET (AllKeys \X Nat)
    BY <1>1, <1>2, <1>3, PutTyped
  <2> QED  BY <1>1, <2>1
<1>6. next \in Nat /\ Max({p.next, index + 1}) = next
  BY <1>1, <1>3, MaxOfTwo
<1>7. Append(p.indices, index) \in Seq(Nat \cup {NoSlot})
  <2>1. index \in Nat \cup {NoSlot}  BY <1>3
  <2> QED  BY <1>1, <2>1, AppendProperties
<1>8. CASE p.style \notin {NoSlot, use.style}
  <2> DEFINE t == TRUE
  <2>1. q = [p EXCEPT !.mixed = t]  BY <1>8, Zenon DEF AddPlaceholder
  <2>2. t \in BOOLEAN  OBVIOUS
  <2> HIDE DEF q
  <2>3. q \in Plans /\ q.mixed = t
    <3> HIDE DEF t
    <3> QED  BY <2>1, <2>2 DEF Plans
  <2> QED  BY <1>8, <2>3 DEF q
<1>9. CASE p.style \in {NoSlot, use.style}
  <2>1. q = [p EXCEPT !.style = use.style, !.parameters = params, !.names = names,
                      !.indices = Append(p.indices, index), !.next = next]
    <3>1. q = [p EXCEPT !.style = use.style, !.parameters = params, !.names = names,
                        !.indices = Append(p.indices, index),
                        !.next = Max({p.next, index + 1})]
      BY <1>9 DEF AddPlaceholder, index
    <3> HIDE DEF names, params, next
    <3> QED  BY <1>6, <3>1
  <2>2. use.style \in Styles \cup {NoSlot}  BY <1>2
  <2> HIDE DEF names, params, next, q
  <2>3. q \in Plans
    BY <1>4, <1>5, <1>6, <1>7, <2>1, <2>2 DEF Plans
  <2>4. /\ q.style = use.style /\ q.mixed = p.mixed /\ q.parameters = params
        /\ q.names = names /\ q.nativeNames = p.nativeNames /\ q.positions = p.positions
        /\ q.nativeCount = p.nativeCount /\ q.next = next
        /\ q.indices = Append(p.indices, index)
    BY <2>1 DEF Plans
  <2>5. /\ q.names = IF use.style = "named" THEN Put(p.names, PdoKey(use), index)
                     ELSE p.names
        /\ q.parameters = IF known THEN p.parameters ELSE p.parameters + 1
        /\ q.next = (IF p.next >= index + 1 THEN p.next ELSE index + 1)
    BY <2>4 DEF names, params, next
  <2> QED  BY <1>3, <1>9, <2>3, <2>4, <2>5 DEF index, q
<1> QED  BY <1>8, <1>9

\* A number or a $name, likewise.
LEMMA NativeAdded ==
  ASSUME NEW p \in Plans, NEW use \in Placements, IsNative(use)
  PROVE  LET q == AddNative(p, use)
             position == Position(p, use)
         IN /\ q \in Plans /\ position \in Nat
            /\ q.style = p.style /\ q.mixed = p.mixed /\ q.parameters = p.parameters
            /\ q.names = p.names
            /\ Anonymous(use) /\ ~legacy =>
                  /\ q.indices = Append(p.indices, NoSlot) /\ q.positions = p.positions
                  /\ q.nativeCount = p.nativeCount /\ q.nativeNames = p.nativeNames
                  /\ q.next = p.next
            /\ ~(Anonymous(use) /\ ~legacy) =>
                  /\ q.nativeCount = IF Has(p.positions, position) THEN p.nativeCount
                                     ELSE p.nativeCount + 1
                  /\ q.nativeNames = IF Anonymous(use) THEN p.nativeNames
                                     ELSE Put(p.nativeNames, NativeKey(use), position)
                  /\ q.positions = Put(p.positions, position, p.nativeCount)
                  /\ q.next = (IF p.next >= position + 1 THEN p.next ELSE position + 1)
                  /\ q.indices = Append(p.indices, position)
<1> DEFINE position == Position(p, use)
           names == IF Anonymous(use) THEN p.nativeNames
                    ELSE Put(p.nativeNames, NativeKey(use), position)
           counted == IF Has(p.positions, position) THEN p.nativeCount
                    ELSE p.nativeCount + 1
           positions == Put(p.positions, position, p.nativeCount)
           next == IF p.next >= position + 1 THEN p.next ELSE position + 1
           q == AddNative(p, use)
<1>1. /\ p.nativeNames \in SUBSET (AllKeys \X Nat) /\ p.nativeCount \in Nat
      /\ p.positions \in SUBSET (Nat \X Nat) /\ p.next \in Nat
      /\ p.indices \in Seq(Nat \cup {NoSlot})
  BY DEF Plans
<1>2. NativeKey(use) \in AllKeys  BY DEF AllKeys
<1>3. position \in Nat  BY PositionTyped
<1> HIDE DEF position
<1>4. counted \in Nat  BY <1>1
<1>5. names \in SUBSET (AllKeys \X Nat)
  <2>1. Put(p.nativeNames, NativeKey(use), position) \in SUBSET (AllKeys \X Nat)
    BY <1>1, <1>2, <1>3, PutTyped
  <2> QED  BY <1>1, <2>1
<1>6. positions \in SUBSET (Nat \X Nat)
  <2> DEFINE K == Nat
  <2>1. p.positions \in SUBSET (K \X Nat) /\ position \in K  BY <1>1, <1>3
  <2> HIDE DEF K
  <2>2. positions \in SUBSET (K \X Nat)  BY <1>1, <2>1, PutTyped
  <2> QED  BY <2>2 DEF K
<1>7. next \in Nat /\ Max({p.next, position + 1}) = next
  BY <1>1, <1>3, MaxOfTwo
<1>8. /\ Append(p.indices, position) \in Seq(Nat \cup {NoSlot})
      /\ Append(p.indices, NoSlot) \in Seq(Nat \cup {NoSlot})
  <2>1. position \in Nat \cup {NoSlot} /\ NoSlot \in Nat \cup {NoSlot}  BY <1>3
  <2> QED  BY <1>1, <2>1, AppendProperties
<1>9. CASE Anonymous(use) /\ ~legacy
  <2>1. q = [p EXCEPT !.indices = Append(p.indices, NoSlot)]
    BY <1>9 DEF AddNative
  <2> HIDE DEF q
  <2>2. /\ q \in Plans /\ q.style = p.style /\ q.mixed = p.mixed
        /\ q.parameters = p.parameters /\ q.names = p.names
        /\ q.indices = Append(p.indices, NoSlot) /\ q.positions = p.positions
        /\ q.nativeCount = p.nativeCount /\ q.nativeNames = p.nativeNames
        /\ q.next = p.next
    BY <1>8, <2>1 DEF Plans
  <2> QED  BY <1>3, <1>9, <2>2 DEF q, position
<1>10. CASE ~(Anonymous(use) /\ ~legacy)
  <2>1. q = [p EXCEPT !.nativeCount = counted, !.nativeNames = names,
                      !.positions = positions, !.next = next,
                      !.indices = Append(p.indices, position)]
    <3>1. q = [p EXCEPT !.nativeCount = counted, !.nativeNames = names,
                        !.positions = positions,
                        !.next = Max({p.next, position + 1}),
                        !.indices = Append(p.indices, position)]
      BY <1>10 DEF AddNative, position
    <3> HIDE DEF names, counted, positions, next
    <3> QED  BY <1>7, <3>1
  <2> HIDE DEF names, counted, positions, next, q
  <2>2. q \in Plans
    BY <1>4, <1>5, <1>6, <1>7, <1>8, <2>1 DEF Plans
  <2>3. /\ q.style = p.style /\ q.mixed = p.mixed /\ q.parameters = p.parameters
        /\ q.names = p.names /\ q.nativeCount = counted /\ q.nativeNames = names
        /\ q.positions = positions /\ q.next = next
        /\ q.indices = Append(p.indices, position)
    BY <2>1 DEF Plans
  <2>4. /\ q.nativeNames = IF Anonymous(use) THEN p.nativeNames
                           ELSE Put(p.nativeNames, NativeKey(use), position)
        /\ q.nativeCount = IF Has(p.positions, position) THEN p.nativeCount
                           ELSE p.nativeCount + 1
        /\ q.positions = Put(p.positions, position, p.nativeCount)
        /\ q.next = (IF p.next >= position + 1 THEN p.next ELSE position + 1)
    BY <2>3 DEF names, counted, positions, next
  <2> QED  BY <1>3, <1>10, <2>2, <2>3, <2>4 DEF position, q
<1> QED  BY <1>9, <1>10

\* A placeholder makes a plan of a plan.
LEMMA AddUseTyped ==
  ASSUME NEW p \in Plans, NEW use \in Placements
  PROVE  AddUse(p, use) \in Plans
<1>1. CASE p.mixed  BY <1>1 DEF AddUse
<1>2. CASE ~p.mixed /\ IsNative(use)
  <2>1. AddNative(p, use) \in Plans  BY <1>2, NativeAdded
  <2> QED  BY <1>2, <2>1 DEF AddUse
<1>3. CASE ~p.mixed /\ ~IsNative(use)
  <2>1. AddPlaceholder(p, use) \in Plans  BY <1>3, PlaceholderAdded
  <2> QED  BY <1>3, <2>1 DEF AddUse
<1> QED  BY <1>1, <1>2, <1>3

\* So does the beginning of a text.
LEMMA EmptyPlanTyped == EmptyPlan \in Plans
<1>1. <<>> \in Seq(Nat \cup {NoSlot})  OBVIOUS
<1> QED  BY <1>1 DEF EmptyPlan, Plans

\* The plan after each placeholder is what Reading says.
LEMMA ReadingFacts ==
  ASSUME TypedText
  PROVE  /\ Reading \in [0..Len(uses) -> Plans] /\ Reading[0] = EmptyPlan
         /\ \A i \in 1..Len(uses) : Reading[i] = AddUse(Reading[i - 1], uses[i])
<1> DEFINE n == Len(uses)
           step == [i \in 1..n |-> [p \in Plans |-> AddUse(p, uses[i])]]
           P(f) == f = [i \in 0..Len(uses) |->
                          IF i = 0 THEN EmptyPlan ELSE AddUse(f[i - 1], uses[i])]
<1>1. n \in Nat  BY DEF TypedText
<1>2. ASSUME NEW i \in 1..n, NEW p \in Plans
      PROVE  step[i][p] = AddUse(p, uses[i]) /\ AddUse(p, uses[i]) \in Plans
  <2>1. uses[i] \in Placements  BY ElementOfSeq DEF TypedText
  <2> QED  BY <2>1, AddUseTyped
<1>3. step \in [1..n -> [Plans -> Plans]]
  <2>1. ASSUME NEW i \in 1..n  PROVE [p \in Plans |-> AddUse(p, uses[i])] \in [Plans -> Plans]
    <3> HIDE DEF n, step
    <3>1. \A p \in Plans : AddUse(p, uses[i]) \in Plans  BY <1>2
    <3> QED  BY <3>1
  <2> QED  BY <2>1
<1>4. PICK f \in [0..n -> Plans] :
         f[0] = EmptyPlan /\ \A i \in 1..n : f[i] = step[i][f[i - 1]]
  <2>1. Iterates(n, Plans, EmptyPlan, step)
    <3> HIDE DEF step, n
    <3> QED  BY <1>1, <1>3, EmptyPlanTyped DEF Iterates
  <2> HIDE DEF step, n
  <2> QED  BY <2>1, Iteration
<1>5. P(f)
  <2>1. ASSUME NEW i \in 0..n
        PROVE  f[i] = IF i = 0 THEN EmptyPlan ELSE AddUse(f[i - 1], uses[i])
    <3>1. CASE i = 0  BY <1>4, <3>1
    <3>2. CASE i # 0
      <4>1. i \in 1..n /\ i - 1 \in 0..n  BY <1>1, <3>2
      <4>2. f[i - 1] \in Plans  BY <4>1
      <4> HIDE DEF step, n
      <4>3. f[i] = step[i][f[i - 1]]  BY <1>4, <4>1
      <4> QED  BY <1>2, <3>2, <4>1, <4>2, <4>3
    <3> QED  BY <3>1, <3>2
  <2>2. f = [i \in 0..n |-> f[i]]
    <3> HIDE DEF step, n
    <3> QED  BY <1>4
  <2> HIDE DEF step
  <2> QED  BY <2>1, <2>2
<1> DEFINE g == CHOOSE h : P(h)
<1>6. P(g)  BY <1>5, Zenon
<1>7. Reading = g  BY Zenon DEF Reading
<1> HIDE DEF g
<1>8. \A i \in 0..n : g[i] = IF i = 0 THEN EmptyPlan ELSE AddUse(g[i - 1], uses[i])
  BY <1>6
<1>9. g = [i \in 0..n |-> g[i]]  BY <1>6
<1> HIDE DEF P, step
<1> DEFINE T == {k \in Nat : k <= n => g[k] \in Plans}
<1>10. 0 \in T  BY <1>1, <1>8, EmptyPlanTyped
<1>11. ASSUME NEW k \in Nat, k \in T  PROVE k + 1 \in T
  <2> SUFFICES ASSUME k + 1 <= n  PROVE g[k + 1] \in Plans
    OBVIOUS
  <2> DEFINE j == k + 1
  <2>1. j \in 1..n /\ j \in 0..n /\ j # 0 /\ j - 1 = k /\ k <= n  BY <1>1
  <2>2. g[k] \in Plans  BY <1>11, <2>1
  <2>3. uses[j] \in Placements  BY <2>1, ElementOfSeq DEF TypedText
  <2> HIDE DEF j, n
  <2>4. g[j] = AddUse(g[k], uses[j])  BY <1>8, <2>1
  <2>5. g[j] \in Plans  BY <2>2, <2>3, <2>4, AddUseTyped
  <2> QED  BY <2>5 DEF j
<1>12. \A k \in Nat : k \in T
  <2> HIDE DEF T
  <2> QED  BY <1>10, <1>11, Induction
<1>13. \A i \in 0..n : g[i] \in Plans  BY <1>1, <1>12
<1>14. g \in [0..n -> Plans]
  <2> HIDE DEF n, T
  <2> QED  BY <1>9, <1>13
<1>15. g[0] = EmptyPlan /\ \A i \in 1..n : g[i] = AddUse(g[i - 1], uses[i])
  <2>1. 0 \in 0..n /\ \A i \in 1..n : i \in 0..n /\ i # 0  BY <1>1
  <2> HIDE DEF n, T
  <2> QED  BY <1>8, <2>1
<1> QED  BY <1>7, <1>14, <1>15

\* Distinct keys.
Keyed(table) == \A e, f \in table : e[1] = f[1] => e = f

\* The tables that give their keys the numbers from 0 on.
Numberings == {t \in SUBSET (Nat \X Nat) :
                  /\ IsFiniteSet(t) /\ Keyed(t)
                  /\ {e[2] : e \in t} = 0..Cardinality(t) - 1}

\* What a table with distinct keys has under the key of an entry is its value.
LEMMA GetOfEntry ==
  ASSUME NEW table, Keyed(table), NEW e \in table
  PROVE  Has(table, e[1]) /\ Get(table, e[1]) = e[2]
<1>1. Has(table, e[1])  BY DEF Has
<1>2. PICK f \in table : f[1] = e[1] /\ f[2] = Get(table, e[1])
  BY <1>1, GetFacts
<1>3. e = f  BY <1>2 DEF Keyed
<1> QED  BY <1>1, <1>2, <1>3

\* Put keeps keys distinct and adds at most the entry it is given.
LEMMA PutKeyed ==
  ASSUME NEW table, Keyed(table), NEW key, NEW value
  PROVE  /\ Keyed(Put(table, key, value))
         /\ Has(Put(table, key, value), key)
         /\ \A e \in Put(table, key, value) : e \in table \/ e = <<key, value>>
<1>1. CASE Has(table, key)  BY <1>1 DEF Put
<1>2. CASE ~Has(table, key)
  <2>1. Put(table, key, value) = table \cup {<<key, value>>}  BY <1>2 DEF Put
  <2>2. <<key, value>>[1] = key  OBVIOUS
  <2>3. \A e \in table : e[1] # key  BY <1>2 DEF Has
  <2>4. Keyed(Put(table, key, value))
    <3> SUFFICES ASSUME NEW e \in table \cup {<<key, value>>},
                        NEW f \in table \cup {<<key, value>>}, e[1] = f[1]
                 PROVE  e = f
      BY <2>1 DEF Keyed
    <3>1. CASE e \in table /\ f \in table  BY <3>1 DEF Keyed
    <3>2. CASE e \in table /\ f = <<key, value>>  BY <2>2, <2>3, <3>2
    <3>3. CASE e = <<key, value>> /\ f \in table  BY <2>2, <2>3, <3>3
    <3>4. CASE e = <<key, value>> /\ f = <<key, value>>  BY <3>4
    <3> QED  BY <3>1, <3>2, <3>3, <3>4
  <2>5. Has(Put(table, key, value), key)  BY <2>1, <2>2 DEF Has
  <2> QED  BY <2>1, <2>4, <2>5
<1> QED  BY <1>1, <1>2

\* A new key gets the next number.
LEMMA PutNumbering ==
  ASSUME NEW t \in Numberings, NEW key \in Nat
  PROVE  /\ Cardinality(t) \in Nat
         /\ Put(t, key, Cardinality(t)) \in Numberings
         /\ Cardinality(Put(t, key, Cardinality(t)))
               = IF Has(t, key) THEN Cardinality(t) ELSE Cardinality(t) + 1
<1> DEFINE c == Cardinality(t)
           e == <<key, c>>
<1>1. /\ t \in SUBSET (Nat \X Nat) /\ IsFiniteSet(t) /\ Keyed(t)
      /\ {f[2] : f \in t} = 0..c - 1
  BY DEF Numberings
<1>2. c \in Nat  BY <1>1, FS_CardinalityType
<1>3. CASE Has(t, key)
  <2>1. Put(t, key, c) = t  BY <1>3 DEF Put
  <2> QED  BY <1>2, <1>3, <2>1
<1>4. CASE ~Has(t, key)
  <2>1. Put(t, key, c) = t \cup {e}  BY <1>4 DEF Put
  <2>2. e \notin t  BY <1>4 DEF Has
  <2>3. IsFiniteSet(t \cup {e}) /\ Cardinality(t \cup {e}) = c + 1
    <3> HIDE DEF e
    <3> QED  BY <1>1, <2>2, FS_AddElement
  <2>4. Keyed(t \cup {e})
    <3>1. Keyed(Put(t, key, c))  BY <1>1, PutKeyed
    <3> QED  BY <2>1, <3>1
  <2>5. e \in Nat \X Nat /\ e[2] = c  BY <1>2
  <2> HIDE DEF e
  <2>6. {f[2] : f \in t \cup {e}} = {f[2] : f \in t} \cup {c}  BY <2>5
  <2> HIDE DEF c
  <2>7. (0..c - 1) \cup {c} = 0..(c + 1) - 1  BY <1>2
  <2>8. t \cup {e} \in Numberings
    BY <1>1, <2>3, <2>4, <2>5, <2>6, <2>7 DEF Numberings
  <2> QED  BY <1>2, <1>4, <2>1, <2>3, <2>8 DEF c
<1> QED  BY <1>3, <1>4

\* The empty table numbers no keys.
LEMMA NoEntries == {} \in Numberings /\ Cardinality({}) = 0
<1>1. IsFiniteSet({}) /\ Cardinality({}) = 0  BY FS_EmptySet
<1>2. {e[2] : e \in {}} = {} /\ 0..0 - 1 = {}  OBVIOUS
<1> QED  BY <1>1, <1>2 DEF Numberings, Keyed

\* PDO's parameters take the first slots.
LEMMA FirstSlots ==
  ASSUME NEW m \in Nat
  PROVE  /\ {<<k, k>> : k \in 0..m - 1} \in Numberings
         /\ Cardinality({<<k, k>> : k \in 0..m - 1}) = m
<1> DEFINE F(x) == {<<k, k>> : k \in 0..x - 1}
           T == {x \in Nat : F(x) \in Numberings /\ Cardinality(F(x)) = x}
<1>1. 0 \in T
  <2>1. F(0) = {}  OBVIOUS
  <2> HIDE DEF F
  <2> QED  BY <2>1, NoEntries
<1>2. ASSUME NEW x \in Nat, x \in T  PROVE x + 1 \in T
  <2>1. F(x + 1) = F(x) \cup {<<x, x>>}
    <3>1. 0..(x + 1) - 1 = (0..x - 1) \cup {x}  OBVIOUS
    <3> QED  BY <3>1
  <2>2. ~Has(F(x), x)
    <3> SUFFICES ASSUME NEW k \in 0..x - 1, <<k, k>>[1] = x  PROVE FALSE
      BY DEF Has
    <3> QED  OBVIOUS
  <2> HIDE DEF F
  <2>3. Put(F(x), x, Cardinality(F(x))) = F(x + 1)  BY <1>2, <2>1, <2>2 DEF Put
  <2>4. F(x) \in Numberings /\ Cardinality(F(x)) = x  BY <1>2
  <2>5. F(x + 1) \in Numberings /\ Cardinality(F(x + 1)) = x + 1
    BY <2>2, <2>3, <2>4, PutNumbering
  <2> QED  BY <2>5
<1>3. \A x \in Nat : x \in T
  <2> HIDE DEF T
  <2> QED  BY <1>1, <1>2, Induction
<1>4. m \in T  BY <1>3
<1> QED  BY <1>4

\* Slots that keep all keys of the table: the numbers of a text added to PDO's.
LEMMA NumberedFacts ==
  ASSUME TypedText, NEW p \in Plans, Len(p.indices) = Len(uses)
  PROVE  /\ Numbered(p, uses) \in [0..Len(uses) -> Numberings]
         /\ Numbered(p, uses)[0] = {<<k, k>> : k \in 0..p.parameters - 1}
         /\ \A i \in 1..Len(uses) :
               Numbered(p, uses)[i] =
                  IF uses[i].style = "number" /\ p.indices[i] # NoSlot
                  THEN Put(Numbered(p, uses)[i - 1], p.indices[i],
                           Cardinality(Numbered(p, uses)[i - 1]))
                  ELSE Numbered(p, uses)[i - 1]
<1> DEFINE n == Len(uses)
           first == {<<k, k>> : k \in 0..p.parameters - 1}
           Value(t, i) == IF uses[i].style = "number" /\ p.indices[i] # NoSlot
                          THEN Put(t, p.indices[i], Cardinality(t)) ELSE t
           step == [i \in 1..n |-> [t \in Numberings |-> Value(t, i)]]
           P(f) == f = [i \in 0..Len(uses) |->
                          IF i = 0 THEN {<<k, k>> : k \in 0..p.parameters - 1}
                          ELSE IF uses[i].style = "number" /\ p.indices[i] # NoSlot
                          THEN Put(f[i - 1], p.indices[i], Cardinality(f[i - 1]))
                          ELSE f[i - 1]]
<1>1. n \in Nat  BY DEF TypedText
<1>2. ASSUME NEW i \in 1..n, NEW t \in Numberings
      PROVE  Value(t, i) \in Numberings
  <2>1. p.indices[i] \in Nat \cup {NoSlot}
    <3>1. p.indices \in Seq(Nat \cup {NoSlot}) /\ i \in 1..Len(p.indices)
      BY DEF Plans
    <3> QED  BY <3>1, ElementOfSeq
  <2> QED  BY <2>1, PutNumbering
<1>3. step \in [1..n -> [Numberings -> Numberings]]
  <2>1. ASSUME NEW i \in 1..n
        PROVE  [t \in Numberings |-> Value(t, i)] \in [Numberings -> Numberings]
    <3> HIDE DEF n, step, Value
    <3>1. \A t \in Numberings : Value(t, i) \in Numberings  BY <1>2
    <3> QED  BY <3>1
  <2> HIDE DEF Value
  <2> QED  BY <2>1
<1>4. PICK f \in [0..n -> Numberings] :
         f[0] = first /\ \A i \in 1..n : f[i] = step[i][f[i - 1]]
  <2>1. first \in Numberings
    <3>1. p.parameters \in Nat  BY DEF Plans
    <3> QED  BY <3>1, FirstSlots
  <2>2. Iterates(n, Numberings, first, step)
    <3> HIDE DEF step, n, first
    <3> QED  BY <1>1, <1>3, <2>1 DEF Iterates
  <2> HIDE DEF step, n, first
  <2> QED  BY <2>2, Iteration
<1>5. P(f)
  <2>1. ASSUME NEW i \in 0..n
        PROVE  f[i] = IF i = 0 THEN first ELSE Value(f[i - 1], i)
    <3>1. CASE i = 0  BY <1>4, <3>1
    <3>2. CASE i # 0
      <4>1. i \in 1..n /\ i - 1 \in 0..n  BY <1>1, <3>2
      <4>2. f[i - 1] \in Numberings  BY <4>1
      <4> HIDE DEF n, Value
      <4>3. f[i] = step[i][f[i - 1]]  BY <1>4, <4>1
      <4> QED  BY <3>2, <4>1, <4>2, <4>3
    <3> QED  BY <3>1, <3>2
  <2>2. f = [i \in 0..n |-> f[i]]
    <3> HIDE DEF step, n
    <3> QED  BY <1>4
  <2> HIDE DEF step
  <2> QED  BY <2>1, <2>2
<1> DEFINE g == CHOOSE h : P(h)
<1>6. P(g)  BY <1>5, Zenon
<1>7. Numbered(p, uses) = g  BY Zenon DEF Numbered
<1> HIDE DEF g
<1>8. \A i \in 0..n : g[i] = IF i = 0 THEN first ELSE Value(g[i - 1], i)
  BY <1>6
<1>9. g = [i \in 0..n |-> g[i]]  BY <1>6
<1> HIDE DEF P, step
<1> DEFINE T == {k \in Nat : k <= n => g[k] \in Numberings}
<1>10. 0 \in T
  <2>1. first \in Numberings
    <3>1. p.parameters \in Nat  BY DEF Plans
    <3> QED  BY <3>1, FirstSlots
  <2> HIDE DEF first, Value
  <2> QED  BY <1>1, <1>8, <2>1
<1>11. ASSUME NEW k \in Nat, k \in T  PROVE k + 1 \in T
  <2> SUFFICES ASSUME k + 1 <= n  PROVE g[k + 1] \in Numberings
    OBVIOUS
  <2> DEFINE j == k + 1
  <2>1. j \in 1..n /\ j \in 0..n /\ j # 0 /\ j - 1 = k /\ k <= n  BY <1>1
  <2>2. g[k] \in Numberings  BY <1>11, <2>1
  <2> HIDE DEF j, n, first, Value
  <2>4. g[j] = Value(g[k], j)  BY <1>8, <2>1
  <2>5. g[j] \in Numberings  BY <1>2, <2>1, <2>2, <2>4
  <2> QED  BY <2>5 DEF j
<1>12. \A k \in Nat : k \in T
  <2> HIDE DEF T
  <2> QED  BY <1>10, <1>11, Induction
<1>13. \A i \in 0..n : g[i] \in Numberings  BY <1>1, <1>12
<1>14. g \in [0..n -> Numberings]
  <2> HIDE DEF n, T
  <2> QED  BY <1>9, <1>13
<1>15. g[0] = first /\ \A i \in 1..n : g[i] = Value(g[i - 1], i)
  <2>1. 0 \in 0..n /\ \A i \in 1..n : i \in 0..n /\ i # 0  BY <1>1
  <2> HIDE DEF n, T, Value, first
  <2> QED  BY <1>8, <2>1
<1> HIDE DEF g, T
<1> QED  BY <1>7, <1>14, <1>15

-----------------------------------------------------------------------------
(* A plan p, not mixed, after the first i placeholders of the text.         *)

\* Each of the placeholders has an index, which the tables know.
Indexed(p, i) ==
    /\ Len(p.indices) = i
    /\ \A j \in 1..i :
          IF IsNative(uses[j])
          THEN IF Anonymous(uses[j]) /\ ~legacy THEN p.indices[j] = NoSlot
               ELSE p.indices[j] \in Nat /\ Has(p.positions, p.indices[j])
          ELSE p.indices[j] \in 0..p.parameters - 1
    /\ \A k \in 0..p.parameters - 1 :
          \E j \in 1..i : ~IsNative(uses[j]) /\ p.indices[j] = k

\* The positions are those of the numbers and the $names, counted.
PositionsKept(p, i) ==
    /\ p.positions \in Numberings /\ Cardinality(p.positions) = p.nativeCount
    /\ \A e \in p.positions :
          \E j \in 1..i : IsNative(uses[j]) /\ p.indices[j] = e[1]

\* The names are those of the text, and equal indices are equal names.
NamesKept(p, i) ==
    /\ Keyed(p.names)
    /\ \A e \in p.names :
          \E j \in 1..i : uses[j].style = "named" /\ e = <<PdoKey(uses[j]), p.indices[j]>>
    /\ \A j \in 1..i : uses[j].style = "named" =>
          <<PdoKey(uses[j]), p.indices[j]>> \in p.names
    /\ \A j, k \in 1..i : ~IsNative(uses[j]) /\ ~IsNative(uses[k]) =>
          (p.indices[j] = p.indices[k] <=>
              \/ j = k
              \/ uses[j].style = "named" /\ PdoKey(uses[j]) = PdoKey(uses[k]))

\* Every ? and :name is of the plan's style.
OneStyle(p, i) == \A j \in 1..i : ~IsNative(uses[j]) => uses[j].style = p.style

Given(j) == ~(Anonymous(uses[j]) /\ ~legacy)

\* An index is the one after the largest before.
NextFree(indices, j) ==
    /\ indices[j] \in Nat
    /\ \A k \in 1..j - 1 : Given(k) => indices[k] \in Nat /\ indices[k] < indices[j]
    /\ indices[j] = 0 \/ \E k \in 1..j - 1 : Given(k) /\ indices[j] = indices[k] + 1

NextKept(p, i) ==
    /\ \A j \in 1..i : Given(j) => p.indices[j] \in Nat /\ p.indices[j] < p.next
    /\ p.next = 0 \/ \E j \in 1..i : Given(j) /\ p.next = p.indices[j] + 1
    /\ \A j \in 1..i : Anonymous(uses[j]) /\ Given(j) => NextFree(p.indices, j)

\* A number has the position it says.
NumbersKept(p, i) ==
    /\ Keyed(p.nativeNames)
    /\ \A e \in p.nativeNames :
          \E j \in 1..i : /\ IsNative(uses[j]) /\ ~Anonymous(uses[j])
                          /\ e = <<NativeKey(uses[j]), p.indices[j]>>
    /\ \A j \in 1..i : IsNative(uses[j]) /\ ~Anonymous(uses[j]) =>
          <<NativeKey(uses[j]), p.indices[j]>> \in p.nativeNames
    /\ \A j \in 1..i : uses[j].style = "number" /\ uses[j].name # 0 =>
          p.indices[j] = uses[j].name - 1

\* While there are $names only, a new one has the next position.
DollarsKept(p, i) ==
    (\A j \in 1..i : uses[j].style = "dollar") =>
        /\ {e[1] : e \in p.positions} = 0..p.nativeCount - 1
        /\ \A j \in 1..i :
              (\A k \in 1..j - 1 : uses[k].name # uses[j].name) => NextFree(p.indices, j)

Kept(p, i) ==
    /\ Indexed(p, i) /\ PositionsKept(p, i) /\ NamesKept(p, i) /\ OneStyle(p, i)
    /\ NextKept(p, i) /\ NumbersKept(p, i) /\ DollarsKept(p, i)


\* One more index, x, after those of a.
Grown(a, b, x, i) == /\ Len(b) = i /\ b[i] = x
                     /\ \A j \in 1..i - 1 : b[j] = a[j]

\* The placeholders up to i are i and those before.
UpTo(i) ==
    /\ i \in Nat /\ i - 1 \in Nat /\ i \in 1..i
    /\ \A j \in 1..i : j = i \/ j \in 1..i - 1
    /\ \A j \in 1..i - 1 : j \in 1..i /\ j # i
    /\ \A j \in 1..i : uses[j] \in Placements

LEMMA UsesUpTo ==
  ASSUME TypedText, NEW i \in 1..Len(uses)
  PROVE  UpTo(i)
<1>1. Len(uses) \in Nat /\ i \in Nat /\ i - 1 \in Nat  BY DEF TypedText
<1>2. \A j \in 1..i : uses[j] \in Placements
  <2> SUFFICES ASSUME NEW j \in 1..i  PROVE uses[j] \in Placements
    OBVIOUS
  <2>1. j \in 1..Len(uses)  BY <1>1
  <2> QED  BY <2>1, ElementOfSeq DEF TypedText
<1>3. /\ i \in 1..i /\ \A j \in 1..i : j = i \/ j \in 1..i - 1
      /\ \A j \in 1..i - 1 : j \in 1..i /\ j # i
  BY <1>1
<1> QED  BY <1>1, <1>2, <1>3 DEF UpTo

LEMMA IndexAppended ==
  ASSUME NEW p \in Plans, NEW i \in Nat, Len(p.indices) = i - 1, NEW x
  PROVE  Grown(p.indices, Append(p.indices, x), x, i)
<1>1. p.indices \in Seq(Nat \cup {NoSlot})  BY DEF Plans
<1> DEFINE b == Append(p.indices, x)
<1>2. Len(b) = i /\ b[i] = x /\ \A j \in 1..i - 1 : b[j] = p.indices[j]
  BY <1>1
<1> QED  BY <1>2 DEF Grown

\* The placeholders by their style.
LEMMA NativeOrNot ==
  ASSUME NEW use \in Placements
  PROVE  /\ use.style = "named" \/ use.style = "positional" => ~IsNative(use)
         /\ ~IsNative(use) => use.style = "named" \/ use.style = "positional"
         /\ Anonymous(use) => IsNative(use)
         /\ use.style = "dollar" => IsNative(use) /\ ~Anonymous(use)
         /\ use.style = "number" => IsNative(use) /\ use.name \in Nat
  BY PlacementsAssumption DEF IsNative, Anonymous, Styles

\* A ? or a :name keeps a plan as it should be, unless it mixes the two.
LEMMA PlaceholderKept ==
  ASSUME TypedText, NEW i \in 1..Len(uses), NEW p \in Plans, ~p.mixed, Kept(p, i - 1),
         ~IsNative(uses[i]), ~AddPlaceholder(p, uses[i]).mixed
  PROVE  Kept(AddPlaceholder(p, uses[i]), i)
<1> DEFINE use == uses[i]
           q == AddPlaceholder(p, use)
           known == use.style = "named" /\ Has(p.names, PdoKey(use))
           x == IF known THEN Get(p.names, PdoKey(use)) ELSE p.parameters
           a == p.indices
           b == q.indices
<1>0. Len(a) = i - 1  BY DEF Kept, Indexed
<1>1. use \in Placements /\ UpTo(i)
  <2>1. UpTo(i)  BY UsesUpTo
  <2> QED  BY <2>1 DEF UpTo
<1>2. /\ p.style \in {NoSlot, use.style}
      /\ x \in Nat /\ q.style = use.style
      /\ q.parameters = IF known THEN p.parameters ELSE p.parameters + 1
      /\ q.names = IF use.style = "named" THEN Put(p.names, PdoKey(use), x) ELSE p.names
      /\ q.nativeNames = p.nativeNames /\ q.positions = p.positions
      /\ q.nativeCount = p.nativeCount
      /\ q.next = (IF p.next >= x + 1 THEN p.next ELSE x + 1)
      /\ b = Append(a, x)
  BY <1>1, PlaceholderAdded
<1>3. /\ Len(b) = i /\ b[i] = x /\ \A j \in 1..i - 1 : b[j] = a[j]
      /\ i \in Nat /\ i - 1 \in Nat
      /\ \A j \in 1..i : j = i \/ j \in 1..i - 1
      /\ \A j \in 1..i - 1 : j \in 1..i /\ j # i
      /\ i \in 1..i
      /\ \A j \in 1..i : uses[j] \in Placements
  <2> DEFINE c == b
  <2>0. PICK z : z = x  OBVIOUS
  <2>1. c = Append(a, z) /\ i \in Nat  BY <1>1, <1>2, <2>0 DEF UpTo
  <2>2. Grown(a, Append(a, z), z, i)  BY <1>0, <2>1, IndexAppended
  <2> HIDE DEF c, x
  <2>3. /\ Len(c) = i /\ c[i] = z /\ \A j \in 1..i - 1 : c[j] = a[j]
    <3> HIDE DEF a
    <3> QED  BY <2>1, <2>2 DEF Grown
  <2>4. /\ i \in Nat /\ i - 1 \in Nat
        /\ \A j \in 1..i : j = i \/ j \in 1..i - 1
        /\ \A j \in 1..i - 1 : j \in 1..i /\ j # i
        /\ i \in 1..i
        /\ \A j \in 1..i : uses[j] \in Placements
    BY <1>1 DEF UpTo
  <2> QED  BY <2>0, <2>3, <2>4 DEF c
<1>4. /\ p.parameters \in Nat /\ p.next \in Nat /\ p.nativeCount \in Nat
      /\ p.names \in SUBSET (AllKeys \X Nat)
  BY DEF Plans
<1>5. ~IsNative(use) /\ ~Anonymous(use) /\ Given(i)
  BY <1>1, NativeOrNot DEF Given
<1> HIDE DEF q
\* What is known of a name is the index of an earlier placeholder.
<1>6. known => \E j \in 1..i - 1 : /\ uses[j].style = "named" /\ a[j] = x
                                   /\ PdoKey(uses[j]) = PdoKey(use)
  <2> SUFFICES ASSUME known
               PROVE  \E j \in 1..i - 1 : /\ uses[j].style = "named" /\ a[j] = x
                                          /\ PdoKey(uses[j]) = PdoKey(use)
    OBVIOUS
  <2>1. PICK e \in p.names : e[1] = PdoKey(use) /\ e[2] = x
    BY GetFacts
  <2>2. PICK j \in 1..i - 1 : uses[j].style = "named" /\ e = <<PdoKey(uses[j]), a[j]>>
    BY <2>1 DEF Kept, NamesKept
  <2>3. e[1] = PdoKey(uses[j]) /\ e[2] = a[j]  BY <2>2
  <2> QED  BY <2>1, <2>2, <2>3
<1>7. /\ \A j \in 1..i - 1 : ~IsNative(uses[j]) => a[j] \in 0..p.parameters - 1
      /\ \A j \in 1..i - 1 : IsNative(uses[j]) =>
            IF Anonymous(uses[j]) /\ ~legacy THEN a[j] = NoSlot
            ELSE a[j] \in Nat /\ Has(p.positions, a[j])
      /\ \A k \in 0..p.parameters - 1 :
            \E j \in 1..i - 1 : ~IsNative(uses[j]) /\ a[j] = k
  BY DEF Kept, Indexed
<1>8. x \in 0..q.parameters - 1
  <2>1. CASE known
    <3>1. PICK j \in 1..i - 1 : uses[j].style = "named" /\ a[j] = x
      BY <1>6, <2>1
    <3>2. ~IsNative(uses[j])  BY <1>3, <3>1, NativeOrNot
    <3> QED  BY <1>2, <1>7, <2>1, <3>1, <3>2
  <2>2. CASE ~known  BY <1>2, <1>4, <2>2
  <2> QED  BY <2>1, <2>2
<1>9. q.parameters \in Nat /\ p.parameters <= q.parameters  BY SMTT(30), <1>2, <1>4
<1>10. ~known => x = p.parameters  OBVIOUS
<1> HIDE DEF x, a, b
<1>11. Indexed(q, i)
  <2>1. ASSUME NEW j \in 1..i
        PROVE  IF IsNative(uses[j])
               THEN IF Anonymous(uses[j]) /\ ~legacy THEN b[j] = NoSlot
                    ELSE b[j] \in Nat /\ Has(q.positions, b[j])
               ELSE b[j] \in 0..q.parameters - 1
    <3>1. CASE j = i  BY <1>3, <1>5, <1>8, <3>1
    <3>2. CASE j \in 1..i - 1 /\ IsNative(uses[j])  BY <1>2, <1>3, <1>7, <3>2
    <3>3. CASE j \in 1..i - 1 /\ ~IsNative(uses[j])
      <4>1. b[j] = a[j] /\ a[j] \in 0..p.parameters - 1  BY <1>3, <1>7, <3>3
      <4> HIDE DEF known
      <4> QED  BY <1>4, <1>9, <3>3, <4>1
    <3> QED  BY <1>3, <3>1, <3>2, <3>3
  <2>2. ASSUME NEW k \in 0..q.parameters - 1
        PROVE  \E j \in 1..i : ~IsNative(uses[j]) /\ b[j] = k
    <3>1. CASE k \in 0..p.parameters - 1
      <4>1. PICK j \in 1..i - 1 : ~IsNative(uses[j]) /\ a[j] = k  BY <1>7, <3>1
      <4> QED  BY <1>3, <4>1
    <3>2. CASE k \notin 0..p.parameters - 1
      <4>1. ~known /\ k = p.parameters  BY <1>2, <1>4, <3>2
      <4> QED  BY <1>3, <1>5, <1>10, <4>1
    <3> QED  BY <3>1, <3>2
  <2> QED  BY <1>3, <2>1, <2>2 DEF Indexed, b
<1>12. PositionsKept(q, i)
  <2>1. ASSUME NEW e \in q.positions
        PROVE  \E j \in 1..i : IsNative(uses[j]) /\ b[j] = e[1]
    <3>1. PICK j \in 1..i - 1 : IsNative(uses[j]) /\ a[j] = e[1]
      BY <1>2 DEF Kept, PositionsKept, a
    <3> QED  BY <1>3, <3>1
  <2>2. q.positions \in Numberings /\ Cardinality(q.positions) = q.nativeCount
    BY <1>2 DEF Kept, PositionsKept
  <2> QED  BY <2>1, <2>2 DEF PositionsKept, b
<1>13. NamesKept(q, i)
  <2>0. /\ Keyed(p.names)
        /\ \A e \in p.names : \E j \in 1..i - 1 :
              uses[j].style = "named" /\ e = <<PdoKey(uses[j]), a[j]>>
        /\ \A j \in 1..i - 1 : uses[j].style = "named" =>
              <<PdoKey(uses[j]), a[j]>> \in p.names
        /\ \A j, k \in 1..i - 1 : ~IsNative(uses[j]) /\ ~IsNative(uses[k]) =>
              (a[j] = a[k] <=>
                  \/ j = k
                  \/ uses[j].style = "named" /\ PdoKey(uses[j]) = PdoKey(uses[k]))
    BY DEF Kept, NamesKept, a
  <2>1. Keyed(q.names) /\ p.names \subseteq q.names
    <3>1. Keyed(Put(p.names, PdoKey(use), x))  BY <2>0, PutKeyed
    <3>2. p.names \subseteq Put(p.names, PdoKey(use), x)  BY DEF Put
    <3> QED  BY <1>2, <2>0, <3>1, <3>2
  <2>2. ASSUME NEW e \in q.names
        PROVE  \E j \in 1..i : uses[j].style = "named" /\ e = <<PdoKey(uses[j]), b[j]>>
    <3>1. CASE e \in p.names
      <4>1. PICK j \in 1..i - 1 : uses[j].style = "named" /\ e = <<PdoKey(uses[j]), a[j]>>
        BY <2>0, <3>1
      <4> QED  BY <1>3, <4>1
    <3>2. CASE e \notin p.names
      <4>1. use.style = "named" /\ e = <<PdoKey(use), x>>
        BY <1>2, <2>0, <3>2, PutKeyed
      <4> QED  BY <1>3, <4>1
    <3> QED  BY <3>1, <3>2
  <2>3. use.style = "named" => <<PdoKey(use), x>> \in q.names
    <3> SUFFICES ASSUME use.style = "named"  PROVE <<PdoKey(use), x>> \in q.names
      OBVIOUS
    <3>1. CASE known
      <4>1. PICK j \in 1..i - 1 : /\ uses[j].style = "named" /\ a[j] = x
                                  /\ PdoKey(uses[j]) = PdoKey(use)
        BY <1>6, <3>1
      <4>2. <<PdoKey(uses[j]), a[j]>> \in p.names  BY <2>0, <4>1
      <4> QED  BY <2>1, <4>1, <4>2
    <3>2. CASE ~known  BY <1>2, <3>2 DEF Put
    <3> QED  BY <3>1, <3>2
  <2>4. ASSUME NEW j \in 1..i, uses[j].style = "named"
        PROVE  <<PdoKey(uses[j]), b[j]>> \in q.names
    <3>1. CASE j = i  BY <1>3, <2>3, <2>4, <3>1
    <3>2. CASE j \in 1..i - 1
      <4>1. b[j] = a[j] /\ <<PdoKey(uses[j]), a[j]>> \in p.names
        BY <1>3, <2>0, <2>4, <3>2
      <4> QED  BY <2>1, <4>1
    <3> QED  BY <1>3, <3>1, <3>2
  \* The new placeholder shares its index with those of its name.
  <2>5. ASSUME NEW j \in 1..i - 1, ~IsNative(uses[j])
        PROVE  a[j] = x <=> uses[j].style = "named" /\ PdoKey(uses[j]) = PdoKey(use)
    <3>1. CASE known
      <4>1. PICK k \in 1..i - 1 : /\ uses[k].style = "named" /\ a[k] = x
                                  /\ PdoKey(uses[k]) = PdoKey(use)
        BY <1>6, <3>1
      <4>2. ~IsNative(uses[k])  BY <1>3, <4>1, NativeOrNot
      <4>3. a[j] = a[k] <=> \/ j = k
                            \/ /\ uses[j].style = "named"
                               /\ PdoKey(uses[j]) = PdoKey(uses[k])
        BY <2>0, <2>5, <4>2
      <4> HIDE DEF known, use
      <4> QED  BY <4>1, <4>3
    <3>2. CASE ~known
      <4>1. a[j] # x
        <5>1. a[j] \in 0..p.parameters - 1 /\ x = p.parameters
          BY <1>7, <1>10, <2>5, <3>2
        <5> QED  BY <1>4, <5>1
      <4>2. ~(uses[j].style = "named" /\ PdoKey(uses[j]) = PdoKey(use))
        <5> SUFFICES ASSUME uses[j].style = "named", PdoKey(uses[j]) = PdoKey(use)
                     PROVE  FALSE
          OBVIOUS
        <5>1. uses[j].style = p.style /\ p.style = use.style
          <6>1. uses[j].style = p.style  BY <2>5 DEF Kept, OneStyle
          <6>2. p.style # NoSlot  BY <1>3, <6>1, PlacementsAssumption
          <6> QED  BY <1>2, <6>1, <6>2
        <5>2. <<PdoKey(uses[j]), a[j]>> \in p.names
          BY <2>0
        <5>3. <<PdoKey(uses[j]), a[j]>>[1] = PdoKey(use)  OBVIOUS
        <5>4. Has(p.names, PdoKey(use))  BY <5>2, <5>3 DEF Has
        <5> QED  BY <3>2, <5>1, <5>4
      <4> QED  BY <4>1, <4>2
    <3> QED  BY <3>1, <3>2
  <2>6. ASSUME NEW j \in 1..i - 1, ~IsNative(uses[j])
        PROVE  uses[j].style = use.style
    <3>1. uses[j].style = p.style  BY <2>6 DEF Kept, OneStyle
    <3>2. p.style # NoSlot  BY <1>3, <3>1, PlacementsAssumption
    <3> QED  BY <1>2, <3>1, <3>2
  <2>7. ASSUME NEW j \in 1..i, NEW k \in 1..i, ~IsNative(uses[j]), ~IsNative(uses[k])
        PROVE  b[j] = b[k] <=>
                  \/ j = k
                  \/ uses[j].style = "named" /\ PdoKey(uses[j]) = PdoKey(uses[k])
    <3>1. CASE j \in 1..i - 1 /\ k \in 1..i - 1
      <4>1. b[j] = a[j] /\ b[k] = a[k]  BY <1>3, <3>1
      <4> QED  BY <2>0, <2>7, <3>1, <4>1
    <3>2. CASE j \in 1..i - 1 /\ k = i
      <4>1. b[j] = a[j] /\ b[k] = x /\ j # k  BY <1>3, <3>2
      <4>2. a[j] = x <=> uses[j].style = "named" /\ PdoKey(uses[j]) = PdoKey(use)
        BY <2>5, <2>7, <3>2
      <4> QED  BY <3>2, <4>1, <4>2
    <3>3. CASE j = i /\ k \in 1..i - 1
      <4>1. b[k] = a[k] /\ b[j] = x /\ j # k  BY <1>3, <3>3
      <4>2. a[k] = x <=> uses[k].style = "named" /\ PdoKey(uses[k]) = PdoKey(use)
        BY <2>5, <2>7, <3>3
      <4>3. uses[k].style = uses[j].style  BY <2>6, <2>7, <3>3
      <4> QED  BY <3>3, <4>1, <4>2, <4>3
    <3>4. CASE j = i /\ k = i  BY <3>4
    <3> QED  BY <1>3, <3>1, <3>2, <3>3, <3>4
  <2> QED  BY <2>1, <2>2, <2>4, <2>7 DEF NamesKept, b
<1>14. OneStyle(q, i)
  <2> SUFFICES ASSUME NEW j \in 1..i, ~IsNative(uses[j])
               PROVE  uses[j].style = use.style
    BY <1>2 DEF OneStyle
  <2>1. CASE j = i  BY <2>1
  <2>2. CASE j \in 1..i - 1
    <3>1. uses[j].style = p.style  BY <2>2 DEF Kept, OneStyle
    <3>2. p.style # NoSlot  BY <1>3, <3>1, PlacementsAssumption
    <3> QED  BY <1>2, <3>1, <3>2
  <2> QED  BY <1>3, <2>1, <2>2
<1>15. NextKept(q, i)
  <2>0. /\ \A j \in 1..i - 1 : Given(j) => a[j] \in Nat /\ a[j] < p.next
        /\ p.next = 0 \/ \E j \in 1..i - 1 : Given(j) /\ p.next = a[j] + 1
        /\ \A j \in 1..i - 1 : Anonymous(uses[j]) /\ Given(j) => NextFree(a, j)
    BY DEF Kept, NextKept, a
  <2>1. q.next \in Nat /\ p.next <= q.next /\ x < q.next
        /\ q.next \in {p.next, x + 1}
    BY <1>2, <1>4
  <2>2. ASSUME NEW j \in 1..i, Given(j)
        PROVE  b[j] \in Nat /\ b[j] < q.next
    <3>1. CASE j = i  BY <1>2, <1>3, <2>1, <3>1
    <3>2. CASE j \in 1..i - 1
      <4>1. b[j] = a[j] /\ a[j] \in Nat /\ a[j] < p.next
        BY <1>3, <2>0, <2>2, <3>2
      <4> QED  BY <1>4, <2>1, <4>1
    <3> QED  BY <1>3, <3>1, <3>2
  <2>3. q.next = 0 \/ \E j \in 1..i : Given(j) /\ q.next = b[j] + 1
    <3>1. CASE q.next = x + 1  BY <1>3, <1>5, <3>1
    <3>2. CASE q.next = p.next
      <4>1. CASE p.next = 0  BY <3>2, <4>1
      <4>2. CASE p.next # 0
        <5>1. PICK j \in 1..i - 1 : Given(j) /\ p.next = a[j] + 1  BY <2>0, <4>2
        <5> QED  BY <1>3, <3>2, <5>1
      <4> QED  BY <4>1, <4>2
    <3> QED  BY <2>1, <3>1, <3>2
  <2>4. ASSUME NEW j \in 1..i, Anonymous(uses[j]), Given(j)
        PROVE  NextFree(b, j)
    <3>1. j \in 1..i - 1  BY <1>3, <1>5, <2>4
    <3>2. NextFree(a, j)  BY <2>0, <2>4, <3>1
    <3>3. b[j] = a[j] /\ \A k \in 1..j - 1 : k \in 1..i - 1 /\ b[k] = a[k]
      BY <1>3, <3>1
    <3> QED  BY <3>2, <3>3 DEF NextFree
  <2> QED  BY <2>2, <2>3, <2>4 DEF NextKept, b
<1>16. NumbersKept(q, i)
  <2>0. /\ Keyed(p.nativeNames)
        /\ \A e \in p.nativeNames :
              \E j \in 1..i - 1 : /\ IsNative(uses[j]) /\ ~Anonymous(uses[j])
                                  /\ e = <<NativeKey(uses[j]), a[j]>>
        /\ \A j \in 1..i - 1 : IsNative(uses[j]) /\ ~Anonymous(uses[j]) =>
              <<NativeKey(uses[j]), a[j]>> \in p.nativeNames
        /\ \A j \in 1..i - 1 : uses[j].style = "number" /\ uses[j].name # 0 =>
              a[j] = uses[j].name - 1
    BY DEF Kept, NumbersKept, a
  <2>1. ASSUME NEW e \in q.nativeNames
        PROVE  \E j \in 1..i : /\ IsNative(uses[j]) /\ ~Anonymous(uses[j])
                               /\ e = <<NativeKey(uses[j]), b[j]>>
    <3>1. PICK j \in 1..i - 1 : /\ IsNative(uses[j]) /\ ~Anonymous(uses[j])
                                /\ e = <<NativeKey(uses[j]), a[j]>>
      BY <1>2, <2>0
    <3> QED  BY <1>3, <3>1
  <2>2. ASSUME NEW j \in 1..i, IsNative(uses[j]), ~Anonymous(uses[j])
        PROVE  <<NativeKey(uses[j]), b[j]>> \in q.nativeNames
    <3>1. j \in 1..i - 1  BY <1>3, <1>5, <2>2
    <3> QED  BY <1>2, <1>3, <2>0, <2>2, <3>1
  <2>3. ASSUME NEW j \in 1..i, uses[j].style = "number", uses[j].name # 0
        PROVE  b[j] = uses[j].name - 1
    <3>1. IsNative(uses[j])  BY <2>3 DEF IsNative
    <3>2. j \in 1..i - 1  BY <1>3, <1>5, <3>1
    <3> QED  BY <1>3, <2>0, <2>3, <3>2
  <2> QED  BY <1>2, <2>0, <2>1, <2>2, <2>3 DEF NumbersKept, b
<1>17. DollarsKept(q, i)
  <2>1. use.style # "dollar"  BY <1>5 DEF IsNative
  <2> QED  BY <1>3, <2>1 DEF DollarsKept
<1> QED  BY <1>11, <1>12, <1>13, <1>14, <1>15, <1>16, <1>17 DEF Kept, q

\* So does a number or a $name.
LEMMA NativeKept ==
  ASSUME TypedText, NEW i \in 1..Len(uses), NEW p \in Plans, ~p.mixed, Kept(p, i - 1),
         IsNative(uses[i])
  PROVE  Kept(AddNative(p, uses[i]), i)
<1> DEFINE use == uses[i]
           q == AddNative(p, use)
           x == Position(p, use)
           y == IF Given(i) THEN x ELSE NoSlot
           a == p.indices
           b == q.indices
           key == NativeKey(use)
<1>0. Len(a) = i - 1  BY DEF Kept, Indexed
<1>1. use \in Placements /\ UpTo(i)
  <2>1. UpTo(i)  BY UsesUpTo
  <2> QED  BY <2>1 DEF UpTo
<1>2. /\ x \in Nat /\ q.style = p.style
      /\ q.parameters = p.parameters /\ q.names = p.names
      /\ b = Append(a, y)
      /\ ~Given(i) => /\ q.positions = p.positions /\ q.nativeCount = p.nativeCount
                      /\ q.nativeNames = p.nativeNames /\ q.next = p.next
      /\ Given(i) =>
            /\ q.nativeCount = IF Has(p.positions, x) THEN p.nativeCount
                               ELSE p.nativeCount + 1
            /\ q.nativeNames = IF Anonymous(use) THEN p.nativeNames
                               ELSE Put(p.nativeNames, key, x)
            /\ q.positions = Put(p.positions, x, p.nativeCount)
            /\ q.next = (IF p.next >= x + 1 THEN p.next ELSE x + 1)
  <2> HIDE DEF q
  <2>1. LET r == AddNative(p, use)
        IN /\ x \in Nat /\ r.style = p.style
           /\ r.parameters = p.parameters /\ r.names = p.names
           /\ ~Given(i) => /\ r.indices = Append(a, NoSlot) /\ r.positions = p.positions
                           /\ r.nativeCount = p.nativeCount
                           /\ r.nativeNames = p.nativeNames /\ r.next = p.next
           /\ Given(i) =>
                 /\ r.nativeCount = IF Has(p.positions, x) THEN p.nativeCount
                                    ELSE p.nativeCount + 1
                 /\ r.nativeNames = IF Anonymous(use) THEN p.nativeNames
                                    ELSE Put(p.nativeNames, key, x)
                 /\ r.positions = Put(p.positions, x, p.nativeCount)
                 /\ r.next = (IF p.next >= x + 1 THEN p.next ELSE x + 1)
                 /\ r.indices = Append(a, x)
    BY <1>1, NativeAdded DEF Given
  <2> QED  BY <2>1 DEF q
<1>3. /\ Len(b) = i /\ b[i] = y /\ \A j \in 1..i - 1 : b[j] = a[j]
      /\ i \in Nat /\ i - 1 \in Nat
      /\ \A j \in 1..i : j = i \/ j \in 1..i - 1
      /\ \A j \in 1..i - 1 : j \in 1..i /\ j # i
      /\ i \in 1..i
      /\ \A j \in 1..i : uses[j] \in Placements
  <2> DEFINE c == b
  <2>0. PICK z : z = y  OBVIOUS
  <2>1. c = Append(a, z) /\ i \in Nat  BY <1>1, <1>2, <2>0 DEF UpTo
  <2>2. Grown(a, Append(a, z), z, i)  BY <1>0, <2>1, IndexAppended
  <2> HIDE DEF c, x, y, key
  <2>3. /\ Len(c) = i /\ c[i] = z /\ \A j \in 1..i - 1 : c[j] = a[j]
    <3> HIDE DEF a
    <3> QED  BY <2>1, <2>2 DEF Grown
  <2>4. /\ i \in Nat /\ i - 1 \in Nat
        /\ \A j \in 1..i : j = i \/ j \in 1..i - 1
        /\ \A j \in 1..i - 1 : j \in 1..i /\ j # i
        /\ i \in 1..i
        /\ \A j \in 1..i : uses[j] \in Placements
    BY <1>1 DEF UpTo
  <2> QED  BY <2>0, <2>3, <2>4 DEF c
<1>4. /\ p.parameters \in Nat /\ p.next \in Nat /\ p.nativeCount \in Nat
      /\ p.nativeNames \in SUBSET (AllKeys \X Nat)
  BY DEF Plans
<1>5. /\ IsNative(use) /\ use.style # "named"
      /\ Given(i) => y = x
      /\ ~Given(i) => Anonymous(use) /\ ~legacy /\ y = NoSlot
  BY <1>1, NativeOrNot DEF Given
<1> HIDE DEF q
<1>6. /\ \A j \in 1..i - 1 : ~IsNative(uses[j]) => a[j] \in 0..p.parameters - 1
      /\ \A j \in 1..i - 1 : IsNative(uses[j]) =>
            IF Anonymous(uses[j]) /\ ~legacy THEN a[j] = NoSlot
            ELSE a[j] \in Nat /\ Has(p.positions, a[j])
      /\ \A k \in 0..p.parameters - 1 :
            \E j \in 1..i - 1 : ~IsNative(uses[j]) /\ a[j] = k
  BY DEF Kept, Indexed
<1>7. /\ p.positions \in Numberings /\ Cardinality(p.positions) = p.nativeCount
      /\ \A e \in p.positions :
            \E j \in 1..i - 1 : IsNative(uses[j]) /\ a[j] = e[1]
  BY DEF Kept, PositionsKept, a
<1>8. /\ q.positions \in Numberings /\ Cardinality(q.positions) = q.nativeCount
      /\ p.positions \subseteq q.positions
      /\ \A e \in q.positions : e \in p.positions \/ (Given(i) /\ e = <<x, p.nativeCount>>)
      /\ Given(i) => Has(q.positions, x)
  <2>1. CASE ~Given(i)  BY <1>2, <1>7, <2>1
  <2>2. CASE Given(i)
    <3>1. Keyed(p.positions)  BY <1>7 DEF Numberings
    <3>2. /\ Has(q.positions, x)
          /\ \A e \in q.positions : e \in p.positions \/ e = <<x, p.nativeCount>>
      <4> HIDE DEF x
      <4> QED  BY <1>2, <2>2, <3>1, PutKeyed
    <3>3. p.positions \subseteq q.positions  BY <1>2, <2>2 DEF Put
    <3>4. q.positions \in Numberings /\ Cardinality(q.positions) = q.nativeCount
      <4> HIDE DEF x
      <4> QED  BY ZenonT(60), <1>2, <1>7, <2>2, PutNumbering
    <3> QED  BY <2>2, <3>2, <3>3, <3>4
  <2> QED  BY <2>1, <2>2
<1>9. /\ Keyed(p.nativeNames)
      /\ \A e \in p.nativeNames :
            \E j \in 1..i - 1 : /\ IsNative(uses[j]) /\ ~Anonymous(uses[j])
                                /\ e = <<NativeKey(uses[j]), a[j]>>
      /\ \A j \in 1..i - 1 : IsNative(uses[j]) /\ ~Anonymous(uses[j]) =>
            <<NativeKey(uses[j]), a[j]>> \in p.nativeNames
      /\ \A j \in 1..i - 1 : uses[j].style = "number" /\ uses[j].name # 0 =>
            a[j] = uses[j].name - 1
  BY DEF Kept, NumbersKept, a
\* A known name has the position of an earlier placeholder.
<1>10. ~Anonymous(use) /\ Has(p.nativeNames, key) =>
          /\ <<key, x>> \in p.nativeNames
          /\ \E j \in 1..i - 1 : /\ IsNative(uses[j]) /\ ~Anonymous(uses[j])
                                 /\ NativeKey(uses[j]) = key /\ a[j] = x
  <2> SUFFICES ASSUME ~Anonymous(use), Has(p.nativeNames, key)
               PROVE  /\ <<key, x>> \in p.nativeNames
                      /\ \E j \in 1..i - 1 : /\ IsNative(uses[j]) /\ ~Anonymous(uses[j])
                                             /\ NativeKey(uses[j]) = key /\ a[j] = x
    OBVIOUS
  <2>1. x = Get(p.nativeNames, key)  BY DEF Position
  <2>2. PICK e \in p.nativeNames : e[1] = key /\ e[2] = x
    BY <2>1, GetFacts
  <2>3. PICK j \in 1..i - 1 : /\ IsNative(uses[j]) /\ ~Anonymous(uses[j])
                              /\ e = <<NativeKey(uses[j]), a[j]>>
    BY <1>9, <2>2
  <2>4. NativeKey(uses[j]) = key /\ a[j] = x  BY <2>2, <2>3
  <2> HIDE DEF x
  <2> QED  BY <2>2, <2>3, <2>4
<1>11. use.style = "number" /\ use.name # 0 => x = use.name - 1
  <2> SUFFICES ASSUME use.style = "number", use.name # 0  PROVE x = use.name - 1
    OBVIOUS
  <2>1. ~Anonymous(use)  BY DEF Anonymous
  <2>2. CASE Has(p.nativeNames, key)
    <3>1. PICK j \in 1..i - 1 : /\ IsNative(uses[j]) /\ ~Anonymous(uses[j])
                                /\ NativeKey(uses[j]) = key /\ a[j] = x
      BY <1>10, <2>1, <2>2
    <3>2. key = <<use.name, use.spelling>>  BY DEF NativeKey
    <3>3. uses[j].style = "number"
      <4> SUFFICES ASSUME uses[j].style # "number"  PROVE FALSE
        OBVIOUS
      <4>1. NativeKey(uses[j]) = <<uses[j].name>>  BY DEF NativeKey
      <4>2. \A v, w, z : <<v>> # <<w, z>>
        <5> SUFFICES ASSUME NEW v, NEW w, NEW z, <<v>> = <<w, z>>  PROVE FALSE
          OBVIOUS
        <5>1. Len(<<v>>) = 1 /\ Len(<<w, z>>) = 2  OBVIOUS
        <5> QED  BY <5>1
      <4> QED  BY <3>1, <3>2, <4>1, <4>2
    <3>4. NativeKey(uses[j]) = <<uses[j].name, uses[j].spelling>>
      BY <3>3 DEF NativeKey
    <3>5. /\ <<uses[j].name, uses[j].spelling>>[1] = uses[j].name
          /\ <<use.name, use.spelling>>[1] = use.name
      OBVIOUS
    <3>6. uses[j].name = use.name  BY <3>1, <3>2, <3>4, <3>5
    <3> QED  BY <1>9, <3>1, <3>3, <3>6
  <2>3. CASE ~Has(p.nativeNames, key)  BY <2>1, <2>3 DEF Position
  <2> QED  BY <2>2, <2>3
<1>12. /\ Anonymous(use) => x = p.next
       /\ use.style = "dollar" /\ ~Has(p.nativeNames, key) => x = p.nativeCount
  <2>1. CASE Anonymous(use)
    <3>1. x = p.next  BY <2>1, Zenon DEF Position
    <3>2. use.style # "dollar"  BY <2>1 DEF Anonymous
    <3> QED  BY <3>1, <3>2
  <2>2. CASE ~Anonymous(use)  BY <2>2 DEF Position
  <2> QED  BY <2>1, <2>2
<1> HIDE DEF x, y, a, b, key
<1>13. Indexed(q, i)
  <2>1. ASSUME NEW j \in 1..i
        PROVE  IF IsNative(uses[j])
               THEN IF Anonymous(uses[j]) /\ ~legacy THEN b[j] = NoSlot
                    ELSE b[j] \in Nat /\ Has(q.positions, b[j])
               ELSE b[j] \in 0..q.parameters - 1
    <3>1. CASE j = i
      <4>1. b[j] = y  BY <1>3, <3>1
      <4>2. CASE Given(i)  BY <1>2, <1>5, <1>8, <3>1, <4>1, <4>2 DEF Given
      <4>3. CASE ~Given(i)  BY <1>5, <3>1, <4>1, <4>3 DEF Given
      <4> QED  BY <4>2, <4>3
    <3>2. CASE j \in 1..i - 1
      <4>1. b[j] = a[j]  BY <1>3, <3>2
      <4>2. \A z : Has(p.positions, z) => Has(q.positions, z)  BY <1>8 DEF Has
      <4> QED  BY <1>2, <1>6, <3>2, <4>1, <4>2
    <3> QED  BY <1>3, <3>1, <3>2
  <2>2. ASSUME NEW k \in 0..q.parameters - 1
        PROVE  \E j \in 1..i : ~IsNative(uses[j]) /\ b[j] = k
    <3>1. PICK j \in 1..i - 1 : ~IsNative(uses[j]) /\ a[j] = k  BY <1>2, <1>6
    <3> QED  BY <1>3, <3>1
  <2> QED  BY <1>3, <2>1, <2>2 DEF Indexed, b
<1>14. PositionsKept(q, i)
  <2>1. ASSUME NEW e \in q.positions
        PROVE  \E j \in 1..i : IsNative(uses[j]) /\ b[j] = e[1]
    <3>1. CASE e \in p.positions
      <4>1. PICK j \in 1..i - 1 : IsNative(uses[j]) /\ a[j] = e[1]  BY <1>7, <3>1
      <4> QED  BY <1>3, <4>1
    <3>2. CASE e \notin p.positions
      <4>1. Given(i) /\ e = <<x, p.nativeCount>>  BY <1>8, <3>2
      <4>2. e[1] = x  BY <4>1
      <4> QED  BY <1>3, <1>5, <4>1, <4>2
    <3> QED  BY <3>1, <3>2
  <2> QED  BY <1>8, <2>1 DEF PositionsKept, b
<1>15. NamesKept(q, i)
  <2>0. /\ Keyed(p.names)
        /\ \A e \in p.names : \E j \in 1..i - 1 :
              uses[j].style = "named" /\ e = <<PdoKey(uses[j]), a[j]>>
        /\ \A j \in 1..i - 1 : uses[j].style = "named" =>
              <<PdoKey(uses[j]), a[j]>> \in p.names
        /\ \A j, k \in 1..i - 1 : ~IsNative(uses[j]) /\ ~IsNative(uses[k]) =>
              (a[j] = a[k] <=>
                  \/ j = k
                  \/ uses[j].style = "named" /\ PdoKey(uses[j]) = PdoKey(uses[k]))
    BY DEF Kept, NamesKept, a
  <2>1. ASSUME NEW e \in q.names
        PROVE  \E j \in 1..i : uses[j].style = "named" /\ e = <<PdoKey(uses[j]), b[j]>>
    <3>1. PICK j \in 1..i - 1 : uses[j].style = "named" /\ e = <<PdoKey(uses[j]), a[j]>>
      BY <1>2, <2>0
    <3> QED  BY <1>3, <3>1
  <2>2. ASSUME NEW j \in 1..i, uses[j].style = "named"
        PROVE  <<PdoKey(uses[j]), b[j]>> \in q.names
    <3>1. j \in 1..i - 1  BY <1>3, <1>5, <2>2
    <3> QED  BY <1>2, <1>3, <2>0, <2>2, <3>1
  <2>3. ASSUME NEW j \in 1..i, NEW k \in 1..i, ~IsNative(uses[j]), ~IsNative(uses[k])
        PROVE  b[j] = b[k] <=>
                  \/ j = k
                  \/ uses[j].style = "named" /\ PdoKey(uses[j]) = PdoKey(uses[k])
    <3>1. j \in 1..i - 1 /\ k \in 1..i - 1  BY <1>3, <1>5, <2>3
    <3>2. b[j] = a[j] /\ b[k] = a[k]  BY <1>3, <3>1
    <3> QED  BY <2>0, <2>3, <3>1, <3>2
  <2> QED  BY <1>2, <2>0, <2>1, <2>2, <2>3 DEF NamesKept, b
<1>16. OneStyle(q, i)
  <2> SUFFICES ASSUME NEW j \in 1..i, ~IsNative(uses[j])
               PROVE  uses[j].style = p.style
    BY <1>2 DEF OneStyle
  <2>1. j \in 1..i - 1  BY <1>3, <1>5
  <2> QED  BY <2>1 DEF Kept, OneStyle
<1>17. /\ \A j \in 1..i - 1 : Given(j) => a[j] \in Nat /\ a[j] < p.next
       /\ p.next = 0 \/ \E j \in 1..i - 1 : Given(j) /\ p.next = a[j] + 1
       /\ \A j \in 1..i - 1 : Anonymous(uses[j]) /\ Given(j) => NextFree(a, j)
  BY DEF Kept, NextKept, a
<1>18. ASSUME NEW j \in 1..i - 1, NextFree(a, j)
       PROVE  NextFree(b, j)
  <2>1. b[j] = a[j] /\ \A k \in 1..j - 1 : k \in 1..i - 1 /\ b[k] = a[k]
    BY <1>3
  <2> QED  BY <1>18, <2>1 DEF NextFree
<1>19. NextKept(q, i)
  <2>1. /\ q.next \in Nat /\ p.next <= q.next
        /\ Given(i) => x < q.next
        /\ q.next = p.next \/ (Given(i) /\ q.next = x + 1)
    BY SMTT(30), <1>2, <1>4
  <2>2. ASSUME NEW j \in 1..i, Given(j)
        PROVE  b[j] \in Nat /\ b[j] < q.next
    <3>1. CASE j = i  BY <1>2, <1>3, <1>5, <2>1, <2>2, <3>1
    <3>2. CASE j \in 1..i - 1
      <4>1. b[j] = a[j] /\ a[j] \in Nat /\ a[j] < p.next
        BY <1>3, <1>17, <2>2, <3>2
      <4> QED  BY <1>4, <2>1, <4>1
    <3> QED  BY <1>3, <3>1, <3>2
  <2>3. q.next = 0 \/ \E j \in 1..i : Given(j) /\ q.next = b[j] + 1
    <3>1. CASE Given(i) /\ q.next = x + 1  BY <1>3, <1>5, <3>1
    <3>2. CASE q.next = p.next
      <4>1. CASE p.next = 0  BY <3>2, <4>1
      <4>2. CASE p.next # 0
        <5>1. PICK j \in 1..i - 1 : Given(j) /\ p.next = a[j] + 1  BY <1>17, <4>2
        <5> QED  BY <1>3, <3>2, <5>1
      <4> QED  BY <4>1, <4>2
    <3> QED  BY <2>1, <3>1, <3>2
  <2>4. ASSUME NEW j \in 1..i, Anonymous(uses[j]), Given(j)
        PROVE  NextFree(b, j)
    <3>1. CASE j \in 1..i - 1  BY <1>17, <1>18, <2>4, <3>1
    <3>2. CASE j = i
      <4>1. b[i] = p.next  BY <1>3, <1>5, <1>12, <2>4, <3>2
      <4>2. \A k \in 1..i - 1 : Given(k) => b[k] \in Nat /\ b[k] < b[i]
        BY <1>3, <1>17, <4>1
      <4>3. b[i] = 0 \/ \E k \in 1..i - 1 : Given(k) /\ b[i] = b[k] + 1
        BY <1>3, <1>17, <4>1
      <4> QED  BY <1>4, <3>2, <4>1, <4>2, <4>3 DEF NextFree
    <3> QED  BY <1>3, <3>1, <3>2
  <2> QED  BY <2>2, <2>3, <2>4 DEF NextKept, b
<1>20. NumbersKept(q, i)
  <2>1. /\ Keyed(q.nativeNames) /\ p.nativeNames \subseteq q.nativeNames
        /\ \A e \in q.nativeNames :
              e \in p.nativeNames \/ (~Anonymous(use) /\ e = <<key, x>>)
        /\ ~Anonymous(use) => <<key, x>> \in q.nativeNames
    <3>1. CASE Anonymous(use)  BY <1>2, <1>9, <3>1
    <3>2. CASE ~Anonymous(use)
      <4>1. q.nativeNames = Put(p.nativeNames, key, x)  BY <1>2, <1>5, <3>2
      <4>2. <<key, x>> \in q.nativeNames
        <5>1. CASE Has(p.nativeNames, key)  BY <1>10, <3>2, <4>1, <5>1 DEF Put
        <5>2. CASE ~Has(p.nativeNames, key)  BY <4>1, <5>2 DEF Put
        <5> QED  BY <5>1, <5>2
      <4>3. p.nativeNames \subseteq q.nativeNames  BY <4>1 DEF Put
      <4>4. /\ Keyed(q.nativeNames)
            /\ \A e \in q.nativeNames : e \in p.nativeNames \/ e = <<key, x>>
        BY <1>9, <4>1, PutKeyed
      <4> QED  BY <3>2, <4>2, <4>3, <4>4
    <3> QED  BY <3>1, <3>2
  <2>2. ASSUME NEW e \in q.nativeNames
        PROVE  \E j \in 1..i : /\ IsNative(uses[j]) /\ ~Anonymous(uses[j])
                               /\ e = <<NativeKey(uses[j]), b[j]>>
    <3>1. CASE e \in p.nativeNames
      <4>1. PICK j \in 1..i - 1 : /\ IsNative(uses[j]) /\ ~Anonymous(uses[j])
                                  /\ e = <<NativeKey(uses[j]), a[j]>>
        BY <1>9, <3>1
      <4> QED  BY <1>3, <4>1
    <3>2. CASE e \notin p.nativeNames
      <4>1. ~Anonymous(use) /\ e = <<NativeKey(use), x>>  BY <2>1, <3>2 DEF key
      <4>2. b[i] = x  BY <1>3, <1>5, <4>1
      <4> QED  BY <1>3, <1>5, <4>1, <4>2
    <3> QED  BY <3>1, <3>2
  <2>3. ASSUME NEW j \in 1..i, IsNative(uses[j]), ~Anonymous(uses[j])
        PROVE  <<NativeKey(uses[j]), b[j]>> \in q.nativeNames
    <3>1. CASE j = i
      <4>1. b[i] = x  BY <1>3, <1>5, <2>3, <3>1
      <4> QED  BY <2>1, <2>3, <3>1, <4>1 DEF key
    <3>2. CASE j \in 1..i - 1  BY <1>3, <1>9, <2>1, <2>3, <3>2
    <3> QED  BY <1>3, <3>1, <3>2
  <2>4. ASSUME NEW j \in 1..i, uses[j].style = "number", uses[j].name # 0
        PROVE  b[j] = uses[j].name - 1
    <3>1. CASE j = i
      <4>1. ~Anonymous(use)  BY <2>4, <3>1 DEF Anonymous
      <4>2. b[i] = x  BY <1>3, <1>5, <4>1
      <4> QED  BY <1>11, <2>4, <3>1, <4>2
    <3>2. CASE j \in 1..i - 1  BY <1>3, <1>9, <2>4, <3>2
    <3> QED  BY <1>3, <3>1, <3>2
  <2> QED  BY <2>1, <2>2, <2>3, <2>4 DEF NumbersKept, b
<1>21. DollarsKept(q, i)
  <2> SUFFICES ASSUME \A j \in 1..i : uses[j].style = "dollar"
               PROVE  /\ {e[1] : e \in q.positions} = 0..q.nativeCount - 1
                      /\ \A j \in 1..i :
                            (\A k \in 1..j - 1 : uses[k].name # uses[j].name)
                               => NextFree(b, j)
    BY DEF DollarsKept, b
  <2>1. /\ \A j \in 1..i - 1 : uses[j].style = "dollar"
        /\ \A j \in 1..i : IsNative(uses[j]) /\ ~Anonymous(uses[j]) /\ Given(j)
    BY <1>3, NativeOrNot DEF Given
  <2>2. /\ {e[1] : e \in p.positions} = 0..p.nativeCount - 1
        /\ \A j \in 1..i - 1 :
              (\A k \in 1..j - 1 : uses[k].name # uses[j].name) => NextFree(a, j)
    BY <2>1 DEF Kept, DollarsKept, a
  <2>3. b[i] = x /\ use.style = "dollar" /\ Given(i) /\ ~Anonymous(use)
    BY <1>3, <1>5, <2>1
  <2>4. \A z : Has(p.positions, z) <=> z \in 0..p.nativeCount - 1
    <3>1. \A z : Has(p.positions, z) <=> z \in {e[1] : e \in p.positions}  BY DEF Has
    <3> QED  BY <2>2, <3>1
  <2>5. ASSUME Has(p.positions, x)
        PROVE  {e[1] : e \in q.positions} = 0..q.nativeCount - 1
    <3>1. q.positions = p.positions /\ q.nativeCount = p.nativeCount
      BY <1>2, <2>3, <2>5 DEF Put
    <3> QED  BY <2>2, <3>1
  <2>6. ASSUME ~Has(p.nativeNames, key)
        PROVE  {e[1] : e \in q.positions} = 0..q.nativeCount - 1
    <3>1. x = p.nativeCount  BY <1>12, <2>3, <2>6
    <3>2. ~Has(p.positions, x)  BY <1>4, <2>4, <3>1
    <3>3. q.positions = p.positions \cup {<<x, p.nativeCount>>}
          /\ q.nativeCount = p.nativeCount + 1
      BY <1>2, <2>3, <3>2 DEF Put
    <3>4. {e[1] : e \in q.positions} = {e[1] : e \in p.positions} \cup {x}
      <4> DEFINE new == <<x, p.nativeCount>>
      <4>1. new[1] = x /\ q.positions = p.positions \cup {new}  BY <3>3
      <4> HIDE DEF new
      <4> QED  BY <4>1
    <3>5. (0..p.nativeCount - 1) \cup {p.nativeCount} = 0..(p.nativeCount + 1) - 1
      BY <1>4
    <3> QED  BY <2>2, <3>1, <3>3, <3>4, <3>5
  <2>7. ASSUME Has(p.nativeNames, key)
        PROVE  /\ Has(p.positions, x)
               /\ \E k \in 1..i - 1 : uses[k].name = use.name
    <3>1. PICK j \in 1..i - 1 : /\ IsNative(uses[j]) /\ ~Anonymous(uses[j])
                                /\ NativeKey(uses[j]) = key /\ a[j] = x
      BY <1>10, <2>3, <2>7
    <3>2. Has(p.positions, x)  BY <1>6, <3>1
    <3>3. NativeKey(uses[j]) = <<uses[j].name>> /\ key = <<use.name>>
      BY <2>1, <2>3 DEF NativeKey, key
    <3>4. <<uses[j].name>>[1] = uses[j].name /\ <<use.name>>[1] = use.name
      OBVIOUS
    <3>5. uses[j].name = use.name  BY <3>1, <3>3, <3>4
    <3> QED  BY <3>2, <3>5
  <2>8. {e[1] : e \in q.positions} = 0..q.nativeCount - 1
    BY <2>5, <2>6, <2>7
  <2>9. ASSUME NEW j \in 1..i, \A k \in 1..j - 1 : uses[k].name # uses[j].name
        PROVE  NextFree(b, j)
    <3>1. CASE j \in 1..i - 1  BY <1>18, <2>2, <2>9, <3>1
    <3>2. CASE j = i
      <4>1. ~Has(p.nativeNames, key)  BY <2>7, <2>9, <3>2
      <4>2. b[i] = p.nativeCount  BY <1>12, <2>3, <4>1
      <4>3. \A k \in 1..i - 1 : b[k] \in Nat /\ b[k] < b[i]
        <5> SUFFICES ASSUME NEW k \in 1..i - 1  PROVE b[k] \in Nat /\ b[k] < b[i]
          OBVIOUS
        <5>1. ~(Anonymous(uses[k]) /\ ~legacy) /\ IsNative(uses[k])
          BY <1>3, <2>1
        <5>2. a[k] \in Nat /\ Has(p.positions, a[k])  BY <1>6, <5>1
        <5>3. a[k] \in 0..p.nativeCount - 1  BY <2>4, <5>2
        <5> QED  BY <1>3, <1>4, <4>2, <5>3
      <4>4. b[i] = 0 \/ \E k \in 1..i - 1 : Given(k) /\ b[i] = b[k] + 1
        <5> SUFFICES ASSUME b[i] # 0
                     PROVE  \E k \in 1..i - 1 : Given(k) /\ b[i] = b[k] + 1
          OBVIOUS
        <5>1. p.nativeCount - 1 \in 0..p.nativeCount - 1  BY <1>4, <4>2
        <5>2. PICK e \in p.positions : e[1] = p.nativeCount - 1  BY <2>2, <5>1
        <5>3. PICK k \in 1..i - 1 : IsNative(uses[k]) /\ a[k] = e[1]  BY <1>7
        <5> QED  BY <1>3, <1>4, <2>1, <4>2, <5>2, <5>3
      <4> QED  BY <1>4, <3>2, <4>2, <4>3, <4>4 DEF NextFree
    <3> QED  BY <1>3, <3>1, <3>2
  <2> QED  BY <2>8, <2>9
<1> QED
  BY <1>13, <1>14, <1>15, <1>16, <1>19, <1>20, <1>21 DEF Kept, q

\* A text without placeholders has an empty plan.
LEMMA NothingKept == Kept(EmptyPlan, 0)
<1>1. /\ EmptyPlan.indices = <<>> /\ EmptyPlan.parameters = 0 /\ EmptyPlan.names = {}
      /\ EmptyPlan.nativeNames = {} /\ EmptyPlan.positions = {}
      /\ EmptyPlan.nativeCount = 0 /\ EmptyPlan.next = 0
  BY DEF EmptyPlan
<1>2. Len(<<>>) = 0 /\ 1..0 = {} /\ 0..0 - 1 = {}  OBVIOUS
<1>3. Indexed(EmptyPlan, 0)  BY <1>1, <1>2 DEF Indexed
<1>4. PositionsKept(EmptyPlan, 0)  BY <1>1, NoEntries DEF PositionsKept
<1>5. NamesKept(EmptyPlan, 0)  BY <1>1, <1>2 DEF NamesKept, Keyed
<1>6. OneStyle(EmptyPlan, 0)  BY <1>2 DEF OneStyle
<1>7. NextKept(EmptyPlan, 0)  BY <1>1, <1>2 DEF NextKept
<1>8. NumbersKept(EmptyPlan, 0)  BY <1>1, <1>2 DEF NumbersKept, Keyed
<1>9. DollarsKept(EmptyPlan, 0)
  <2>1. {e[1] : e \in {}} = {}  OBVIOUS
  <2> QED  BY <1>1, <1>2, <2>1 DEF DollarsKept
<1> QED  BY <1>3, <1>4, <1>5, <1>6, <1>7, <1>8, <1>9 DEF Kept

\* One more placeholder, whichever it is.
LEMMA UseKept ==
  ASSUME TypedText, NEW i \in 1..Len(uses), NEW p \in Plans, p.mixed \/ Kept(p, i - 1)
  PROVE  LET q == AddUse(p, uses[i]) IN q.mixed \/ Kept(q, i)
<1>1. CASE p.mixed  BY <1>1 DEF AddUse
<1>2. CASE ~p.mixed /\ IsNative(uses[i])
  <2>1. Kept(AddNative(p, uses[i]), i)  BY <1>2, NativeKept
  <2> QED  BY <1>2, <2>1 DEF AddUse
<1>3. CASE ~p.mixed /\ ~IsNative(uses[i])
  <2>1. AddUse(p, uses[i]) = AddPlaceholder(p, uses[i])  BY <1>3 DEF AddUse
  <2>2. \/ AddPlaceholder(p, uses[i]).mixed
        \/ Kept(AddPlaceholder(p, uses[i]), i)
    BY <1>3, PlaceholderKept
  <2> QED  BY <2>1, <2>2
<1> QED  BY <1>1, <1>2, <1>3

\* A plan that is not mixed is Kept, after each placeholder.
LEMMA ReadingKept ==
  ASSUME TypedText
  PROVE  \A i \in 0..Len(uses) : Reading[i].mixed \/ Kept(Reading[i], i)
<1> DEFINE n == Len(uses)
           Holds(i) == Reading[i].mixed \/ Kept(Reading[i], i)
           T == {k \in Nat : k <= n => Holds(k)}
<1>1. n \in Nat  BY DEF TypedText
<1>2. 0 \in T
  <2>1. Holds(0)  BY ReadingFacts, NothingKept
  <2> HIDE DEF Holds
  <2> QED  BY <2>1
<1>3. ASSUME NEW k \in Nat, k \in T  PROVE k + 1 \in T
  <2> SUFFICES ASSUME k + 1 <= n  PROVE Holds(k + 1)
    OBVIOUS
  <2>1. Holds(k)
    <3> HIDE DEF Holds
    <3> QED  BY <1>1, <1>3
  <2>2. PICK j \in 1..n : j = k + 1  BY <1>1
  <2>3. j - 1 = k /\ k \in 0..n  BY <1>1, <2>2
  <2>4. Reading[k] \in Plans /\ Reading[j] = AddUse(Reading[k], uses[j])
    <3>1. Reading[j] = AddUse(Reading[j - 1], uses[j])  BY ReadingFacts
    <3>2. Reading \in [0..n -> Plans]  BY ReadingFacts
    <3> HIDE DEF n
    <3> QED  BY <2>3, <3>1, <3>2
  <2>5. LET q == AddUse(Reading[k], uses[j]) IN q.mixed \/ Kept(q, j)
    <3>1. Reading[k].mixed \/ Kept(Reading[k], j - 1)  BY <2>1, <2>3
    <3> QED  BY <2>4, <3>1, UseKept
  <2> QED  BY <2>2, <2>4, <2>5
<1>4. \A k \in Nat : k \in T
  <2> HIDE DEF T
  <2> QED  BY <1>2, <1>3, Induction
<1> HIDE DEF Holds
<1>5. \A i \in 0..n : Holds(i)  BY <1>1, <1>4
<1> QED  BY <1>5 DEF Holds

\* The plan of the text: what was read, its positions replaced by the slots.
LEMMA PlanFacts ==
  ASSUME TypedText
  PROVE  LET p == Reading[Len(uses)]
         IN /\ p \in Plans /\ (p.mixed \/ Kept(p, Len(uses)))
            /\ Plan.mixed = p.mixed /\ Plan.indices = p.indices
            /\ Plan.parameters = p.parameters
            /\ Plan.positions = IF p.mixed THEN {} ELSE Slots(p, uses)
<1> DEFINE p == Reading[Len(uses)]
<1>1. Len(uses) \in 0..Len(uses)  BY DEF TypedText
<1>2. p \in Plans
  <2>1. Reading \in [0..Len(uses) -> Plans]  BY ReadingFacts
  <2> QED  BY <1>1, <2>1
<1>3. p.mixed \/ Kept(p, Len(uses))  BY <1>1, ReadingKept
<1>4. Plan = [p EXCEPT !.positions = IF p.mixed THEN {} ELSE Slots(p, uses)]
  BY DEF Plan
<1> HIDE DEF p
<1>5. \E s : s = IF p.mixed THEN {} ELSE Slots(p, uses)  OBVIOUS
<1>6. PICK s : s = IF p.mixed THEN {} ELSE Slots(p, uses)  BY <1>5
<1>7. Plan = [p EXCEPT !.positions = s]  BY <1>4, <1>6
<1>8. /\ Plan.mixed = p.mixed /\ Plan.indices = p.indices
      /\ Plan.parameters = p.parameters /\ Plan.positions = s
  BY <1>2, <1>7 DEF Plans
<1> QED  BY <1>2, <1>3, <1>6, <1>8 DEF p

\* Its slots are numbered from 0, and have what its placeholders name: with
\* PDO's parameters, their numbers and the positions of the numbers; without,
\* the positions of all placeholders.
LEMMA SlotsFacts ==
  ASSUME TypedText, NEW p \in Plans, Kept(p, Len(uses))
  PROVE  /\ Slots(p, uses) \in Numberings
         /\ \A k \in 0..p.parameters - 1 : <<k, k>> \in Slots(p, uses)
         /\ \A e \in Slots(p, uses) : \E i \in 1..Len(uses) :
               (IsNative(uses[i]) => Given(i)) /\ p.indices[i] = e[1]
         /\ \A i \in 1..Len(uses) :
               IsNative(uses[i]) /\ Given(i) /\ (uses[i].style = "dollar" => p.parameters = 0)
                  => Has(Slots(p, uses), p.indices[i])
<1> DEFINE n == Len(uses)
           s == Slots(p, uses)
           a == p.indices
<1>1. n \in Nat /\ p.parameters \in Nat  BY DEF TypedText, Plans
<1>2. /\ Len(a) = n
      /\ \A j \in 1..n :
            IF IsNative(uses[j])
            THEN IF Given(j) THEN a[j] \in Nat /\ Has(p.positions, a[j]) ELSE a[j] = NoSlot
            ELSE a[j] \in 0..p.parameters - 1
      /\ \A k \in 0..p.parameters - 1 : \E j \in 1..n : ~IsNative(uses[j]) /\ a[j] = k
  BY DEF Kept, Indexed, Given
<1>3. /\ p.positions \in Numberings
      /\ \A e \in p.positions : \E j \in 1..n : IsNative(uses[j]) /\ a[j] = e[1]
  BY DEF Kept, PositionsKept
<1>a. \A j \in 1..n : uses[j] \in Placements  BY ElementOfSeq DEF TypedText
<1>4. CASE p.parameters = 0
  <2>1. s = p.positions  BY <1>4 DEF Slots
  <2>2. ASSUME NEW e \in p.positions
        PROVE  \E i \in 1..n : (IsNative(uses[i]) => Given(i)) /\ a[i] = e[1]
    <3>1. PICK j \in 1..n : IsNative(uses[j]) /\ a[j] = e[1]  BY <1>3
    <3>2. e[1] \in Nat
      <4>1. e \in Nat \X Nat  BY <1>3 DEF Numberings
      <4> QED  BY <4>1
    <3>3. Given(j)  BY <1>2, <3>1, <3>2, PlacementsAssumption
    <3> QED  BY <3>1, <3>3
  <2>3. 0..p.parameters - 1 = {}  BY <1>4
  <2> HIDE DEF n, s
  <2> QED  BY <1>2, <1>3, <2>1, <2>2, <2>3 DEF s, n
<1>5. CASE p.parameters # 0
  <2> DEFINE t == Numbered(p, uses)
             first == {<<k, k>> : k \in 0..p.parameters - 1}
             Source(e) == \E i \in 1..n : (IsNative(uses[i]) => Given(i)) /\ a[i] = e[1]
             Good(i) == /\ first \subseteq t[i] /\ \A e \in t[i] : Source(e)
                        /\ \A j \in 1..i : uses[j].style = "number" /\ Given(j) =>
                              Has(t[i], a[j])
             T == {k \in Nat : k <= n => Good(k)}
  <2>1. /\ t \in [0..n -> Numberings] /\ t[0] = first
        /\ \A i \in 1..n : t[i] = IF uses[i].style = "number" /\ a[i] # NoSlot
                                  THEN Put(t[i - 1], a[i], Cardinality(t[i - 1]))
                                  ELSE t[i - 1]
    BY <1>2, NumberedFacts
  <2>2. s = t[n]  BY <1>5 DEF Slots
  <2> HIDE DEF t, s
  <2>3. 0 \in T
    <3>1. ASSUME NEW e \in first  PROVE Source(e)
      <4>1. PICK k \in 0..p.parameters - 1 : e = <<k, k>>  OBVIOUS
      <4>2. PICK j \in 1..n : ~IsNative(uses[j]) /\ a[j] = k  BY <1>2
      <4> QED  BY <4>1, <4>2
    <3>2. 1..0 = {}  OBVIOUS
    <3> HIDE DEF first, Source
    <3> QED  BY <2>1, <3>1, <3>2
  <2>4. ASSUME NEW k \in Nat, k \in T  PROVE k + 1 \in T
    <3> SUFFICES ASSUME k + 1 <= n  PROVE Good(k + 1)
      OBVIOUS
    <3>1. PICK i \in 1..n : i = k + 1  BY <1>1
    <3>2. i - 1 = k /\ k \in 0..n /\ i \in Nat /\ \A j \in 1..i : j = i \/ j \in 1..k
      BY <1>1, <3>1
    <3>3. Good(k)
      <4> HIDE DEF Good
      <4> QED  BY <1>1, <2>4, <3>1
    <3>4. t[k] \in Numberings  BY <2>1, <3>2
    <3>5. Keyed(t[k])  BY <3>4 DEF Numberings
    <3>6. Good(i)
      <4>1. CASE uses[i].style = "number" /\ a[i] # NoSlot
        <5>0. t[i] = Put(t[k], a[i], Cardinality(t[k]))
          <6> HIDE DEF n, first
          <6> QED  BY <2>1, <3>2, <4>1
        <5>1. /\ Has(t[i], a[i])
              /\ \A e \in t[i] : e \in t[k] \/ e = <<a[i], Cardinality(t[k])>>
          BY <3>5, <5>0, PutKeyed
        <5>2. t[k] \subseteq t[i]  BY <5>0 DEF Put
        <5>3. \A z : Has(t[k], z) => Has(t[i], z)  BY <5>2 DEF Has
        <5>4. IsNative(uses[i]) /\ Given(i)
          <6>1. IsNative(uses[i])  BY <4>1 DEF IsNative
          <6> QED  BY <1>2, <4>1, <6>1
        <5>5. ASSUME NEW e \in t[i]  PROVE Source(e)
          <6>1. CASE e \in t[k]
            <7> HIDE DEF Source, first
            <7> QED  BY <3>3, <6>1
          <6>2. CASE e = <<a[i], Cardinality(t[k])>>
            <7>1. e[1] = a[i]  BY <6>2
            <7> QED  BY <5>4, <7>1
          <6> QED  BY <5>1, <6>1, <6>2
        <5>6. \A j \in 1..i : uses[j].style = "number" /\ Given(j) => Has(t[i], a[j])
          <6> HIDE DEF Source, first
          <6> QED  BY <3>2, <3>3, <5>1, <5>3
        <5> HIDE DEF Source, first
        <5> QED  BY <3>3, <5>2, <5>5, <5>6
      <4>2. CASE ~(uses[i].style = "number" /\ a[i] # NoSlot)
        <5>1. t[i] = t[k]
          <6> HIDE DEF n, first
          <6> QED  BY <2>1, <3>2, <4>2
        <5>2. ~(uses[i].style = "number" /\ Given(i))
          <6> SUFFICES ASSUME uses[i].style = "number", Given(i)  PROVE FALSE
            OBVIOUS
          <6>1. IsNative(uses[i])  BY DEF IsNative
          <6>2. a[i] \in Nat  BY <1>2, <6>1
          <6> QED  BY <4>2, <6>2, PlacementsAssumption
        <5> HIDE DEF Source, first
        <5> QED  BY <3>2, <3>3, <5>1, <5>2
      <4> QED  BY <4>1, <4>2
    <3> QED  BY <3>1, <3>6
  <2>5. \A k \in Nat : k \in T
    <3> HIDE DEF T
    <3> QED  BY <2>3, <2>4, Induction
  <2>6. Good(n)
    <3> HIDE DEF Good
    <3> QED  BY <1>1, <2>5
  <2>7. \A k \in 0..p.parameters - 1 : <<k, k>> \in first  OBVIOUS
  <2>8. t[n] \in Numberings
    <3> HIDE DEF first
    <3> QED  BY <1>1, <2>1
  <2>9. \A i \in 1..n : uses[i].style = "dollar" \/ uses[i].style = "number" \/
                        ~IsNative(uses[i])
    BY DEF IsNative
  <2>10. /\ \A k \in 0..p.parameters - 1 : <<k, k>> \in s
         /\ \A e \in s : Source(e)
    <3> HIDE DEF Source, first
    <3> QED  BY <2>2, <2>6, <2>7
  <2>11. \A i \in 1..n : uses[i].style = "number" /\ Given(i) => Has(s, a[i])
    <3> HIDE DEF Source, first
    <3> QED  BY <2>2, <2>6
  <2>12. s \in Numberings  BY <2>2, <2>8
  <2> QED  BY <1>5, <2>9, <2>10, <2>11, <2>12 DEF s
<1> QED  BY <1>4, <1>5

\* What was read of the whole text is a plan.
LEMMA ReadTyped ==
  ASSUME TypedText
  PROVE  Reading[Len(uses)] \in Plans
<1>1. Len(uses) \in 0..Len(uses)  BY DEF TypedText
<1>2. Reading \in [0..Len(uses) -> Plans]  BY ReadingFacts
<1> QED  BY <1>1, <1>2

\* SlotsFitTheArray holds of every text.
LEMMA SlotsFit ==
  ASSUME TypedText
  PROVE  SlotsFitTheArray
<1> DEFINE positions == Plan.positions
           values == {e[2] : e \in positions}
<1>0. PICK p \in Plans : p = Reading[Len(uses)]
  <2>1. Reading[Len(uses)] \in Plans  BY ReadTyped
  <2> QED  BY <2>1
<1>1. /\ p \in Plans /\ (p.mixed \/ Kept(p, Len(uses)))
      /\ Plan.mixed = p.mixed /\ Plan.indices = p.indices
      /\ Plan.parameters = p.parameters
      /\ positions = IF p.mixed THEN {} ELSE Slots(p, uses)
  BY <1>0, PlanFacts
<1>2. positions \in Numberings
  <2>1. CASE p.mixed  BY <1>1, <2>1, NoEntries
  <2>2. CASE ~p.mixed
    <3>1. Slots(p, uses) \in Numberings  BY <1>1, <2>2, SlotsFacts
    <3> QED  BY <1>1, <2>2, <3>1
  <2> QED  BY <2>1, <2>2
<1>3. values = 0..BindingCount - 1  BY <1>2 DEF Numberings, BindingCount
<1>4. ASSUME ~Plan.mixed, NEW i \in 1..Len(uses)
      PROVE  RenderSlot(i) \in values \cup {NoSlot}
  <2>1. \A k : BindingSlot(k) \in values \cup {NoSlot}
    <3> SUFFICES ASSUME NEW k, Has(positions, k)
                 PROVE  Get(positions, k) \in values
      BY DEF BindingSlot
    <3>1. PICK e \in positions : e[1] = k /\ e[2] = Get(positions, k)
      BY GetFacts
    <3> QED  BY <3>1
  <2>2. CASE ~IsNative(uses[i])
    <3>1. RenderSlot(i) = p.indices[i]
      <4>1. uses[i].style # "dollar"  BY <2>2 DEF IsNative
      <4>2. RenderSlot(i) = Plan.indices[i]  BY <2>2, <4>1 DEF RenderSlot
      <4> QED  BY <1>1, <4>2
    <3>2. Kept(p, Len(uses)) /\ ~p.mixed  BY <1>1, <1>4
    <3>3. p.indices[i] \in 0..p.parameters - 1  BY <2>2, <3>2 DEF Kept, Indexed
    <3>4. PICK k \in 0..p.parameters - 1 : k = p.indices[i]  BY <3>3
    <3>5. <<k, k>> \in positions  BY <1>1, <3>2, SlotsFacts
    <3>6. <<k, k>>[2] = k  OBVIOUS
    <3>7. k \in values  BY <3>5, <3>6
    <3> QED  BY <3>1, <3>4, <3>7
  <2>3. CASE IsNative(uses[i])
    <3>1. RenderSlot(i) = NoSlot \/ RenderSlot(i) = BindingSlot(Plan.indices[i])
      <4> HIDE DEF values, positions
      <4> QED  BY <2>3 DEF RenderSlot
    <3> HIDE DEF values, positions
    <3> QED  BY <2>1, <3>1
  <2> QED  BY <2>2, <2>3
<1> QED  BY <1>3, <1>4 DEF SlotsFitTheArray

\* A table with the keys 0..c - 1 has c entries.
LEMMA KeysCounted ==
  ASSUME NEW t \in Numberings, NEW S, IsFiniteSet(S), {e[1] : e \in t} = S
  PROVE  Cardinality(t) = Cardinality(S)
<1> DEFINE f == [e \in t |-> e[1]]
<1>1. IsFiniteSet(t) /\ Keyed(t)  BY DEF Numberings
<1>2. f \in Bijection(t, S)
  <2>1. f \in [t -> S] /\ \A s \in S : \E e \in t : f[e] = s  OBVIOUS
  <2>2. \A e, g \in t : f[e] = f[g] => e = g  BY <1>1 DEF Keyed
  <2> HIDE DEF f
  <2> QED  BY <2>1, <2>2 DEF Bijection, Injection, Surjection, IsInjective
<1>3. ExistsBijection(t, S)  BY <1>2 DEF ExistsBijection
<1> QED  BY <1>1, <1>3, FS_Bijection

\* The largest element of a set.
LEMMA LargestIs ==
  ASSUME NEW S, NEW m \in S, m \in Nat, \A x \in S : x \in Nat /\ x <= m
  PROVE  Max(S) = m
<1>1. \E x \in S : \A y \in S : x >= y  OBVIOUS
<1>2. Max(S) \in S /\ \A y \in S : Max(S) >= y  BY <1>1 DEF Max
<1>3. Max(S) \in Nat /\ Max(S) <= m /\ Max(S) >= m  BY <1>2
<1> QED  BY <1>3


\* A statement whose placeholders are all $names, or none, and where no $0 is
\* refused.
OneKind ==
    /\ ~Plan.mixed
    /\ \/ \A i \in 1..Len(uses) : uses[i].style = "dollar"
       \/ \A i \in 1..Len(uses) : uses[i].style # "dollar"
    /\ \A i \in 1..Len(uses) : Given(i)

\* DuckDB's number of a placeholder, given those before.
NumberOf(number, i) ==
    LET same == {j \in 1..i - 1 : uses[j].style = "dollar"
                                  /\ uses[j].name = uses[i].name}
        taken == {number[j] : j \in 1..i - 1}
    IN CASE ~IsNative(uses[i]) -> Plan.indices[i] + 1
         [] uses[i].style = "dollar" /\ same # {} -> number[Min(same)]
         [] uses[i].style = "number" /\ uses[i].name # 0 -> uses[i].name
         [] OTHER -> Max(taken \cup {0}) + 1

\* The indices of such a statement are positions.
LEMMA IndexFacts ==
  ASSUME TypedText, OneKind
  PROVE  LET p == Reading[Len(uses)]
         IN /\ p \in Plans /\ ~p.mixed /\ Kept(p, Len(uses)) /\ Len(uses) \in Nat
            /\ Plan.indices = p.indices /\ Plan.parameters = p.parameters
            /\ Plan.positions = Slots(p, uses)
            /\ \A i \in 1..Len(uses) : p.indices[i] \in Nat /\ uses[i] \in Placements
<1>0. PICK p \in Plans : p = Reading[Len(uses)]
  <2>1. Reading[Len(uses)] \in Plans  BY ReadTyped
  <2> QED  BY <2>1
<1>1. /\ p \in Plans /\ (p.mixed \/ Kept(p, Len(uses)))
      /\ Plan.mixed = p.mixed /\ Plan.indices = p.indices
      /\ Plan.parameters = p.parameters
      /\ Plan.positions = IF p.mixed THEN {} ELSE Slots(p, uses)
  BY <1>0, PlanFacts
<1>2. Len(uses) \in Nat /\ \A i \in 1..Len(uses) : uses[i] \in Placements
  BY ElementOfSeq DEF TypedText
<1>3. ~p.mixed /\ Kept(p, Len(uses))  BY <1>1 DEF OneKind
<1>4. \A i \in 1..Len(uses) : p.indices[i] \in Nat
  BY <1>3 DEF OneKind, Kept, Indexed, Given
<1> QED  BY <1>0, <1>1, <1>2, <1>3, <1>4

\* The index of a placeholder is DuckDB's number for it, counted from 0.
LEMMA NumberIsIndex ==
  ASSUME TypedText, OneKind, NEW i \in 1..Len(uses), NEW number,
         \A j \in 1..i - 1 : number[j] = Plan.indices[j] + 1
  PROVE  NumberOf(number, i) = Plan.indices[i] + 1
<1> DEFINE p == Reading[Len(uses)]
           n == Len(uses)
           a == p.indices
           use == uses[i]
           same == {j \in 1..i - 1 : uses[j].style = "dollar" /\ uses[j].name = use.name}
           taken == {number[j] : j \in 1..i - 1}
<1>1. /\ p \in Plans /\ ~p.mixed /\ Kept(p, n) /\ n \in Nat
      /\ Plan.indices = a
      /\ \A j \in 1..n : a[j] \in Nat /\ uses[j] \in Placements
  BY IndexFacts
<1> HIDE DEF p
<1>2. \A j \in 1..i - 1 : j \in 1..n /\ j < i /\ number[j] = a[j] + 1
  BY <1>1
<1>3. \A j \in 1..n : Given(j)  BY DEF OneKind
<1>4. ASSUME NextFree(a, i)
      PROVE  Max(taken \cup {0}) = a[i]
  <2>1. \A x \in taken \cup {0} : x \in Nat /\ x <= a[i]
    <3> SUFFICES ASSUME NEW j \in 1..i - 1
                 PROVE  number[j] \in Nat /\ number[j] <= a[i]
      BY SMTT(30), <1>1
    <3>1. a[j] \in Nat /\ a[j] < a[i]  BY <1>2, <1>3, <1>4 DEF NextFree
    <3> QED  BY <1>1, <1>2, <3>1
  <2>2. a[i] \in taken \cup {0}
    <3>1. CASE a[i] = 0  BY <3>1
    <3>2. CASE a[i] # 0
      <4>1. PICK k \in 1..i - 1 : a[i] = a[k] + 1  BY <1>4, <3>2 DEF NextFree
      <4> QED  BY <1>2, <4>1
    <3> QED  BY <3>1, <3>2
  <2> HIDE DEF taken, a
  <2> QED  BY <1>1, <2>1, <2>2, LargestIs
<1>5. CASE ~IsNative(use)
  BY <1>1, <1>5 DEF NumberOf, IsNative
<1>6. CASE use.style = "dollar"
  <2>1. \A j \in 1..n : uses[j].style = "dollar"  BY <1>6 DEF OneKind
  <2>2. IsNative(use) /\ use.style # "number"  BY <1>6 DEF IsNative
  <2>3. CASE same # {}
    <3>1. NumberOf(number, i) = number[Min(same)]
      BY <1>6, <2>2, <2>3 DEF NumberOf
    <3>2. Min(same) \in same
      <4>1. same \in SUBSET Nat  BY <1>1
      <4> HIDE DEF same
      <4> QED  BY <2>3, <4>1, LeastIn
    <3>3. PICK j \in 1..i - 1 : j = Min(same) /\ uses[j].name = use.name  BY <3>2
    <3>4. j \in 1..n /\ number[j] = a[j] + 1  BY <1>2
    <3>5. NativeKey(uses[j]) = <<use.name>> /\ NativeKey(use) = <<use.name>>
      BY <1>6, <2>1, <3>3, <3>4 DEF NativeKey
    <3>6. \A k \in 1..n : IsNative(uses[k]) /\ ~Anonymous(uses[k])
      BY <1>1, <2>1, NativeOrNot
    <3>7. /\ <<NativeKey(uses[j]), a[j]>> \in p.nativeNames
          /\ <<NativeKey(use), a[i]>> \in p.nativeNames
          /\ Keyed(p.nativeNames)
      BY <1>1, <3>4, <3>6 DEF Kept, NumbersKept
    <3>8. a[j] = a[i]
      <4> DEFINE e == <<NativeKey(uses[j]), a[j]>>
                 f == <<NativeKey(use), a[i]>>
      <4>1. e[1] = NativeKey(uses[j]) /\ e[2] = a[j] /\ f[1] = NativeKey(use) /\ f[2] = a[i]
        OBVIOUS
      <4>2. e \in p.nativeNames /\ f \in p.nativeNames  BY <3>7
      <4> HIDE DEF e, f
      <4>3. e = f  BY <3>5, <3>7, <4>1, <4>2 DEF Keyed
      <4> QED  BY <4>1, <4>3
    <3> QED  BY <1>1, <3>1, <3>3, <3>4, <3>8
  <2>4. CASE same = {}
    <3>1. \A k \in 1..i - 1 : uses[k].name # use.name  BY <1>2, <2>1, <2>4
    <3>2. NextFree(a, i)  BY <1>1, <2>1, <3>1 DEF Kept, DollarsKept
    <3>3. NumberOf(number, i) = Max(taken \cup {0}) + 1
      BY <1>6, <2>2, <2>4, Zenon DEF NumberOf
    <3> QED  BY <1>1, <1>4, <3>2, <3>3
  <2> QED  BY <2>3, <2>4
<1>7. CASE use.style = "number" /\ use.name # 0
  <2>1. a[i] = use.name - 1  BY <1>1, <1>7 DEF Kept, NumbersKept
  <2>2. NumberOf(number, i) = use.name  BY <1>7 DEF NumberOf, IsNative
  <2>3. use.name \in Nat  BY <1>1, <1>7, NativeOrNot
  <2> QED  BY <1>1, <2>1, <2>2, <2>3
<1>8. CASE use.style = "number" /\ use.name = 0
  <2>1. Anonymous(use)  BY <1>8 DEF Anonymous
  <2>2. NextFree(a, i)  BY <1>1, <1>3, <2>1 DEF Kept, NextKept
  <2>3. IsNative(use) /\ use.style # "dollar"  BY <1>8 DEF IsNative
  <2>4. NumberOf(number, i) = Max(taken \cup {0}) + 1
    BY <1>8, <2>3, Zenon DEF NumberOf
  <2> QED  BY <1>1, <1>4, <2>2, <2>4
<1> QED  BY <1>5, <1>6, <1>7, <1>8 DEF IsNative

\* So are all of them, by induction over the text.
LEMMA DuckNumbersFacts ==
  ASSUME TypedText, OneKind
  PROVE  \A i \in 1..Len(uses) : DuckNumbers[i] = Plan.indices[i] + 1
<1> DEFINE n == Len(uses)
           a == Plan.indices
           P(number) == number = [i \in 1..Len(uses) |->
             LET same == {j \in 1..i - 1 : uses[j].style = "dollar"
                                           /\ uses[j].name = uses[i].name}
                 taken == {number[j] : j \in 1..i - 1}
             IN CASE ~IsNative(uses[i]) -> Plan.indices[i] + 1
                  [] uses[i].style = "dollar" /\ same # {} -> number[Min(same)]
                  [] uses[i].style = "number" /\ uses[i].name # 0 -> uses[i].name
                  [] OTHER -> Max(taken \cup {0}) + 1]
           f == [i \in 1..n |-> a[i] + 1]
           g == CHOOSE number : P(number)
<1>1. n \in Nat  BY DEF TypedText
<1>2. \A h : P(h) <=> h = [i \in 1..n |-> NumberOf(h, i)]
  BY Zenon DEF NumberOf
<1>3. P(f)
  <2>1. ASSUME NEW i \in 1..n  PROVE NumberOf(f, i) = a[i] + 1
    <3>1. \A j \in 1..i - 1 : f[j] = a[j] + 1  BY <1>1
    <3> HIDE DEF f
    <3> QED  BY <3>1, NumberIsIndex
  <2>2. f = [i \in 1..n |-> NumberOf(f, i)]
    <3> HIDE DEF n, a
    <3> QED  BY <2>1
  <2> HIDE DEF P, f
  <2> QED  BY <1>2, <2>2
<1>4. P(g)  BY <1>3, Zenon
<1>5. DuckNumbers = g  BY Zenon DEF DuckNumbers
<1> HIDE DEF g
<1>6. g = [i \in 1..n |-> NumberOf(g, i)]
  <2> HIDE DEF P
  <2> QED  BY <1>2, <1>4
<1> HIDE DEF P, f
<1> DEFINE T == {k \in Nat : k \in 1..n => g[k] = a[k] + 1}
<1>7. ASSUME NEW k \in Nat, \A j \in Nat : j < k => j \in T  PROVE k \in T
  <2> SUFFICES ASSUME k \in 1..n  PROVE g[k] = a[k] + 1
    OBVIOUS
  <2>1. \A j \in 1..k - 1 : g[j] = a[j] + 1  BY <1>1, <1>7
  <2>2. g[k] = NumberOf(g, k)
    <3> HIDE DEF n
    <3> QED  BY <1>6
  <2>3. NumberOf(g, k) = a[k] + 1  BY <2>1, NumberIsIndex
  <2> QED  BY <2>2, <2>3
<1>8. \A k \in Nat : k \in T
  <2> HIDE DEF T
  <2> QED  BY <1>7, StrongInduction
<1> HIDE DEF a
<1> QED  BY <1>1, <1>5, <1>8 DEF a


\* DuckDB binds as many values as the array has, and finds each placeholder's.
LEMMA AcceptedSlots ==
  ASSUME TypedText, Accepted
  PROVE  /\ OneKind
         /\ \A i \in 1..Len(uses) :
               /\ Plan.indices[i] < BindingCount
               /\ Has(Plan.positions, Plan.indices[i])
               /\ RenderSlot(i) = BindingSlot(Plan.indices[i])
               /\ RenderSlot(i) \in Nat
               /\ ~IsNative(uses[i]) => RenderSlot(i) = Plan.indices[i]
<1> DEFINE n == Len(uses)
           a == Plan.indices
           s == Plan.positions
           numbers == {DuckNumbers[i] : i \in 1..n}
<1>1. /\ ~Plan.mixed
      /\ {i \in 1..n : uses[i].style # "dollar"} \in {{}, 1..n}
      /\ \A i \in 1..n : uses[i].style # "dollar" => legacy \/ ~Anonymous(uses[i])
      /\ numbers = 1..Cardinality(numbers)
  BY DEF Accepted
<1>2. \A i \in 1..n : uses[i].style = "dollar" => ~Anonymous(uses[i])
  BY DEF Anonymous
<1>3. OneKind
  <2>1. \/ \A i \in 1..n : uses[i].style = "dollar"
        \/ \A i \in 1..n : uses[i].style # "dollar"
    BY <1>1
  <2> QED  BY <1>1, <1>2, <2>1 DEF OneKind, Given
<1>0. PICK p \in Plans : p = Reading[n]
  <2>1. Reading[n] \in Plans  BY ReadTyped
  <2> QED  BY <2>1
<1>4. /\ ~p.mixed /\ Kept(p, n) /\ n \in Nat
      /\ a = p.indices /\ Plan.parameters = p.parameters
      /\ s = Slots(p, uses)
      /\ \A i \in 1..n : a[i] \in Nat /\ uses[i] \in Placements
  BY <1>0, <1>3, IndexFacts
<1>5. \A i \in 1..n : DuckNumbers[i] = a[i] + 1  BY <1>3, DuckNumbersFacts
<1>6. /\ s \in Numberings
      /\ \A k \in 0..p.parameters - 1 : <<k, k>> \in s
      /\ \A e \in s : \E i \in 1..n :
            (IsNative(uses[i]) => Given(i)) /\ a[i] = e[1]
      /\ \A i \in 1..n : IsNative(uses[i]) /\ Given(i)
                         /\ (uses[i].style = "dollar" => p.parameters = 0)
            => Has(s, a[i])
  BY <1>4, SlotsFacts
<1>7. \A i \in 1..n : Given(i)  BY <1>3 DEF OneKind
<1>8. /\ \A i \in 1..n : ~IsNative(uses[i]) => a[i] \in 0..p.parameters - 1
      /\ \A k \in 0..p.parameters - 1 : \E j \in 1..n : ~IsNative(uses[j]) /\ a[j] = k
  BY <1>4 DEF Kept, Indexed
<1>9. ASSUME NEW i \in 1..n, uses[i].style = "dollar"
      PROVE  p.parameters = 0
  <2> SUFFICES ASSUME p.parameters # 0  PROVE FALSE
    OBVIOUS
  <2>1. p.parameters \in Nat  BY DEF Plans
  <2>2. 0 \in 0..p.parameters - 1  BY <2>1
  <2>3. PICK j \in 1..n : ~IsNative(uses[j])  BY <1>8, <2>2
  <2>4. uses[j].style # "dollar"  BY <2>3 DEF IsNative
  <2> QED  BY <1>3, <1>9, <2>4 DEF OneKind
<1>10. ASSUME NEW i \in 1..n, ~IsNative(uses[i])
       PROVE  <<a[i], a[i]>> \in s
  <2>1. PICK k \in 0..p.parameters - 1 : k = a[i]  BY <1>8, <1>10
  <2> QED  BY <1>6, <2>1
<1>11. \A i \in 1..n : Has(s, a[i])
  <2> SUFFICES ASSUME NEW i \in 1..n  PROVE Has(s, a[i])
    OBVIOUS
  <2>1. CASE IsNative(uses[i])  BY <1>6, <1>7, <1>9, <2>1
  <2>2. CASE ~IsNative(uses[i])
    <3>1. <<a[i], a[i]>> \in s  BY <1>10, <2>2
    <3>2. <<a[i], a[i]>>[1] = a[i]  OBVIOUS
    <3> QED  BY <3>1, <3>2 DEF Has
  <2> QED  BY <2>1, <2>2
\* The keys are the numbers, without a gap.
<1>12. PICK c : c = Cardinality(numbers)  OBVIOUS
<1>13. numbers = 1..c  BY <1>1, <1>12
<1>14. \A i \in 1..n : a[i] + 1 \in 1..c  BY <1>5, <1>13
<1> HIDE DEF a, s
<1>15. {e[1] : e \in s} = {a[i] : i \in 1..n}
  <2>1. \A e \in s : e[1] \in {a[i] : i \in 1..n}  BY <1>6
  <2>2. ASSUME NEW i \in 1..n  PROVE a[i] \in {e[1] : e \in s}
    <3>1. PICK e \in s : e[1] = a[i]  BY <1>11 DEF Has
    <3> QED  BY <3>1
  <2> QED  BY <2>1, <2>2
<1>16. IsFiniteSet(numbers) /\ c \in Nat
  <2>1. CASE n = 0
    <3>1. numbers = {}  BY <2>1
    <3>2. IsFiniteSet({}) /\ Cardinality({}) = 0  BY FS_EmptySet
    <3> HIDE DEF numbers
    <3> QED  BY <1>12, <3>1, <3>2
  <2>2. CASE n # 0
    <3>1. PICK i \in 1..n : TRUE  BY <1>4, <2>2
    <3>2. a[i] + 1 \in 1..c /\ a[i] \in Nat  BY <1>4, <1>14
    <3> DEFINE Image == {a[j] : j \in 1..n}
               h == [e \in s |-> e[1]]
    <3>3. IsFiniteSet(s)  BY <1>6 DEF Numberings
    <3>4. h \in Surjection(s, Image)
      <4>1. Image = {e[1] : e \in s}  BY <1>15
      <4>2. h \in [s -> Image] /\ \A y \in Image : \E e \in s : h[e] = y
        <5> HIDE DEF Image
        <5> QED  BY <4>1
      <4> QED  BY <4>2 DEF Surjection
    <3>5. IsFiniteSet(Image)  BY <3>3, <3>4, FS_Surjection
    <3> DEFINE up == [y \in Image |-> y + 1]
    <3>6. up \in Surjection(Image, numbers)
      <4>1. \A y \in Image : up[y] \in numbers  BY <1>5
      <4>2. \A z \in numbers : \E y \in Image : up[y] = z  BY <1>5
      <4>3. up \in [Image -> numbers]
        <5> HIDE DEF Image, numbers
        <5> QED  BY <4>1
      <4> QED  BY <4>2, <4>3 DEF Surjection
    <3>7. IsFiniteSet(numbers)  BY <3>5, <3>6, FS_Surjection
    <3> QED  BY <1>12, <3>7, FS_CardinalityType
  <2> QED  BY <2>1, <2>2
<1>17. {a[i] : i \in 1..n} = 0..c - 1
  <2>1. \A i \in 1..n : a[i] \in 0..c - 1
    <3> SUFFICES ASSUME NEW i \in 1..n  PROVE a[i] \in 0..c - 1
      OBVIOUS
    <3>1. a[i] \in Nat /\ a[i] + 1 \in 1..c  BY <1>4, <1>14
    <3> QED  BY <1>16, <3>1
  <2>2. ASSUME NEW k \in 0..c - 1  PROVE k \in {a[i] : i \in 1..n}
    <3>1. k + 1 \in numbers
      <4> HIDE DEF numbers
      <4> QED  BY <1>13, <1>16
    <3>2. PICK i \in 1..n : k + 1 = a[i] + 1  BY <1>5, <3>1
    <3>3. a[i] = k  BY <1>4, <1>16, <3>2
    <3> QED  BY <3>3
  <2> QED  BY <2>1, <2>2
<1>18. BindingCount = c
  <2>1. IsFiniteSet(0..c - 1) /\ Cardinality(0..c - 1) = c
    BY <1>16, FS_Interval
  <2>2. {e[1] : e \in s} = 0..c - 1  BY <1>15, <1>17
  <2> HIDE DEF numbers
  <2>3. Cardinality(s) = Cardinality(0..c - 1)  BY <1>6, <2>1, <2>2, KeysCounted
  <2> QED  BY <2>1, <2>3 DEF BindingCount, s
<1>19. ASSUME NEW i \in 1..n
       PROVE  /\ a[i] < BindingCount /\ BindingSlot(a[i]) = Get(s, a[i])
              /\ Get(s, a[i]) \in Nat
              /\ ~IsNative(uses[i]) => Get(s, a[i]) = a[i]
  <2>1. a[i] < c
    <3>1. a[i] \in Nat /\ a[i] + 1 \in 1..c  BY <1>4, <1>14
    <3> QED  BY <1>16, <3>1
  <2>2. BindingSlot(a[i]) = Get(s, a[i])  BY <1>11, <1>18, <2>1 DEF BindingSlot, s
  <2>3. Get(s, a[i]) \in Nat
    <3>1. s \in SUBSET (Nat \X Nat)  BY <1>6 DEF Numberings
    <3> DEFINE K == Nat
    <3>2. s \in SUBSET (K \X Nat)  BY <3>1
    <3> HIDE DEF K
    <3> QED  BY <1>11, <3>2, GetTyped
  <2>4. ~IsNative(uses[i]) => Get(s, a[i]) = a[i]
    <3> SUFFICES ASSUME ~IsNative(uses[i])  PROVE Get(s, a[i]) = a[i]
      OBVIOUS
    <3> DEFINE e == <<a[i], a[i]>>
    <3>1. e \in s /\ Keyed(s) /\ e[1] = a[i] /\ e[2] = a[i]
      BY <1>6, <1>10 DEF Numberings
    <3> HIDE DEF e
    <3>2. Get(s, e[1]) = e[2]  BY <3>1, GetOfEntry
    <3> QED  BY <3>1, <3>2
  <2> QED  BY <1>18, <2>1, <2>2, <2>3, <2>4
<1>20. ASSUME NEW i \in 1..n
       PROVE  /\ RenderSlot(i) = BindingSlot(a[i])
              /\ ~IsNative(uses[i]) => RenderSlot(i) = a[i]
  <2>1. CASE ~IsNative(uses[i])
    <3>1. uses[i].style # "dollar"  BY <2>1 DEF IsNative
    <3>2. RenderSlot(i) = a[i]  BY <2>1, <3>1 DEF RenderSlot, a
    <3> QED  BY <1>19, <2>1, <3>2
  <2>2. CASE IsNative(uses[i])
    <3>1. a[i] # NoSlot /\ ~(uses[i].style = "dollar" /\ Plan.parameters > 0)
      <4>1. a[i] # NoSlot  BY <1>4, PlacementsAssumption
      <4>2. uses[i].style = "dollar" => Plan.parameters = 0  BY <1>4, <1>9
      <4> QED  BY <4>1, <4>2
    <3>2. RenderSlot(i) = BindingSlot(a[i])  BY <2>2, <3>1 DEF RenderSlot, a
    <3> QED  BY <2>2, <3>2
  <2> QED  BY <2>1, <2>2
<1>21. \A i \in 1..n : /\ a[i] < BindingCount /\ Has(s, a[i])
                       /\ RenderSlot(i) = BindingSlot(a[i])
                       /\ RenderSlot(i) \in Nat
                       /\ ~IsNative(uses[i]) => RenderSlot(i) = a[i]
  BY <1>11, <1>19, <1>20
<1> QED  BY <1>3, <1>21 DEF a, s

\* ExpansionBindsAlike holds of every text.
LEMMA BindsAlike ==
  ASSUME TypedText
  PROVE  ExpansionBindsAlike
<1> SUFFICES ASSUME Accepted
             PROVE  /\ \A i \in 1..Len(uses) :
                          /\ RenderSlot(i) # NoSlot
                          /\ RenderSlot(i) = BindingSlot(DuckNumbers[i] - 1)
                    /\ \A i, j \in {k \in 1..Len(uses) : ~IsNative(uses[k])} :
                          RenderSlot(i) = RenderSlot(j) <=>
                              \/ i = j
                              \/ /\ uses[i].style = "named"
                                 /\ PdoKey(uses[i]) = PdoKey(uses[j])
  BY DEF ExpansionBindsAlike
<1>1. OneKind  BY AcceptedSlots
<1>2. ASSUME NEW i \in 1..Len(uses)
      PROVE  /\ RenderSlot(i) # NoSlot
             /\ RenderSlot(i) = BindingSlot(DuckNumbers[i] - 1)
  <2>1. RenderSlot(i) \in Nat /\ RenderSlot(i) = BindingSlot(Plan.indices[i])
    BY AcceptedSlots
  <2>2. DuckNumbers[i] = Plan.indices[i] + 1  BY <1>1, DuckNumbersFacts
  <2>3. Plan.indices[i] \in Nat  BY <1>1, IndexFacts
  <2>4. DuckNumbers[i] - 1 = Plan.indices[i]  BY <2>2, <2>3
  <2> QED  BY <2>1, <2>4, PlacementsAssumption
<1>3. ASSUME NEW i \in 1..Len(uses), NEW j \in 1..Len(uses),
             ~IsNative(uses[i]), ~IsNative(uses[j])
      PROVE  RenderSlot(i) = RenderSlot(j) <=>
                \/ i = j
                \/ uses[i].style = "named" /\ PdoKey(uses[i]) = PdoKey(uses[j])
  <2>1. RenderSlot(i) = Plan.indices[i] /\ RenderSlot(j) = Plan.indices[j]
    BY <1>3, AcceptedSlots
  <2>2. PICK p \in Plans : p = Reading[Len(uses)]
    <3>1. Reading[Len(uses)] \in Plans  BY ReadTyped
    <3> QED  BY <3>1
  <2>3. Kept(p, Len(uses)) /\ Plan.indices = p.indices  BY <1>1, <2>2, IndexFacts
  <2>4. p.indices[i] = p.indices[j] <=>
           \/ i = j
           \/ uses[i].style = "named" /\ PdoKey(uses[i]) = PdoKey(uses[j])
    BY <1>3, <2>3 DEF Kept, NamesKept
  <2> QED  BY <2>1, <2>3, <2>4
<1> QED  BY <1>2, <1>3

\* A text is a sequence of the placeholders there are.
LEMMA TextTyped == PlanSpec => []TypedText
<1>1. InitPlan => TypedText  BY DEF InitPlan, TypedText
<1>2. TypedText /\ [\E use \in Placements : AddToText(use)]_planVars => TypedText'
  BY DEF TypedText, AddToText, planVars
<1> QED  BY <1>1, <1>2, PTL DEF PlanSpec

\* Whatever placeholders a text mixes, every slot is inside the value array and
\* no two positions share one (pdo_duckdb_sql.c:419, duckdb_driver.c:583).
THEOREM SlotsAlwaysFit == PlanSpec => []SlotsFitTheArray
<1>1. TypedText => SlotsFitTheArray  BY SlotsFit
<1> QED  BY <1>1, TextTyped, PTL

\* A statement DuckDB accepts gets the same values from the expanded text as
\* from DuckDB (pdo_duckdb_sql.c:479, duckdb_statement.c:3274).
THEOREM ExpansionAlwaysBindsAlike == PlanSpec => []ExpansionBindsAlike
<1>1. TypedText => ExpansionBindsAlike  BY BindsAlike
<1> QED  BY <1>1, TextTyped, PTL

=============================================================================
