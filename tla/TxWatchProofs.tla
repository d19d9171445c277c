--------------------------- MODULE TxWatchProofs ---------------------------
(***************************************************************************)
(* The invariant of TxWatch, for any number of clients and keys.  First    *)
(* the control part: types, the operation lock, and the arguments and      *)
(* loops of the handlers.  Then the watcher count and the versions: the    *)
(* count is the number of watches, a watched key does not change           *)
(* unnoticed, EXEC loses no update, and versions do not outlive the        *)
(* watches.                                                                *)
(***************************************************************************)
EXTENDS TxWatch, FiniteSetTheorems, TLAPS

-----------------------------------------------------------------------------
(* The control part.                                                       *)

(* Leaving a command keeps the lock and the control state in their types. *)
LEMMA ReturnType ==
  ASSUME TypeOK, NEW c \in Clients, Return(c), todo' = todo
  PROVE  LockType' /\ ControlType'
<1>1. CASE InTxExecution(c)
  BY Zenon, <1>1, Return(c), TypeOK
  DEF Return, Goto, lock, TypeOK, LockType, ControlType, PCs
<1>2. CASE ~InTxExecution(c)
  BY Zenon, <1>2, Return(c), TypeOK
  DEF Return, Goto, Forget, EndOp, TypeOK, LockType, ControlType, PCs, OpNames
<1> QED
  BY Zenon, <1>1, <1>2

(* So does entering one. *)
LEMMA DispatchType ==
  ASSUME ControlType, NEW c \in Clients, NEW m \in Commands, Dispatch(c, m)
  PROVE  ControlType'
<1>1. m.op \in OpNames /\ m.key \in Keys /\ m.other \in Keys
  BY Zenon DEF Commands, OpNames
<1>2. KeysOf(m) \in SUBSET Keys
  BY Zenon, <1>1 DEF KeysOf
<1> QED
  BY Zenon, <1>1, <1>2 DEF ControlType, Dispatch, Goto, PCs

(* Every step keeps the variables in their types. *)
LEMMA TypeStep ==
  ASSUME TypeOK, CommandInv, Next
  PROVE  TypeOK'
<1> USE ConstantsAssumption DEF db, lock, tx, watch, at
<1>1. ASSUME NEW c \in Clients, ClientStep(c)
      PROVE  TypeOK'
  <2>1. CASE \E K \in (SUBSET Keys) \ {{}} : Watch(c, K)
    BY SMTT(30), TypeOK, <2>1 DEF TypeOK, StoreType, LockType, TxType,
        WatchType, ControlType, PCs, OpNames, Watch, BeginOp, Goto
  <2>2. CASE \E k \in Keys : WatchAdd(c, k)
    <3> SUFFICES ASSUME NEW k \in Keys, WatchAdd(c, k)
                 PROVE  TypeOK'
      BY Zenon, <2>2
    <3>1. LockType' /\ TxType' /\ WatchType'
      BY Zenon, WatchAdd(c, k), TypeOK DEF TypeOK, LockType, TxType, WatchType, WatchAdd
    <3>2. StoreType'
      BY WatchAdd(c, k), TypeOK DEF TypeOK, StoreType, WatchAdd, WatchType
    <3>3. ControlType'
      BY WatchAdd(c, k), TypeOK DEF TypeOK, ControlType, WatchAdd, PCs, Visit, Goto
    <3> QED
      BY Zenon, <3>1, <3>2, <3>3 DEF TypeOK
  <2>3. CASE WatchGet(c)
    <3>1. StoreType' /\ TxType' /\ WatchType'
      BY SMTT(30), <2>3, TypeOK, CommandInv
        DEF TypeOK, CommandInv, StoreType, TxType, WatchType, WatchGet
    <3>2. CASE todo[c] = {}
      <4> LockType' /\ ControlType'
        BY Zenon, <2>3, <3>2, TypeOK, ReturnType DEF WatchGet
      <4> QED
        BY Zenon, <3>1 DEF TypeOK
    <3>3. CASE ~(todo[c] = {})
      <4> LockType' /\ ControlType'
        BY Zenon, <2>3, <3>3, TypeOK DEF TypeOK, LockType, ControlType, PCs, WatchGet, Goto
      <4> QED
        BY ZenonT(40), <3>1 DEF TypeOK
    <3> QED
      BY Zenon, <3>2, <3>3
  <2>4. CASE Multi(c)
    BY TypeOK, <2>4 DEF TypeOK, StoreType, LockType, TxType,
        WatchType, ControlType, PCs, OpNames, Multi
  <2>5. CASE EnqueueError(c)
    BY Zenon, TypeOK, <2>5 DEF TypeOK, StoreType, LockType, TxType,
        WatchType, ControlType, PCs, OpNames, EnqueueError
  <2>6. CASE EnqueueDenied(c)
    BY Zenon, TypeOK, <2>6 DEF TypeOK, StoreType, LockType, TxType,
        WatchType, ControlType, PCs, OpNames, EnqueueDenied
  <2>7. CASE \E m \in Commands : Enqueue(c, m)
    BY SMTT(30), TypeOK, <2>7 DEF TypeOK, StoreType, LockType, TxType,
        WatchType, ControlType, PCs, OpNames, Enqueue, Spend
  <2>8. CASE \E m \in Commands : Call(c, m)
    <3> SUFFICES ASSUME NEW m \in Commands, Call(c, m)
                 PROVE  TypeOK'
      BY Zenon, <2>8
    <3>1. StoreType' /\ LockType' /\ TxType' /\ WatchType'
      BY Call(c, m), TypeOK
      DEF TypeOK, StoreType, LockType, TxType, WatchType, Call, Spend, BeginOp
    <3>2. ControlType'
      BY Zenon, Call(c, m), TypeOK, DispatchType DEF TypeOK, Call
    <3> QED
      BY Zenon, <3>1, <3>2 DEF TypeOK
  <2>9. CASE \E k \in Keys : Create(c, k)
    <3> SUFFICES ASSUME NEW k \in Keys, Create(c, k)
                 PROVE  TypeOK'
      BY ZenonT(40), <2>9
    <3>1. LockType' /\ TxType' /\ WatchType' /\ ControlType'
      BY ZenonT(30), Create(c, k), TypeOK
        DEF TypeOK, LockType, TxType, WatchType, ControlType, Create, at
    <3>2. StoreType'
      BY Create(c, k), TypeOK DEF TypeOK, StoreType, Create, SetKey, Store, bumpVersion
    <3> QED
      BY Zenon, <3>1, <3>2 DEF TypeOK
  <2>10. CASE \E k \in Keys : Body(c, k)
    <3>1. LockType' /\ TxType' /\ WatchType' /\ ControlType'
      BY SMTT(30), <2>10, TypeOK DEF TypeOK, LockType, TxType, WatchType, ControlType, Body, Visit
    <3>2. StoreType'
      BY <2>10, TypeOK
      DEF TypeOK, StoreType, Body, SetKey, DelKey, ChangeKey, FlushShard, Store,
          Remove, bumpVersion
    <3> QED
      BY Zenon, <3>1, <3>2 DEF TypeOK
  <2>11. CASE BodyDone(c)
    <3>1. StoreType' /\ TxType' /\ WatchType'
      BY Zenon, <2>11, TypeOK DEF TypeOK, StoreType, TxType, WatchType, BodyDone
    <3>2. CASE op[c] = "flush"
      <4>1. todo' = todo
        BY Zenon, <2>11, <3>2, TypeOK DEF TypeOK, ControlType, BodyDone
      <4> LockType' /\ ControlType'
        BY Zenon, <2>11, <3>2, <4>1, TypeOK, ReturnType DEF BodyDone
      <4> QED
        BY ZenonT(40), <3>1 DEF TypeOK
    <3>3. CASE ~(op[c] = "flush")
      <4> LockType' /\ ControlType'
        BY Zenon, <2>11, <3>3, TypeOK DEF TypeOK, LockType, ControlType, PCs, BodyDone, Goto
      <4> QED
        BY ZenonT(40), <3>1 DEF TypeOK
    <3> QED
      BY Zenon, <3>2, <3>3
  <2>12. CASE Touch(c)
    <3>1. StoreType' /\ TxType' /\ WatchType'
      BY Zenon, <2>12, TypeOK DEF TypeOK, StoreType, TxType, WatchType, Touch
    <3>2. CASE watchers = 0
      <4> LockType' /\ ControlType'
        BY Zenon, <2>12, <3>2, TypeOK, ReturnType DEF Touch
      <4> QED
        BY ZenonT(40), <3>1 DEF TypeOK
    <3>3. CASE ~(watchers = 0)
      <4> LockType' /\ ControlType'
        BY Zenon, <2>12, <3>3, TypeOK DEF TypeOK, LockType, ControlType, PCs, Touch, Goto
      <4> QED
        BY ZenonT(40), <3>1 DEF TypeOK
    <3> QED
      BY Zenon, <3>2, <3>3
  <2>13. CASE TouchBump(c)
    <3>1. StoreType' /\ TxType' /\ WatchType'
      BY SMTT(90), <2>13, TypeOK, CommandInv
      DEF TypeOK, CommandInv, StoreType, TxType, WatchType, TouchBump
    <3>2. LockType' /\ ControlType'
      BY Zenon, <2>13, TypeOK, ReturnType DEF TouchBump
    <3> QED
      BY Zenon, <3>1, <3>2 DEF TypeOK
  <2>14. CASE Discard(c)
    BY Zenon, TypeOK, <2>14 DEF TypeOK, StoreType, LockType, TxType,
        WatchType, ControlType, PCs, OpNames, Discard, BeginOp, Goto
  <2>15. CASE clearWatch(c)
    <3>0. Cardinality(watched[c]) \in Nat
      BY Zenon, TypeOK, FS_Subset, FS_CardinalityType DEF TypeOK, WatchType
    <3>1. LockType' /\ TxType'
      BY Zenon, <2>15, TypeOK DEF TypeOK, LockType, TxType, clearWatch
    <3>2. StoreType'
      BY <2>15, <3>0, TypeOK DEF TypeOK, StoreType, clearWatch, NoWatch
    <3>3. WatchType'
      BY Zenon, <2>15, TypeOK DEF TypeOK, WatchType, clearWatch, NoWatch
    <3>4. ControlType'
      BY Zenon, <2>15, TypeOK DEF TypeOK, ControlType, clearWatch, PCs, Goto
    <3> QED
      BY Zenon, <3>1, <3>2, <3>3, <3>4 DEF TypeOK
  <2>16. CASE \E k \in Keys : Reclaim(c, k)
    <3> SUFFICES ASSUME NEW k \in Keys, Reclaim(c, k)
                 PROVE  TypeOK'
      BY <2>16
    <3>1. LockType' /\ TxType' /\ WatchType'
      BY Zenon, Reclaim(c, k), TypeOK
      DEF TypeOK, LockType, TxType, WatchType, Reclaim
    <3>2. StoreType'
      BY Reclaim(c, k), TypeOK DEF TypeOK, StoreType, Reclaim
    <3>3. ControlType'
      BY Zenon, Reclaim(c, k), TypeOK DEF TypeOK, ControlType, Reclaim, Visit
    <3> QED
      BY <3>1, <3>2, <3>3 DEF TypeOK
  <2>17. CASE Reset(c)
    <3>1. StoreType' /\ WatchType'
      BY Zenon, <2>17, TypeOK DEF TypeOK, StoreType, WatchType, Reset
    <3>2. CASE op[c] = "unwatch"
      <4>1. TxType'
        BY Zenon, <2>17, <3>2, TypeOK DEF TypeOK, TxType, Reset
      <4>2. LockType' /\ ControlType'
        BY Zenon, <2>17, <3>2, TypeOK, ReturnType DEF Reset
      <4> QED
        BY <3>1, <4>1, <4>2 DEF TypeOK
    <3>3. CASE op[c] # "unwatch"
      <4>1. TxType'
        <5>1. << >> \in Seq(Commands)
          OBVIOUS
        <5> QED
          BY ZenonT(30), <2>17, <3>3, <5>1, TypeOK DEF TypeOK, TxType, Reset
      <4>2. LockType' /\ ControlType'
        BY <2>17, <3>3, TypeOK
        DEF TypeOK, LockType, ControlType, PCs, OpNames, Reset, Goto, Forget, EndTx, EndOp
      <4> QED
        BY Zenon, <3>1, <4>1, <4>2 DEF TypeOK
    <3> QED
      BY Zenon, <3>2, <3>3
  <2>18. CASE Exec(c)
    BY Zenon, TypeOK, <2>18 DEF TypeOK, StoreType, LockType, TxType,
        WatchType, ControlType, PCs, OpNames, Exec, BeginTx, Goto
  <2>19. CASE ExecAbort(c)
    BY Zenon, TypeOK, <2>19 DEF TypeOK, StoreType, LockType, TxType,
        WatchType, ControlType, PCs, OpNames, ExecAbort, GiveUp, Goto
  <2>20. CASE \E k \in Keys : ExecVerify(c, k)
    <3> SUFFICES ASSUME NEW k \in Keys, ExecVerify(c, k)
                 PROVE  TypeOK'
      BY ZenonT(40), <2>20
    <3>1. StoreType' /\ LockType' /\ WatchType'
      BY Zenon, ExecVerify(c, k), TypeOK DEF TypeOK, StoreType, LockType, WatchType, ExecVerify
    <3>2. TxType'
      BY Zenon, ExecVerify(c, k), TypeOK DEF TypeOK, TxType, ExecVerify, GiveUp
    <3>3. ControlType'
      BY ExecVerify(c, k), TypeOK
        DEF TypeOK, ControlType, ExecVerify, PCs, GiveUp, Visit, Goto
    <3> QED
      BY Zenon, <3>1, <3>2, <3>3 DEF TypeOK
  <2>21. CASE ExecCommit(c)
    BY ZenonT(30), TypeOK, <2>21 DEF TypeOK, StoreType, LockType, TxType,
        WatchType, ControlType, PCs, OpNames, ExecCommit, Goto
  <2>22. CASE ExecRun(c)
    <3>1. StoreType' /\ LockType' /\ WatchType'
      BY Zenon, <2>22, TypeOK DEF TypeOK, StoreType, LockType, WatchType, ExecRun
    <3>2. Head(queue[c]) \in Commands /\ Tail(queue[c]) \in Seq(Commands)
      BY <2>22, TypeOK DEF TypeOK, TxType, ExecRun
    <3>3. TxType'
      BY Zenon, <2>22, <3>2, TypeOK DEF TypeOK, TxType, ExecRun
    <3>4. ControlType'
      BY Zenon, <2>22, <3>2, TypeOK, DispatchType DEF TypeOK, ExecRun
    <3> QED
      BY Zenon, <3>1, <3>3, <3>4 DEF TypeOK
  <2>23. CASE ExecEnd(c)
    BY Zenon, TypeOK, <2>23 DEF TypeOK, StoreType, LockType, TxType,
        WatchType, ControlType, PCs, OpNames, ExecEnd, Goto
  <2>24. CASE Drop(c)
    <3>0. Cardinality(watched[c]) \in Nat
      BY SMTT(30), TypeOK, FS_Subset, FS_CardinalityType DEF TypeOK, WatchType
    <3>s. << >> \in Seq(Commands)
      OBVIOUS
    <3>1. LockType' /\ ControlType'
      BY Zenon, <2>24, TypeOK DEF TypeOK, LockType, ControlType, Drop
    <3>2. StoreType'
      BY SMTT(30), <2>24, <3>0, TypeOK DEF TypeOK, StoreType, Drop, Spend
    <3>3. TxType'
      BY Zenon, <2>24, <3>s, TypeOK DEF TypeOK, TxType, Drop, Spend
    <3>4. WatchType'
      BY Zenon, <2>24, TypeOK DEF TypeOK, WatchType, Drop, NoWatch
    <3> QED
      BY Zenon, <3>1, <3>2, <3>3, <3>4 DEF TypeOK
  <2> QED
    BY ZenonT(30), <1>1, <2>1, <2>2, <2>3, <2>4, <2>5, <2>6, <2>7, <2>8, <2>9, <2>10, <2>11, <2>12,
       <2>13, <2>14, <2>15, <2>16, <2>17, <2>18, <2>19, <2>20, <2>21, <2>22, <2>23, <2>24
    DEF ClientStep
<1>2. CASE \E k \in Keys : Expire(k)
  <2> SUFFICES ASSUME NEW k \in Keys, Expire(k)
               PROVE  TypeOK'
    BY Zenon, <1>2
  <2>1. LockType' /\ TxType' /\ WatchType' /\ ControlType'
    BY Zenon, Expire(k), TypeOK DEF TypeOK, LockType, TxType, WatchType, ControlType, Expire
  <2>2. StoreType'
    BY SMTT(30), Expire(k), TypeOK DEF TypeOK, StoreType, Expire, Spend, DelKey, Remove, bumpVersion
  <2> QED
    BY Zenon, <2>1, <2>2 DEF TypeOK
<1>3. CASE \E k \in Keys : Evict(k)
  BY SMTT(30), TypeOK, <1>3 DEF TypeOK, StoreType, LockType, TxType,
        WatchType, ControlType, PCs, OpNames, Evict, Spend, Remove
<1> QED
  BY Zenon, <1>1, <1>2, <1>3 DEF Next

(* The operation lock is held as LockInv says. *)
LEMMA LockStep ==
  ASSUME Ops \subseteq TrackedOps, TypeOK, LockInv, Next
  PROVE  LockInv'
<1> USE ConstantsAssumption DEF db, lock, tx, watch, at
<1>1. ASSUME NEW c \in Clients, ClientStep(c)
      PROVE  LockInv'
  <2>1. CASE \E K \in (SUBSET Keys) \ {{}} : Watch(c, K)
    BY SMTT(30), TypeOK, LockInv, <2>1
      DEF TypeOK, LockType, ControlType, LockInv, Watch, BeginOp, Goto
  <2>2. CASE \E k \in Keys : WatchAdd(c, k)
    BY SMTT(30), TypeOK, LockInv, <2>2
      DEF TypeOK, LockType, ControlType, LockInv, WatchAdd, Visit, Goto
  <2>3. CASE WatchGet(c)
    BY SMTT(30), TypeOK, LockInv, <2>3
      DEF TypeOK, LockType, ControlType, LockInv, WatchGet, Return, InTxExecution,
          Forget, EndOp, Goto
  <2>4. CASE Multi(c)
    BY Zenon, TypeOK, LockInv, <2>4 DEF TypeOK, LockType, ControlType, LockInv, Multi
  <2>5. CASE EnqueueError(c)
    BY Zenon, TypeOK, LockInv, <2>5 DEF TypeOK, LockType, ControlType, LockInv, EnqueueError
  <2>6. CASE EnqueueDenied(c)
    BY Zenon, TypeOK, LockInv, <2>6 DEF TypeOK, LockType, ControlType, LockInv, EnqueueDenied
  <2>7. CASE \E m \in Commands : Enqueue(c, m)
    BY Zenon, TypeOK, LockInv, <2>7 DEF TypeOK, LockType, ControlType, LockInv, Enqueue, Spend
  <2>8. CASE \E m \in Commands : Call(c, m)
    <3>1. PICK m \in Commands : Call(c, m)
      BY Zenon, <2>8
    <3>2. m.op # "unwatch"
      BY Zenon, <3>1, Ops \subseteq TrackedOps DEF Call, TrackedOps
    <3> QED
      BY Zenon, <3>1, <3>2, TypeOK, LockInv
      DEF TypeOK, LockType, ControlType, LockInv, Call, Dispatch, BeginOp, Goto
  <2>9. CASE \E k \in Keys : Create(c, k)
    BY Zenon, TypeOK, LockInv, <2>9
      DEF TypeOK, LockType, ControlType, LockInv, Create, SetKey, Store, bumpVersion
  <2>10. CASE \E k \in Keys : Body(c, k)
    BY Zenon, TypeOK, LockInv, <2>10
      DEF TypeOK, LockType, ControlType, LockInv, Body, SetKey, DelKey, ChangeKey,
          FlushShard, Store, Remove, bumpVersion, Visit
  <2>11. CASE BodyDone(c)
    BY SMTT(30), TypeOK, LockInv, <2>11
      DEF TypeOK, LockType, ControlType, LockInv, BodyDone, Return, InTxExecution,
          Forget, EndOp, Goto
  <2>12. CASE Touch(c)
    BY SMTT(30), TypeOK, LockInv, <2>12
      DEF TypeOK, LockType, ControlType, LockInv, Touch, Return, InTxExecution, Forget,
          EndOp, Goto
  <2>13. CASE TouchBump(c)
    BY TypeOK, LockInv, <2>13
      DEF TypeOK, LockType, ControlType, LockInv, TouchBump, Return, InTxExecution,
          Forget, EndOp, Goto
  <2>14. CASE Discard(c)
    BY Zenon, <2>14, Ops \subseteq TrackedOps DEF TrackedOps, Discard
  <2>15. CASE clearWatch(c)
    BY Zenon, TypeOK, LockInv, <2>15
      DEF TypeOK, LockType, ControlType, LockInv, clearWatch, NoWatch, Goto
  <2>16. CASE \E k \in Keys : Reclaim(c, k)
    BY Zenon, TypeOK, LockInv, <2>16 DEF TypeOK, LockType, ControlType, LockInv, Reclaim, Visit
  <2>17. CASE Reset(c)
    BY TypeOK, LockInv, <2>17
      DEF TypeOK, LockType, ControlType, LockInv, Reset, Return, InTxExecution, Forget,
          EndOp, EndTx, Goto
  <2>18. CASE Exec(c)
    BY Zenon, TypeOK, LockInv, <2>18
      DEF TypeOK, LockType, ControlType, LockInv, Exec, BeginTx, Goto
  <2>19. CASE ExecAbort(c)
    BY Zenon, TypeOK, LockInv, <2>19
      DEF TypeOK, LockType, ControlType, LockInv, ExecAbort, GiveUp, Goto
  <2>20. CASE \E k \in Keys : ExecVerify(c, k)
    BY TypeOK, LockInv, <2>20
      DEF TypeOK, LockType, ControlType, LockInv, ExecVerify, GiveUp, Visit, Goto
  <2>21. CASE ExecCommit(c)
    BY ZenonT(30), TypeOK, LockInv, <2>21 DEF TypeOK, LockType, ControlType, LockInv, ExecCommit, Goto
  <2>22. CASE ExecRun(c)
    BY Zenon, TypeOK, LockInv, <2>22
      DEF TypeOK, LockType, ControlType, LockInv, ExecRun, Dispatch, KeysOf, Commands,
          Goto
  <2>23. CASE ExecEnd(c)
    BY Zenon, TypeOK, LockInv, <2>23 DEF TypeOK, LockType, ControlType, LockInv, ExecEnd, Goto
  <2>24. CASE Drop(c)
    BY Zenon, TypeOK, LockInv, <2>24
      DEF TypeOK, LockType, ControlType, LockInv, Drop, Spend, NoWatch
  <2> QED
    BY ZenonT(60), <1>1, <2>1, <2>2, <2>3, <2>4, <2>5, <2>6, <2>7, <2>8, <2>9, <2>10, <2>11, <2>12,
       <2>13, <2>14, <2>15, <2>16, <2>17, <2>18, <2>19, <2>20, <2>21, <2>22, <2>23, <2>24
    DEF ClientStep
<1>2. CASE \E k \in Keys : Expire(k)
  BY Zenon, TypeOK, LockInv, <1>2
    DEF TypeOK, LockType, ControlType, LockInv, Expire, Spend, DelKey, Remove, bumpVersion
<1>3. CASE \E k \in Keys : Evict(k)
  BY Zenon, <1>3, Ops \subseteq TrackedOps DEF TrackedOps, Evict
<1> QED
  BY Zenon, <1>1, <1>2, <1>3 DEF Next

(* A handler's arguments and loops stay as CommandInv says. *)
LEMMA CommandStep ==
  ASSUME Ops \subseteq TrackedOps, TypeOK, LockInv, CommandInv, Next
  PROVE  CommandInv'
<1> USE ConstantsAssumption DEF db, lock, tx, watch, at
<1>1. ASSUME NEW c \in Clients, ClientStep(c)
      PROVE  CommandInv'
  <2>1. CASE \E K \in (SUBSET Keys) \ {{}} : Watch(c, K)
    BY SMTT(30), TypeOK, LockInv, CommandInv, <2>1
      DEF TypeOK, StoreType, WatchType, ControlType, LockInv, CommandInv, Watch,
          BeginOp, Goto
  <2>2. CASE \E k \in Keys : WatchAdd(c, k)
    BY SMTT(30), TypeOK, LockInv, CommandInv, <2>2
      DEF TypeOK, StoreType, WatchType, ControlType, LockInv, CommandInv, WatchAdd,
          Visit, Goto
  <2>3. CASE WatchGet(c)
    <3>1. pc'[c] \in {"idle", "run", "watchAdd"}
      BY Zenon, <2>3, TypeOK DEF TypeOK, ControlType, WatchGet, Return, Goto
    <3>2. \A d \in Clients \ {c} : /\ pc'[d] = pc[d] /\ op'[d] = op[d]
                                  /\ key'[d] = key[d] /\ watched'[d] = watched[d]
      BY <2>3, TypeOK DEF TypeOK, ControlType, WatchType, WatchGet, Return, Forget, Goto
    <3> QED
      BY ZenonT(30), <2>3, <3>1, <3>2, CommandInv DEF CommandInv, WatchGet
  <2>4. CASE Multi(c)
    BY Zenon, TypeOK, LockInv, CommandInv, <2>4
      DEF TypeOK, StoreType, WatchType, ControlType, LockInv, CommandInv, Multi
  <2>5. CASE EnqueueError(c)
    BY Zenon, TypeOK, LockInv, CommandInv, <2>5
      DEF TypeOK, StoreType, WatchType, ControlType, LockInv, CommandInv, EnqueueError
  <2>6. CASE EnqueueDenied(c)
    BY Zenon, TypeOK, LockInv, CommandInv, <2>6
      DEF TypeOK, StoreType, WatchType, ControlType, LockInv, CommandInv, EnqueueDenied
  <2>7. CASE \E m \in Commands : Enqueue(c, m)
    BY ZenonT(30), TypeOK, LockInv, CommandInv, <2>7
      DEF TypeOK, StoreType, WatchType, ControlType, LockInv, CommandInv, Enqueue, Spend
  <2>8. CASE \E m \in Commands : Call(c, m)
    BY SMTT(30), TypeOK, LockInv, CommandInv, <2>8
      DEF TypeOK, StoreType, WatchType, ControlType, LockInv, CommandInv, Call,
          Dispatch, KeysOf, Commands, Spend, BeginOp, Goto
  <2>9. CASE \E k \in Keys : Create(c, k)
    BY SMTT(30), TypeOK, LockInv, CommandInv, <2>9
      DEF TypeOK, StoreType, WatchType, ControlType, LockInv, CommandInv, Create,
          SetKey, Store, bumpVersion
  <2>10. CASE \E k \in Keys : Body(c, k)
    BY SMTT(30), TypeOK, LockInv, CommandInv, <2>10
      DEF TypeOK, StoreType, WatchType, ControlType, LockInv, CommandInv, Body, SetKey,
          DelKey, ChangeKey, FlushShard, Store, Remove, bumpVersion, Visit
  <2>11. CASE BodyDone(c)
    <3>1. pc'[c] \in {"idle", "run", "touch"}
      BY Zenon, <2>11, TypeOK DEF TypeOK, ControlType, BodyDone, Return, Goto
    <3>0. pc'[c] = "touch" => key'[c] = key[c]
      BY Zenon, <2>11, TypeOK DEF TypeOK, ControlType, BodyDone, Return, Goto
    <3>2. \A d \in Clients \ {c} : /\ pc'[d] = pc[d] /\ op'[d] = op[d]
                                  /\ key'[d] = key[d] 
      BY ZenonT(40), <2>11, TypeOK DEF TypeOK, ControlType, WatchType, BodyDone, Return, Forget, Goto
    <3>3. \A d \in Clients \ {c} : todo'[d] = todo[d]
      BY Zenon, <2>11, TypeOK DEF TypeOK, ControlType, BodyDone
    <3>4. pc[c] = "body" /\ watchers' = watchers /\ watched' = watched
      BY Zenon, <2>11 DEF BodyDone, watch
    <3> QED
      BY SMTT(30), <3>0, <3>1, <3>2, <3>3, <3>4, CommandInv DEF CommandInv
  <2>12. CASE Touch(c)
    BY SMTT(30), TypeOK, LockInv, CommandInv, <2>12
      DEF TypeOK, StoreType, WatchType, ControlType, LockInv, CommandInv, Touch,
          Return, InTxExecution, Forget, EndOp, Goto
  <2>13. CASE TouchBump(c)
    BY SMTT(30), TypeOK, LockInv, CommandInv, <2>13
      DEF TypeOK, StoreType, WatchType, ControlType, LockInv, CommandInv, TouchBump,
          Return, InTxExecution, Forget, EndOp, Goto
  <2>14. CASE Discard(c)
    BY Zenon, <2>14, Ops \subseteq TrackedOps DEF TrackedOps, Discard
  <2>15. CASE clearWatch(c)
    BY ZenonT(30), TypeOK, LockInv, CommandInv, <2>15
      DEF TypeOK, StoreType, WatchType, ControlType, LockInv, CommandInv, clearWatch,
          NoWatch, Goto
  <2>16. CASE \E k \in Keys : Reclaim(c, k)
    BY SMTT(30), TypeOK, LockInv, CommandInv, <2>16
      DEF TypeOK, StoreType, WatchType, ControlType, LockInv, CommandInv, Reclaim, Visit
  <2>17. CASE Reset(c)
    BY SMTT(30), TypeOK, LockInv, CommandInv, <2>17
      DEF TypeOK, StoreType, WatchType, ControlType, LockInv, CommandInv, Reset,
          Return, InTxExecution, Forget, EndOp, EndTx, Goto
  <2>18. CASE Exec(c)
    BY SMTT(30), TypeOK, LockInv, CommandInv, <2>18
      DEF TypeOK, StoreType, WatchType, ControlType, LockInv, CommandInv, Exec,
          BeginTx, Goto
  <2>19. CASE ExecAbort(c)
    BY ZenonT(30), TypeOK, LockInv, CommandInv, <2>19
      DEF TypeOK, StoreType, WatchType, ControlType, LockInv, CommandInv, ExecAbort,
          GiveUp, Goto
  <2>20. CASE \E k \in Keys : ExecVerify(c, k)
    BY SMTT(30), TypeOK, LockInv, CommandInv, <2>20
      DEF TypeOK, StoreType, WatchType, ControlType, LockInv, CommandInv, ExecVerify,
          GiveUp, Visit, Goto
  <2>21. CASE ExecCommit(c)
    BY SMTT(30), TypeOK, LockInv, CommandInv, <2>21
      DEF TypeOK, StoreType, WatchType, ControlType, LockInv, CommandInv, ExecCommit, Goto
  <2>22. CASE ExecRun(c)
    <3> DEFINE m == Head(queue[c])
    <3>1. m \in Commands
      BY <2>22, TypeOK DEF TypeOK, TxType, ExecRun
    <3>2. /\ m.key \in Keys
          /\ m.op # "unwatch" => m.op \in WriteOps \cap Ops
          /\ m.op = "push" => m.other = m.key
      BY Zenon, <3>1 DEF Commands
    <3> HIDE DEF m
    <3>3. Dispatch(c, m) /\ UNCHANGED <<watchers, watched>>
      BY Zenon, <2>22 DEF ExecRun, m
    <3> QED
      BY Zenon, <3>2, <3>3, TypeOK, CommandInv
      DEF TypeOK, ControlType, CommandInv, Dispatch, KeysOf, Goto
  <2>23. CASE ExecEnd(c)
    BY Zenon, TypeOK, LockInv, CommandInv, <2>23
      DEF TypeOK, StoreType, WatchType, ControlType, LockInv, CommandInv, ExecEnd, Goto
  <2>24. CASE Drop(c)
    BY Zenon, TypeOK, LockInv, CommandInv, <2>24
      DEF TypeOK, StoreType, WatchType, ControlType, LockInv, CommandInv, Drop, Spend,
          NoWatch
  <2> QED
    BY ZenonT(30), <1>1, <2>1, <2>2, <2>3, <2>4, <2>5, <2>6, <2>7, <2>8, <2>9, <2>10, <2>11, <2>12,
       <2>13, <2>14, <2>15, <2>16, <2>17, <2>18, <2>19, <2>20, <2>21, <2>22, <2>23, <2>24
    DEF ClientStep
<1>2. CASE \E k \in Keys : Expire(k)
  BY Zenon, TypeOK, LockInv, CommandInv, <1>2
    DEF TypeOK, StoreType, WatchType, ControlType, LockInv, CommandInv, Expire, Spend,
        DelKey, Remove, bumpVersion
<1>3. CASE \E k \in Keys : Evict(k)
  BY Zenon, <1>3, Ops \subseteq TrackedOps DEF TrackedOps, Evict
<1> QED
  BY Zenon, <1>1, <1>2, <1>3 DEF Next

(* The functions that the steps below update. *)
Domains ==
  /\ DOMAIN pc = Clients /\ DOMAIN op = Clients
  /\ DOMAIN inMulti = Clients /\ DOMAIN dirty = Clients /\ DOMAIN failed = Clients
  /\ DOMAIN reply = Clients /\ DOMAIN mod = Keys

(* Where client c is tells which side of txMu it holds, whatever the       *)
(* operations: only UNWATCH runs under either of them.                     *)
Serial(c) ==
  /\ pc[c] = "idle" <=> c \notin readers /\ writer # c
  /\ pc[c] \in {"check", "run"} => writer = c
  /\ pc[c] = "check" => op[c] = "exec"
  /\ pc[c] \in {"clear", "reclaim"} =>
       \/ op[c] = "unwatch"
       \/ op[c] = "exec" /\ writer = c
       \/ op[c] = "discard" /\ c \in readers

(* A handler runs outside MULTI, and a refusal stays known until the end   *)
(* of the transaction unless refusals for want of permission occur.        *)
Poison(c) ==
  /\ pc[c] \in {"watchAdd", "watchGet", "body", "touch", "bump", "run"} => ~inMulti[c]
  /\ pc[c] \in {"clear", "reclaim"} /\ op[c] = "unwatch" => ~inMulti[c]
  /\ "deny" \notin Ops /\ failed[c] => dirty[c] /\ inMulti[c]

SerialInv ==
  /\ Domains
  /\ writer # None => readers = {}
  /\ \A c \in Clients : Serial(c) /\ Poison(c)

(* A step of client c leaves what the others hold and are at alone. *)
Others(c) ==
  \A d \in Clients \ {c} :
    /\ pc'[d] = pc[d] /\ op'[d] = op[d]
    /\ inMulti'[d] = inMulti[d] /\ dirty'[d] = dirty[d] /\ failed'[d] = failed[d]
    /\ d \in readers' <=> d \in readers
    /\ writer' = d <=> writer = d

StepOf(c) ==
  /\ Domains' /\ Others(c)
  /\ writer' # None => readers' = {}
  /\ Serial(c)' /\ Poison(c)'

(* Leaving a command. *)
LEMMA ReturnStep ==
  ASSUME SerialInv, NEW c \in Clients, pc[c] # "idle", Return(c),
         ~inMulti[c], UNCHANGED <<inMulti, failed, reply, mod>>,
         dirty' = dirty \/ dirty' = [dirty EXCEPT ![c] = FALSE]
  PROVE  StepOf(c)
<1> USE ConstantsAssumption
<1>1. Serial(c) /\ Poison(c) /\ Domains
  BY Zenon DEF SerialInv
<1>2. CASE InTxExecution(c)
  BY ZenonT(40), <1>1, <1>2 DEF StepOf, Serial, Poison, Others, Domains, Return, Goto, InTxExecution, lock, SerialInv
<1>3. CASE ~InTxExecution(c)
  BY ZenonT(60), <1>1, <1>3 DEF StepOf, Serial, Poison, Others, Domains, Return, Goto, InTxExecution, lock, SerialInv, Forget, EndOp
<1> QED
  BY Zenon, <1>2, <1>3

(* A step of a client keeps the lock and the transaction states in order. *)
LEMMA SerialClient ==
  ASSUME SerialInv, NEW c \in Clients, ClientStep(c)
  PROVE  StepOf(c)
<1> USE ConstantsAssumption DEF db, lock, tx, watch, at
<1>0. Serial(c) /\ Poison(c) /\ Domains /\ (writer # None => readers = {})
  BY Zenon DEF SerialInv
<1>1. CASE \E K \in (SUBSET Keys) \ {{}} : Watch(c, K)
  BY ZenonT(90), <1>0, <1>1
  DEF StepOf, Serial, Poison, Others, Domains, Watch, BeginOp, Goto
<1>2. CASE \E k \in Keys : WatchAdd(c, k)
  BY ZenonT(30), <1>0, <1>2
  DEF StepOf, Serial, Poison, Others, Domains, WatchAdd, Goto
<1>3. CASE Multi(c)
  BY ZenonT(30), <1>0, <1>3
  DEF StepOf, Serial, Poison, Others, Domains, Multi
<1>4. CASE EnqueueError(c)
  BY ZenonT(30), <1>0, <1>4
  DEF StepOf, Serial, Poison, Others, Domains, EnqueueError
<1>5. CASE EnqueueDenied(c)
  BY ZenonT(30), <1>0, <1>5
  DEF StepOf, Serial, Poison, Others, Domains, EnqueueDenied
<1>6. CASE \E m \in Commands : Enqueue(c, m)
  BY ZenonT(30), <1>0, <1>6
  DEF StepOf, Serial, Poison, Others, Domains, Enqueue
<1>7. CASE \E m \in Commands : Call(c, m)
  BY ZenonT(90), <1>0, <1>7
  DEF StepOf, Serial, Poison, Others, Domains, Call, BeginOp, Dispatch, Goto
<1>8. CASE \E k \in Keys : Create(c, k)
  BY ZenonT(30), <1>0, <1>8
  DEF StepOf, Serial, Poison, Others, Domains, Create, SetKey, Store
<1>9. CASE \E k \in Keys : Body(c, k)
  BY ZenonT(30), <1>0, <1>9
  DEF StepOf, Serial, Poison, Others, Domains, Body, SetKey, DelKey, ChangeKey, FlushShard, Store, Remove
<1>10. CASE Discard(c)
  BY ZenonT(30), <1>0, <1>10
  DEF StepOf, Serial, Poison, Others, Domains, Discard, BeginOp, Goto
<1>11. CASE clearWatch(c)
  BY ZenonT(30), <1>0, <1>11
  DEF StepOf, Serial, Poison, Others, Domains, clearWatch, Goto
<1>12. CASE \E k \in Keys : Reclaim(c, k)
  BY ZenonT(30), <1>0, <1>12
  DEF StepOf, Serial, Poison, Others, Domains, Reclaim
<1>13. CASE Exec(c)
  BY ZenonT(30), <1>0, <1>13
  DEF StepOf, Serial, Poison, Others, Domains, Exec, BeginTx, Goto
<1>14. CASE ExecAbort(c)
  BY ZenonT(30), <1>0, <1>14
  DEF StepOf, Serial, Poison, Others, Domains, ExecAbort, GiveUp, Goto
<1>15. CASE \E k \in Keys : ExecVerify(c, k)
  BY ZenonT(30), <1>0, <1>15
  DEF StepOf, Serial, Poison, Others, Domains, ExecVerify, GiveUp, Goto
<1>16. CASE ExecCommit(c)
  BY ZenonT(30), <1>0, <1>16
  DEF StepOf, Serial, Poison, Others, Domains, ExecCommit, Goto
<1>17. CASE ExecRun(c)
  BY ZenonT(30), <1>0, <1>17
  DEF StepOf, Serial, Poison, Others, Domains, ExecRun, Dispatch, Goto
<1>18. CASE ExecEnd(c)
  BY ZenonT(30), <1>0, <1>18
  DEF StepOf, Serial, Poison, Others, Domains, ExecEnd, Goto
<1>19. CASE Drop(c)
  BY ZenonT(30), <1>0, <1>19
  DEF StepOf, Serial, Poison, Others, Domains, Drop
<1>20. CASE WatchGet(c)
  <2>1. CASE todo[c] = {}
    BY Zenon, <1>0, <1>20, <2>1, ReturnStep DEF WatchGet, Poison
  <2>2. CASE ~(todo[c] = {})
    BY Zenon, <1>0, <1>20, <2>2
    DEF StepOf, Serial, Poison, Others, Domains, WatchGet, Goto
  <2> QED
    BY Zenon, <2>1, <2>2
<1>21. CASE BodyDone(c)
  <2>1. CASE op[c] = "flush"
    BY Zenon, <1>0, <1>21, <2>1, ReturnStep DEF BodyDone, Poison
  <2>2. CASE ~(op[c] = "flush")
    BY Zenon, <1>0, <1>21, <2>2
    DEF StepOf, Serial, Poison, Others, Domains, BodyDone, Goto
  <2> QED
    BY Zenon, <2>1, <2>2
<1>22. CASE Touch(c)
  <2>1. CASE watchers = 0
    BY Zenon, <1>0, <1>22, <2>1, ReturnStep DEF Touch, Poison
  <2>2. CASE ~(watchers = 0)
    BY Zenon, <1>0, <1>22, <2>2
    DEF StepOf, Serial, Poison, Others, Domains, Touch, Goto
  <2> QED
    BY Zenon, <2>1, <2>2
<1>23. CASE TouchBump(c)
  BY Zenon, <1>0, <1>23, ReturnStep DEF TouchBump, Poison
<1>24. CASE Reset(c)
  <2>1. CASE op[c] = "unwatch"
    BY Zenon, <1>0, <1>24, <2>1, ReturnStep DEF Reset, Poison
  <2>2. CASE op[c] # "unwatch"
    <3>1. /\ inMulti' = [inMulti EXCEPT ![c] = FALSE] /\ failed' = [failed EXCEPT ![c] = FALSE]
          /\ dirty' = [dirty EXCEPT ![c] = FALSE] /\ mod' = mod
          /\ reply' = [reply EXCEPT ![c] = "none"]
          /\ Goto(c, "idle") /\ Forget(c)
      BY Zenon, <1>24, <2>2 DEF Reset
    <3>2. CASE op[c] = "exec"
      BY ZenonT(90), <1>0, <1>24, <3>1, <3>2
      DEF StepOf, Serial, Poison, Others, Domains, Reset, EndTx, Goto, Forget
    <3>3. CASE op[c] # "exec"
      BY ZenonT(30), <1>0, <1>24, <2>2, <3>1, <3>3
      DEF StepOf, Serial, Poison, Others, Domains, Reset, EndOp, Goto, Forget
    <3> QED
      BY Zenon, <3>2, <3>3
  <2> QED
    BY Zenon, <2>1, <2>2
<1> QED
  BY Zenon, <1>1, <1>2, <1>3, <1>4, <1>5, <1>6, <1>7, <1>8, <1>9, <1>10, <1>11, <1>12, <1>13, <1>14, <1>15, <1>16, <1>17, <1>18, <1>19, <1>20, <1>21, <1>22, <1>23, <1>24
  DEF ClientStep

(* Hence every step does. *)
LEMMA SerialStep == SerialInv /\ [Next]_vars => SerialInv'
<1> SUFFICES ASSUME SerialInv, [Next]_vars
             PROVE  SerialInv'
  OBVIOUS
<1>1. ASSUME NEW c \in Clients, ClientStep(c)
      PROVE  SerialInv'
  <2>1. StepOf(c)
    BY Zenon, <1>1, SerialClient
  <2>2. ASSUME NEW d \in Clients, d # c
        PROVE  Serial(d)' /\ Poison(d)'
    BY ZenonT(40), <2>1, <2>2 DEF StepOf, Others, SerialInv, Serial, Poison
  <2> QED
    BY Zenon, <2>1, <2>2 DEF StepOf, SerialInv
<1>2. CASE \E k \in Keys : Expire(k) \/ Evict(k)
  <2>1. UNCHANGED <<lock, tx, at>> /\ Domains'
    BY Zenon, <1>2 DEF Expire, Evict, DelKey, Remove, db, SerialInv, Domains, lock, tx, at
  <2> QED
    BY Zenon, <2>1 DEF SerialInv, Serial, Poison, lock, tx, at
<1>3. CASE UNCHANGED vars
  BY Zenon, <1>3 DEF SerialInv, Domains, Serial, Poison, vars, db, lock, tx, at
<1> QED
  BY Zenon, <1>1, <1>2, <1>3 DEF Next

(* They are in order initially. *)
LEMMA SerialInit == Init => SerialInv
<1> SUFFICES ASSUME Init
             PROVE  SerialInv
  OBVIOUS
<1>1. Domains
  BY Zenon DEF Init, Domains
<1>2. ASSUME NEW c \in Clients
      PROVE  Serial(c) /\ Poison(c)
  BY Zenon, <1>2, ConstantsAssumption DEF Init, Serial, Poison
<1> QED
  BY Zenon, <1>1, <1>2 DEF Init, SerialInv

(* So the lock and the transaction states are in order in every run. *)
THEOREM SerialInvariant == Spec => []SerialInv
BY SerialInit, SerialStep, PTL DEF Spec

(* Only the holder of the exclusive lock or the cron changes a key.        *)
LEMMA ChangesAlone ==
  ASSUME SerialInv, [Next]_vars, NEW k \in Keys, writer # None, mod'[k] # mod[k]
  PROVE  (pc[writer] = "body" /\ k \in todo[writer]) \/ present' = present \ {k}
<1> USE DEF db, lock, tx, watch, at
<1>1. CASE UNCHANGED vars
  BY Zenon, <1>1 DEF vars
<1>2. CASE \E j \in Keys : Expire(j) \/ Evict(j)
  BY Zenon, <1>2 DEF Expire, Evict, DelKey, Remove, SerialInv, Domains
<1>3. ASSUME NEW c \in Clients, ClientStep(c)
      PROVE  pc[writer] = "body" /\ k \in todo[writer]
  <2>1. \E j \in Keys : Create(c, j) \/ Body(c, j)
    BY Zenon, <1>3
    DEF ClientStep, Watch, WatchAdd, WatchGet, Multi, EnqueueError, EnqueueDenied,
        Enqueue, Call, BodyDone, Touch, TouchBump, Discard, clearWatch, Reset, Reclaim,
        Exec, ExecAbort, ExecVerify, ExecCommit, ExecRun, ExecEnd, Drop
  <2>2. PICK j \in Keys : Create(c, j) \/ Body(c, j)
    BY Zenon, <2>1
  <2>3. pc[c] = "body" /\ j \in todo[c]
    BY Zenon, <2>2 DEF Create, Body
  <2>4. j = k
    BY Zenon, <2>2
    DEF Create, Body, SetKey, DelKey, ChangeKey, FlushShard, Store, Remove, SerialInv, Domains
  <2>5. writer = c
    BY Zenon, <2>3, ConstantsAssumption DEF SerialInv, Serial
  <2> QED
    BY Zenon, <2>3, <2>4, <2>5
<1> QED
  BY Zenon, <1>1, <1>2, <1>3 DEF Next

(* Whatever the operations, EXEC is isolated: while it holds the exclusive *)
(* lock a key changes by its own handler or by being removed by the cron.  *)
THEOREM ExecRunsIsolated == Spec => ExecIsolated
<1>1. SerialInv /\ [Next]_vars =>
        [\A k \in Keys :
           writer # None /\ mod'[k] # mod[k] =>
             (pc[writer] = "body" /\ k \in todo[writer]) \/ present' = present \ {k}]_vars
  BY ChangesAlone
<1> QED
  BY <1>1, SerialInvariant, PTL DEF Spec, ExecIsolated

(* EXEC answers with results only after it has found the transaction clean. *)
LEMMA RunsClean ==
  ASSUME "deny" \notin Ops, SerialInv, [Next]_vars, NEW c \in Clients,
         pc[c] = "check", pc'[c] # "check", reply'[c] = "array"
  PROVE  ~failed[c]
<1> USE DEF db, lock, tx, watch, at
<1>1. CASE UNCHANGED vars
  BY Zenon, <1>1 DEF vars
<1>2. CASE \E j \in Keys : Expire(j) \/ Evict(j)
  BY Zenon, <1>2 DEF Expire, Evict
<1>3. ASSUME NEW d \in Clients, ClientStep(d)
      PROVE  ~failed[c]
  <2>1. d = c
    BY Zenon, <1>3, SerialClient DEF StepOf, Others
  <2>2. ~dirty[c] \/ ExecAbort(c)
    BY ZenonT(30), <1>3, <2>1
    DEF ClientStep, Watch, WatchAdd, WatchGet, Multi, EnqueueError, EnqueueDenied,
        Enqueue, Call, Create, Body, BodyDone, Touch, TouchBump, Discard, clearWatch, Reset,
        Reclaim, Exec, ExecVerify, ExecCommit, ExecRun, ExecEnd, Drop
  <2>3. ~ExecAbort(c)
    BY Zenon DEF ExecAbort, GiveUp, SerialInv, Domains
  <2> QED
    BY Zenon, <2>2, <2>3 DEF SerialInv, Poison
<1> QED
  BY Zenon, <1>1, <1>2, <1>3 DEF Next

(* A transaction with an unknown command or a wrong arity in it never      *)
(* runs.  Refusals with NOPERM or MOVED are excluded: they do not set      *)
(* DirtyCAS.                                                               *)
THEOREM RefusedNeverRuns ==
  ASSUME "deny" \notin Ops
  PROVE  Spec => PoisonedNeverRuns
<1>1. SerialInv /\ [Next]_vars =>
        [\A c \in Clients :
           pc[c] = "check" /\ pc'[c] # "check" /\ reply'[c] = "array" => ~failed[c]]_vars
  BY RunsClean
<1> QED
  BY <1>1, SerialInvariant, PTL DEF Spec, PoisonedNeverRuns

-----------------------------------------------------------------------------
(* The watcher count and the versions.                                     *)

(* The set of watches to account for depends on Watched and on which      *)
(* clients are between AddWatchers and GetVersion.                        *)
LEMMA RegisteredFrame ==
  ASSUME \A c \in Clients :
           /\ watched'[c] = watched[c]
           /\ pc'[c] = "watchGet" <=> pc[c] = "watchGet"
           /\ pc[c] = "watchGet" => key'[c] = key[c]
  PROVE  Registered' = Registered
BY Zenon DEF Registered

(* There are finitely many registered watches, so they can be counted.     *)
LEMMA RegisteredFinite ==
  IsFiniteSet(Registered) /\ Cardinality(Registered) \in Nat
<1>1. IsFiniteSet(Clients \X Keys)
  BY Zenon, ConstantsAssumption, FS_Product
<1>2. Registered \in SUBSET (Clients \X Keys)
  BY Zenon DEF Registered
<1> QED
  BY Zenon, <1>1, <1>2, FS_Subset, FS_CardinalityType

(* While a key is watched the count is positive. *)
LEMMA WatchedCounts ==
  ASSUME TypeOK, WatcherCount, NEW c \in Clients, NEW k \in watched[c]
  PROVE  watchers > 0
<1>1. <<c, k>> \in Registered
  BY Zenon, TypeOK DEF Registered, TypeOK, WatchType
<1>2. Cardinality(Registered) # 0
  BY Zenon, <1>1, RegisteredFinite, FS_EmptySet
<1> QED
  BY <1>2, RegisteredFinite, TypeOK, WatcherCount DEF WatcherCount, TypeOK, StoreType

(* Giving up a client's watches takes exactly its own out of the count. *)
LEMMA RegisteredWithout ==
  ASSUME TypeOK, NEW c \in Clients, pc[c] # "watchGet", pc'[c] # "watchGet",
         watched' = [watched EXCEPT ![c] = {}],
         \A d \in Clients \ {c} : pc'[d] = pc[d] /\ key'[d] = key[d]
  PROVE  Cardinality(Registered') = Cardinality(Registered) - Cardinality(watched[c])
<1> DEFINE Own == {c} \X watched[c]
<1>1. Registered' = Registered \ Own
  BY Zenon, TypeOK DEF Registered, TypeOK, WatchType
<1>2. Registered \cap Own = Own
  BY Zenon, TypeOK DEF Registered, TypeOK, WatchType
<1>3. IsFiniteSet(watched[c])
  BY Zenon, TypeOK, ConstantsAssumption, FS_Subset DEF TypeOK, WatchType
<1>4. Cardinality(Own) = Cardinality(watched[c])
  <2>1. IsFiniteSet({c}) /\ Cardinality({c}) = 1
    BY Zenon, FS_Singleton
  <2>2. Cardinality(Own) = 1 * Cardinality(watched[c])
    BY <2>1, <1>3, FS_Product
  <2>3. Cardinality(watched[c]) \in Nat
    BY Zenon, <1>3, FS_CardinalityType
  <2> QED
    BY <2>2, <2>3
<1>5. Cardinality(Registered \ Own) = Cardinality(Registered) - Cardinality(Registered \cap Own)
  BY Zenon, RegisteredFinite, FS_Difference
<1> QED
  BY Zenon, <1>1, <1>2, <1>4, <1>5

(* The watcher count stays the number of watches. *)
LEMMA CountStep ==
  ASSUME TypeOK, CommandInv, WatcherCount, Next
  PROVE  WatcherCount'
<1> USE ConstantsAssumption DEF db, lock, tx, watch, at
<1>1. ASSUME NEW c \in Clients, ClientStep(c)
      PROVE  WatcherCount'
  <2>1. CASE \E K \in (SUBSET Keys) \ {{}} : Watch(c, K)
    <3>1. Registered' = Registered
      BY Zenon, <2>1, TypeOK, RegisteredFrame DEF TypeOK, ControlType, Watch, Goto
    <3> QED
      BY Zenon, <2>1, <3>1, WatcherCount DEF WatcherCount, Watch
  <2>2. CASE \E k \in Keys : WatchAdd(c, k)
    <3>1. PICK k \in Keys : WatchAdd(c, k)
      BY Zenon, <2>2
    <3>2. Registered' = Registered \cup {<<c, k>>}
      BY <3>1, TypeOK DEF Registered, TypeOK, ControlType, WatchAdd, Goto
    <3>3. <<c, k>> \in Registered <=> k \in watched[c]
      BY Zenon, <3>1 DEF Registered, WatchAdd
    <3>4. Cardinality(Registered') =
            IF k \in watched[c] THEN Cardinality(Registered) ELSE Cardinality(Registered) + 1
      BY Zenon, <3>2, <3>3, RegisteredFinite, FS_AddElement
    <3> QED
      BY <3>1, <3>4, RegisteredFinite, TypeOK, WatcherCount
      DEF WatcherCount, WatchAdd, TypeOK, StoreType
  <2>3. CASE WatchGet(c)
    <3>1. /\ pc'[c] # "watchGet"
          /\ \A d \in Clients \ {c} : pc'[d] = pc[d] /\ key'[d] = key[d]
      BY Zenon, <2>3, TypeOK DEF TypeOK, ControlType, WatchGet, Return, Forget, Goto
    <3>2. key[c] \in Keys
      BY Zenon, <2>3, CommandInv DEF CommandInv, WatchGet
    <3>3. Registered' = Registered
      BY Zenon, <2>3, <3>1, <3>2, TypeOK DEF Registered, WatchGet, TypeOK, WatchType
    <3> QED
      BY Zenon, <2>3, <3>3, WatcherCount DEF WatcherCount, WatchGet
  <2>4. CASE Multi(c)
    <3>1. Registered' = Registered
      BY Zenon, <2>4, TypeOK, RegisteredFrame DEF TypeOK, ControlType, Multi
    <3> QED
      BY Zenon, <2>4, <3>1, WatcherCount DEF WatcherCount, Multi
  <2>5. CASE EnqueueError(c)
    <3>1. Registered' = Registered
      BY Zenon, <2>5, TypeOK, RegisteredFrame DEF TypeOK, ControlType, EnqueueError
    <3> QED
      BY Zenon, <2>5, <3>1, WatcherCount DEF WatcherCount, EnqueueError
  <2>6. CASE EnqueueDenied(c)
    <3>1. Registered' = Registered
      BY Zenon, <2>6, TypeOK, RegisteredFrame DEF TypeOK, ControlType, EnqueueDenied
    <3> QED
      BY Zenon, <2>6, <3>1, WatcherCount DEF WatcherCount, EnqueueDenied
  <2>7. CASE \E m \in Commands : Enqueue(c, m)
    <3>1. Registered' = Registered
      BY Zenon, <2>7, TypeOK, RegisteredFrame DEF TypeOK, ControlType, Enqueue
    <3> QED
      BY Zenon, <2>7, <3>1, WatcherCount DEF WatcherCount, Enqueue
  <2>8. CASE \E m \in Commands : Call(c, m)
    <3>1. Registered' = Registered
      BY ZenonT(30), <2>8, TypeOK, RegisteredFrame DEF TypeOK, ControlType, Call, Dispatch, Goto
    <3> QED
      BY Zenon, <2>8, <3>1, WatcherCount DEF WatcherCount, Call
  <2>9. CASE \E k \in Keys : Create(c, k)
    <3>1. Registered' = Registered
      BY Zenon, <2>9, TypeOK, RegisteredFrame DEF TypeOK, ControlType, Create
    <3> QED
      BY Zenon, <2>9, <3>1, WatcherCount DEF WatcherCount, Create
  <2>10. CASE \E k \in Keys : Body(c, k)
    <3>1. Registered' = Registered
      BY Zenon, <2>10, TypeOK, RegisteredFrame DEF TypeOK, ControlType, Body
    <3> QED
      BY Zenon, <2>10, <3>1, WatcherCount DEF WatcherCount, Body
  <2>11. CASE BodyDone(c)
    <3>1. Registered' = Registered
      BY Zenon, <2>11, TypeOK, RegisteredFrame
        DEF TypeOK, ControlType, BodyDone, Return, Forget, Goto
    <3> QED
      BY Zenon, <2>11, <3>1, WatcherCount DEF WatcherCount, BodyDone
  <2>12. CASE Touch(c)
    <3>1. Registered' = Registered
      BY Zenon, <2>12, TypeOK, RegisteredFrame
        DEF TypeOK, ControlType, Touch, Return, Forget, Goto
    <3> QED
      BY Zenon, <2>12, <3>1, WatcherCount DEF WatcherCount, Touch
  <2>13. CASE TouchBump(c)
    <3>1. Registered' = Registered
      BY Zenon, <2>13, TypeOK, RegisteredFrame
        DEF TypeOK, ControlType, TouchBump, Return, Forget, Goto
    <3> QED
      BY Zenon, <2>13, <3>1, WatcherCount DEF WatcherCount, TouchBump
  <2>14. CASE Discard(c)
    <3>1. Registered' = Registered
      BY Zenon, <2>14, TypeOK, RegisteredFrame DEF TypeOK, ControlType, Discard, Goto
    <3> QED
      BY Zenon, <2>14, <3>1, WatcherCount DEF WatcherCount, Discard
  <2>15. CASE clearWatch(c)
    <3>1. Cardinality(watched[c]) \in Nat
      BY Zenon, TypeOK, FS_Subset, FS_CardinalityType DEF TypeOK, WatchType
    <3>2. Cardinality(Registered') = Cardinality(Registered) - Cardinality(watched[c])
      BY Zenon, <2>15, TypeOK, RegisteredWithout
        DEF TypeOK, ControlType, clearWatch, NoWatch, Goto
    <3> QED
      BY <2>15, <3>1, <3>2, RegisteredFinite, TypeOK, WatcherCount
      DEF WatcherCount, clearWatch, TypeOK, StoreType
  <2>16. CASE \E k \in Keys : Reclaim(c, k)
    <3>1. Registered' = Registered
      BY Zenon, <2>16, TypeOK, RegisteredFrame DEF TypeOK, ControlType, Reclaim
    <3> QED
      BY Zenon, <2>16, <3>1, WatcherCount DEF WatcherCount, Reclaim
  <2>17. CASE Reset(c)
    <3>1. Registered' = Registered
      BY Zenon, <2>17, TypeOK, RegisteredFrame
        DEF TypeOK, ControlType, Reset, Return, Forget, Goto
    <3> QED
      BY Zenon, <2>17, <3>1, WatcherCount DEF WatcherCount, Reset
  <2>18. CASE Exec(c)
    <3>1. Registered' = Registered
      BY Zenon, <2>18, TypeOK, RegisteredFrame DEF TypeOK, ControlType, Exec, Goto
    <3> QED
      BY Zenon, <2>18, <3>1, WatcherCount DEF WatcherCount, Exec
  <2>19. CASE ExecAbort(c)
    <3>1. Registered' = Registered
      BY Zenon, <2>19, TypeOK, RegisteredFrame DEF TypeOK, ControlType, ExecAbort, GiveUp, Goto
    <3> QED
      BY Zenon, <2>19, <3>1, WatcherCount DEF WatcherCount, ExecAbort
  <2>20. CASE \E k \in Keys : ExecVerify(c, k)
    <3>1. Registered' = Registered
      BY Zenon, <2>20, TypeOK, RegisteredFrame DEF TypeOK, ControlType, ExecVerify, GiveUp, Goto
    <3> QED
      BY Zenon, <2>20, <3>1, WatcherCount DEF WatcherCount, ExecVerify
  <2>21. CASE ExecCommit(c)
    <3>1. Registered' = Registered
      BY Zenon, <2>21, TypeOK, RegisteredFrame DEF TypeOK, ControlType, ExecCommit, Goto
    <3> QED
      BY Zenon, <2>21, <3>1, WatcherCount DEF WatcherCount, ExecCommit
  <2>22. CASE ExecRun(c)
    <3>1. Registered' = Registered
      BY Zenon, <2>22, TypeOK, RegisteredFrame DEF TypeOK, ControlType, ExecRun, Dispatch, Goto
    <3> QED
      BY Zenon, <2>22, <3>1, WatcherCount DEF WatcherCount, ExecRun
  <2>23. CASE ExecEnd(c)
    <3>1. Registered' = Registered
      BY Zenon, <2>23, TypeOK, RegisteredFrame DEF TypeOK, ControlType, ExecEnd, Goto
    <3> QED
      BY Zenon, <2>23, <3>1, WatcherCount DEF WatcherCount, ExecEnd
  <2>24. CASE Drop(c)
    <3>1. Cardinality(watched[c]) \in Nat
      BY ZenonT(40), TypeOK, FS_Subset, FS_CardinalityType DEF TypeOK, WatchType
    <3>2. Cardinality(Registered') = Cardinality(Registered) - Cardinality(watched[c])
      BY Zenon, <2>24, TypeOK, RegisteredWithout DEF TypeOK, ControlType, Drop, NoWatch
    <3> QED
      BY SMTT(30), <2>24, <3>1, <3>2, RegisteredFinite, TypeOK, WatcherCount
      DEF WatcherCount, Drop, TypeOK, StoreType
  <2> QED
    BY ZenonT(40), <1>1, <2>1, <2>2, <2>3, <2>4, <2>5, <2>6, <2>7, <2>8, <2>9, <2>10, <2>11, <2>12,
       <2>13, <2>14, <2>15, <2>16, <2>17, <2>18, <2>19, <2>20, <2>21, <2>22, <2>23, <2>24
    DEF ClientStep
<1>2. CASE \E k \in Keys : Expire(k)
  <2>1. Registered' = Registered
    BY Zenon, <1>2, TypeOK, RegisteredFrame DEF TypeOK, ControlType, Expire
  <2> QED
    BY Zenon, <1>2, <2>1, WatcherCount DEF WatcherCount, Expire
<1>3. CASE \E k \in Keys : Evict(k)
  <2>1. Registered' = Registered
    BY Zenon, <1>3, TypeOK, RegisteredFrame DEF TypeOK, ControlType, Evict
  <2> QED
    BY Zenon, <1>3, <2>1, WatcherCount DEF WatcherCount, Evict
<1> QED
  BY Zenon, <1>1, <1>2, <1>3 DEF Next

(* A pending Touch stays pending while its client does not move. *)
LEMMA TouchKept ==
  ASSUME NEW c \in Clients, pc[c] \notin {"body", "touch", "bump"},
         \A d \in Clients \ {c} :
           pc'[d] = pc[d] /\ op'[d] = op[d] /\ key'[d] = key[d]
  PROVE  \A k \in Keys : TouchPending(k) => TouchPending(k)'
BY Zenon DEF TouchPending

(* What a step may do to a key and still have its watchers notice. *)
Noticed(k) ==
  /\ (\E c \in Clients : k \in watched[c]) => ver'[k] >= ver[k]
  /\ (\E c \in Clients : k \in watched[c]) =>
       \/ ver'[k] > ver[k]
       \/ TouchPending(k)'
       \/ mod'[k] = mod[k] /\ (TouchPending(k) => TouchPending(k)')

(* A step that changes no watch, and changes keys only noticeably, keeps   *)
(* every modification visible.                                             *)
LEMMA VisibleFrame ==
  ASSUME TypeOK, TypeOK', VersionsGrow, ModifiedIsVisible,
         UNCHANGED watch, \A k \in Keys : Noticed(k)
  PROVE  VersionsGrow' /\ ModifiedIsVisible'
<1> SUFFICES ASSUME NEW c \in Clients, NEW k \in watched'[c]
             PROVE  /\ ver'[k] >= wver'[c][k]
                    /\ mod'[k] # seen'[c][k] =>
                         ver'[k] > wver'[c][k] \/ TouchPending(k)'
  BY Zenon DEF VersionsGrow, ModifiedIsVisible
<1>1. k \in Keys /\ k \in watched[c] /\ wver'[c][k] = wver[c][k] /\ seen'[c][k] = seen[c][k]
  BY Zenon, TypeOK DEF TypeOK, WatchType, watch
<1>2. Noticed(k)
  BY Zenon, <1>1
<1>3. ver[k] \in Nat /\ ver'[k] \in Nat /\ wver[c][k] \in Nat
  BY Zenon, <1>1, TypeOK, TypeOK' DEF TypeOK, StoreType, WatchType
<1>4. ver[k] >= wver[c][k] /\ (mod[k] # seen[c][k] => ver[k] > wver[c][k] \/ TouchPending(k))
  BY Zenon, <1>1, VersionsGrow, ModifiedIsVisible DEF VersionsGrow, ModifiedIsVisible
<1> QED
  BY <1>1, <1>2, <1>3, <1>4 DEF Noticed

(* In particular a step that leaves every key and every watch alone. *)
LEMMA QuietFrame ==
  ASSUME TypeOK, TypeOK', VersionsGrow, ModifiedIsVisible, UNCHANGED <<ver, mod, watch>>,
         \A k \in Keys : TouchPending(k) => TouchPending(k)'
  PROVE  VersionsGrow' /\ ModifiedIsVisible'
<1>1. ASSUME NEW k \in Keys
      PROVE  Noticed(k)
  <2>1. ver[k] \in Nat /\ ver'[k] = ver[k] /\ mod'[k] = mod[k]
    BY Zenon, TypeOK DEF TypeOK, StoreType
  <2> QED
    BY <2>1 DEF Noticed
<1> QED
  BY Zenon, <1>1, VisibleFrame

(* The change a handler or the cron makes to key k, other than in place. *)
LEMMA SetNoticed ==
  ASSUME TypeOK, WatcherCount, NEW k \in Keys, SetKey(k) \/ DelKey(k) \/ FlushShard(k),
         \A j \in Keys : TouchPending(j) => TouchPending(j)'
  PROVE  \A j \in Keys : Noticed(j)
<1>1. \A j \in Keys \ {k} : ver'[j] = ver[j] /\ mod'[j] = mod[j]
  BY Zenon, TypeOK
    DEF TypeOK, StoreType, SetKey, DelKey, FlushShard, Store, Remove, bumpVersion, db
<1>2. \A j \in Keys : ver[j] \in Nat
  BY Zenon, TypeOK DEF TypeOK, StoreType
<1>3. CASE watchers > 0
  <2>1. ver'[k] = ver[k] + 1 \/ (ver'[k] = ver[k] /\ mod'[k] = mod[k])
    BY Zenon, <1>3, TypeOK
      DEF TypeOK, StoreType, SetKey, DelKey, FlushShard, Store, Remove, bumpVersion, db
  <2> QED
    BY <1>1, <1>2, <2>1 DEF Noticed
<1>4. CASE ~(watchers > 0)
  BY Zenon, <1>4, TypeOK, WatcherCount, WatchedCounts DEF Noticed
<1> QED
  BY Zenon, <1>3, <1>4

(* A modification stays visible to the clients that watch the key. *)
LEMMA VisibleStep ==
  ASSUME Ops \subseteq TrackedOps, TypeOK, TypeOK', LockInv, CommandInv,
         WatcherCount, VersionsGrow, ModifiedIsVisible, Next
  PROVE  VersionsGrow' /\ ModifiedIsVisible'
<1> USE ConstantsAssumption DEF db, lock, tx, watch, at
<1>1. ASSUME NEW c \in Clients, ClientStep(c)
      PROVE  VersionsGrow' /\ ModifiedIsVisible'
  <2>1. CASE \E K \in (SUBSET Keys) \ {{}} : Watch(c, K)
    <3>1. \A k \in Keys : TouchPending(k) => TouchPending(k)'
      BY Zenon, <2>1, TypeOK, TouchKept DEF TypeOK, ControlType, Watch, Goto
    <3> QED
      BY Zenon, <2>1, <3>1, QuietFrame DEF Watch
  <2>2. CASE \E k \in Keys : WatchAdd(c, k)
    <3>1. \A k \in Keys : TouchPending(k) => TouchPending(k)'
      BY Zenon, <2>2, TypeOK, TouchKept DEF TypeOK, ControlType, WatchAdd, Goto
    <3> QED
      BY Zenon, <2>2, <3>1, QuietFrame DEF WatchAdd
  <2>3. CASE WatchGet(c)
    <3>1. \A k \in Keys : TouchPending(k) => TouchPending(k)'
      BY Zenon, <2>3, TypeOK, TouchKept DEF TypeOK, ControlType, WatchGet, Return, Forget, Goto
    <3> SUFFICES ASSUME NEW d \in Clients, NEW k \in watched'[d]
                 PROVE  /\ ver'[k] >= wver'[d][k]
                        /\ mod'[k] # seen'[d][k] =>
                             ver'[k] > wver'[d][k] \/ TouchPending(k)'
      BY Zenon DEF VersionsGrow, ModifiedIsVisible
    <3>2. k \in Keys /\ ver' = ver /\ mod' = mod /\ ver[k] \in Nat
      BY ZenonT(40), <2>3, TypeOK, TypeOK' DEF TypeOK, WatchType, StoreType, WatchGet
    <3>3. CASE d = c /\ k = key[c]
      BY SMTT(30), <2>3, <3>2, <3>3, TypeOK DEF WatchGet, TypeOK, WatchType
    <3>4. CASE ~(d = c /\ k = key[c])
      <4>1. k \in watched[d] /\ wver'[d][k] = wver[d][k] /\ seen'[d][k] = seen[d][k]
        BY Zenon, <2>3, <3>4, TypeOK DEF WatchGet, TypeOK, WatchType
      <4> QED
        BY Zenon, <3>1, <3>2, <4>1, VersionsGrow, ModifiedIsVisible
          DEF VersionsGrow, ModifiedIsVisible
    <3> QED
      BY Zenon, <3>3, <3>4
  <2>4. CASE Multi(c)
    <3>1. \A k \in Keys : TouchPending(k) => TouchPending(k)'
      BY Zenon, <2>4, TypeOK, TouchKept DEF TypeOK, ControlType, Multi
    <3> QED
      BY Zenon, <2>4, <3>1, QuietFrame DEF Multi
  <2>5. CASE EnqueueError(c)
    <3>1. \A k \in Keys : TouchPending(k) => TouchPending(k)'
      BY Zenon, <2>5, TypeOK, TouchKept DEF TypeOK, ControlType, EnqueueError
    <3> QED
      BY Zenon, <2>5, <3>1, QuietFrame DEF EnqueueError
  <2>6. CASE EnqueueDenied(c)
    <3>1. \A k \in Keys : TouchPending(k) => TouchPending(k)'
      BY Zenon, <2>6, TypeOK, TouchKept DEF TypeOK, ControlType, EnqueueDenied
    <3> QED
      BY Zenon, <2>6, <3>1, QuietFrame DEF EnqueueDenied
  <2>7. CASE \E m \in Commands : Enqueue(c, m)
    <3>1. \A k \in Keys : TouchPending(k) => TouchPending(k)'
      BY Zenon, <2>7, TypeOK, TouchKept DEF TypeOK, ControlType, Enqueue
    <3> QED
      BY Zenon, <2>7, <3>1, QuietFrame DEF Enqueue
  <2>8. CASE \E m \in Commands : Call(c, m)
    <3>1. \A k \in Keys : TouchPending(k) => TouchPending(k)'
      BY ZenonT(30), <2>8, TypeOK, TouchKept DEF TypeOK, ControlType, Call, Dispatch, Goto
    <3> QED
      BY Zenon, <2>8, <3>1, QuietFrame DEF Call
  <2>9. CASE \E k \in Keys : Create(c, k)
    <3>1. PICK k \in Keys : Create(c, k)
      BY Zenon, <2>9
    <3>2. \A j \in Keys : TouchPending(j) => TouchPending(j)'
      BY Zenon, <3>1 DEF TouchPending, Create
    <3>3. \A j \in Keys : Noticed(j)
      BY Zenon, <3>1, <3>2, SetNoticed DEF Create
    <3> QED
      BY Zenon, <3>1, <3>3, VisibleFrame DEF Create
  <2>10. CASE \E k \in Keys : Body(c, k)
    <3>1. PICK k \in Keys : Body(c, k)
      BY ZenonT(40), <2>10
    <3>2. \A j \in Keys : TouchPending(j) => TouchPending(j)'
      BY Zenon, <3>1 DEF TouchPending, Body
    <3>3. CASE SetKey(k) \/ DelKey(k) \/ FlushShard(k)
      BY Zenon, <3>1, <3>2, <3>3, SetNoticed, VisibleFrame DEF Body
    <3>4. CASE op[c] \in {"push", "lmove"} /\ ChangeKey(k)
      <4>1. op[c] = "push" /\ key[c] = k
        BY Zenon, <3>1, <3>4, Ops \subseteq TrackedOps, CommandInv
          DEF CommandInv, Body, TrackedOps
      <4>2. TouchPending(k)'
        BY Zenon, <3>1, <4>1 DEF Body, TouchPending
      <4>3. \A j \in Keys : ver'[j] = ver[j] /\ (j # k => mod'[j] = mod[j])
        BY ZenonT(40), <3>4, TypeOK DEF ChangeKey, Store, TypeOK, StoreType
      <4>4. \A j \in Keys : Noticed(j)
        BY SMTT(30), <3>2, <4>2, <4>3, TypeOK DEF Noticed, TypeOK, StoreType
      <4> QED
        BY Zenon, <3>1, <4>4, VisibleFrame DEF Body
    <3> QED
      BY Zenon, <3>1, <3>3, <3>4 DEF Body
  <2>11. CASE BodyDone(c)
    <3>1. \A k \in Keys : TouchPending(k) => TouchPending(k)'
      BY <2>11, TypeOK
        DEF TouchPending, TypeOK, ControlType, BodyDone, Return, Forget, Goto
    <3> QED
      BY ZenonT(40), <2>11, <3>1, QuietFrame DEF BodyDone
  <2>12. CASE Touch(c)
    <3>1. CASE watchers = 0
      <4>1. \A d \in Clients, k \in Keys : k \notin watched[d]
        BY <3>1, TypeOK, WatcherCount, WatchedCounts
      <4> QED
        BY Zenon, <2>12, <4>1, VisibleFrame DEF Noticed, Touch
    <3>2. CASE watchers # 0
      <4>1. \A k \in Keys : TouchPending(k) => TouchPending(k)'
        BY Zenon, <2>12, <3>2, TypeOK DEF TouchPending, TypeOK, ControlType, Touch, Goto
      <4> QED
        BY Zenon, <2>12, <4>1, QuietFrame DEF Touch
    <3> QED
      BY Zenon, <3>1, <3>2
  <2>13. CASE TouchBump(c)
    <3>1. key[c] \in Keys
      BY Zenon, <2>13, CommandInv DEF CommandInv, TouchBump
    <3>2. /\ ver'[key[c]] = ver[key[c]] + 1
          /\ \A k \in Keys \ {key[c]} : ver'[k] = ver[k]
          /\ \A k \in Keys : ver[k] \in Nat /\ mod'[k] = mod[k]
      BY Zenon, <2>13, <3>1, TypeOK DEF TypeOK, StoreType, TouchBump
    <3>3. \A k \in Keys \ {key[c]} : TouchPending(k) => TouchPending(k)'
      BY Zenon, <2>13, TypeOK
        DEF TouchPending, TypeOK, ControlType, TouchBump, Return, Forget, Goto
    <3>4. \A k \in Keys : Noticed(k)
      BY <3>1, <3>2, <3>3 DEF Noticed
    <3> QED
      BY Zenon, <2>13, <3>4, VisibleFrame DEF TouchBump
  <2>14. CASE Discard(c)
    BY Zenon, <2>14, Ops \subseteq TrackedOps DEF TrackedOps, Discard
  <2>15. CASE clearWatch(c)
    <3>1. \A k \in Keys : TouchPending(k) => TouchPending(k)'
      BY Zenon, <2>15, TypeOK, TouchKept DEF TypeOK, ControlType, clearWatch, Goto
    <3>2. /\ watched'[c] = {} /\ UNCHANGED <<ver, mod>>
          /\ \A d \in Clients \ {c} : /\ watched'[d] = watched[d] /\ wver'[d] = wver[d]
                                      /\ seen'[d] = seen[d]
      BY ZenonT(30), <2>15, TypeOK DEF TypeOK, WatchType, clearWatch, NoWatch
    <3>3. \A d \in Clients : watched[d] \subseteq Keys
      BY Zenon, TypeOK DEF TypeOK, WatchType
    <3> QED
      BY Zenon, <3>1, <3>2, <3>3, VersionsGrow, ModifiedIsVisible
        DEF VersionsGrow, ModifiedIsVisible
  <2>16. CASE \E k \in Keys : Reclaim(c, k)
    <3>1. watchers <= 0
      BY Zenon, <2>16, CommandInv DEF CommandInv, Reclaim
    <3>2. \A d \in Clients, k \in Keys : k \notin watched[d]
      BY <3>1, TypeOK, WatcherCount, WatchedCounts DEF TypeOK, StoreType
    <3> QED
      BY Zenon, <2>16, <3>2, VisibleFrame DEF Noticed, Reclaim
  <2>17. CASE Reset(c)
    <3>1. \A k \in Keys : TouchPending(k) => TouchPending(k)'
      BY Zenon, <2>17, TypeOK, TouchKept DEF TypeOK, ControlType, Reset, Return, Forget, Goto
    <3> QED
      BY Zenon, <2>17, <3>1, QuietFrame DEF Reset
  <2>18. CASE Exec(c)
    <3>1. \A k \in Keys : TouchPending(k) => TouchPending(k)'
      BY Zenon, <2>18, TypeOK, TouchKept DEF TypeOK, ControlType, Exec, Goto
    <3> QED
      BY Zenon, <2>18, <3>1, QuietFrame DEF Exec
  <2>19. CASE ExecAbort(c)
    <3>1. \A k \in Keys : TouchPending(k) => TouchPending(k)'
      BY Zenon, <2>19, TypeOK, TouchKept DEF TypeOK, ControlType, ExecAbort, GiveUp, Goto
    <3> QED
      BY Zenon, <2>19, <3>1, QuietFrame DEF ExecAbort
  <2>20. CASE \E k \in Keys : ExecVerify(c, k)
    <3>1. \A k \in Keys : TouchPending(k) => TouchPending(k)'
      BY Zenon, <2>20, TypeOK, TouchKept DEF TypeOK, ControlType, ExecVerify, GiveUp, Goto
    <3> QED
      BY Zenon, <2>20, <3>1, QuietFrame DEF ExecVerify
  <2>21. CASE ExecCommit(c)
    <3>1. \A k \in Keys : TouchPending(k) => TouchPending(k)'
      BY Zenon, <2>21, TypeOK, TouchKept DEF TypeOK, ControlType, ExecCommit, Goto
    <3> QED
      BY Zenon, <2>21, <3>1, QuietFrame DEF ExecCommit
  <2>22. CASE ExecRun(c)
    <3>1. \A k \in Keys : TouchPending(k) => TouchPending(k)'
      BY Zenon, <2>22, TypeOK, TouchKept DEF TypeOK, ControlType, ExecRun, Dispatch, Goto
    <3> QED
      BY Zenon, <2>22, <3>1, QuietFrame DEF ExecRun
  <2>23. CASE ExecEnd(c)
    <3>1. \A k \in Keys : TouchPending(k) => TouchPending(k)'
      BY Zenon, <2>23, TypeOK, TouchKept DEF TypeOK, ControlType, ExecEnd, Goto
    <3> QED
      BY Zenon, <2>23, <3>1, QuietFrame DEF ExecEnd
  <2>24. CASE Drop(c)
    <3>1. \A k \in Keys : TouchPending(k) => TouchPending(k)'
      BY Zenon, <2>24, TypeOK, TouchKept DEF TypeOK, ControlType, Drop
    <3>2. /\ watched'[c] = {} /\ UNCHANGED <<ver, mod>>
          /\ \A d \in Clients \ {c} : /\ watched'[d] = watched[d] /\ wver'[d] = wver[d]
                                      /\ seen'[d] = seen[d]
      BY ZenonT(30), <2>24, TypeOK DEF TypeOK, WatchType, Drop, NoWatch
    <3>3. \A d \in Clients : watched[d] \subseteq Keys
      BY ZenonT(40), TypeOK DEF TypeOK, WatchType
    <3> QED
      BY ZenonT(40), <3>1, <3>2, <3>3, VersionsGrow, ModifiedIsVisible
        DEF VersionsGrow, ModifiedIsVisible
  <2> QED
    BY ZenonT(40), <1>1, <2>1, <2>2, <2>3, <2>4, <2>5, <2>6, <2>7, <2>8, <2>9, <2>10, <2>11, <2>12,
       <2>13, <2>14, <2>15, <2>16, <2>17, <2>18, <2>19, <2>20, <2>21, <2>22, <2>23, <2>24
    DEF ClientStep
<1>2. CASE \E k \in Keys : Expire(k)
  <2>1. PICK k \in Keys : Expire(k)
    BY Zenon, <1>2
  <2>2. \A j \in Keys : TouchPending(j) => TouchPending(j)'
    BY Zenon, <2>1 DEF TouchPending, Expire
  <2>3. \A j \in Keys : Noticed(j)
    BY Zenon, <2>1, <2>2, SetNoticed DEF Expire
  <2> QED
    BY Zenon, <2>1, <2>3, VisibleFrame DEF Expire
<1>3. CASE \E k \in Keys : Evict(k)
  BY Zenon, <1>3, Ops \subseteq TrackedOps DEF TrackedOps, Evict
<1> QED
  BY Zenon, <1>1, <1>2, <1>3 DEF Next

(* The inductive invariant holds initially ... *)
LEMMA WatchInvInit == Init => WatchInv
<1> SUFFICES ASSUME Init
             PROVE  WatchInv
  OBVIOUS
<1> USE ConstantsAssumption DEF Init
<1>1. TypeOK
  <2>1. StoreType /\ LockType /\ WatchType
    BY DEF StoreType, LockType, WatchType
  <2>2. TxType
    BY DEF TxType
  <2>3. ControlType
    BY Zenon DEF ControlType, PCs, OpNames
  <2> QED
    BY Zenon, <2>1, <2>2, <2>3 DEF TypeOK
<1>2. LockInv /\ CommandInv /\ VersionsGrow /\ ModifiedIsVisible
  BY Zenon DEF LockInv, CommandInv, VersionsGrow, ModifiedIsVisible
<1>3. WatcherCount
  <2>1. Registered = {}
    BY Zenon DEF Registered
  <2> QED
    BY SMTT(30), <2>1, FS_EmptySet DEF WatcherCount
<1> QED
  BY Zenon, <1>1, <1>2, <1>3 DEF WatchInv

(* ... and is kept by every step of a system whose operations are tracked. *)
LEMMA WatchInvStep ==
  ASSUME Ops \subseteq TrackedOps, WatchInv, [Next]_vars
  PROVE  WatchInv'
<1> USE DEF WatchInv
<1>1. CASE Next
  <2>1. TypeOK'
    BY Zenon, <1>1, TypeStep
  <2>2. LockInv' /\ CommandInv' /\ WatcherCount'
    BY Zenon, <1>1, LockStep, CommandStep, CountStep
  <2>3. VersionsGrow' /\ ModifiedIsVisible'
    BY Zenon, <1>1, <2>1, VisibleStep
  <2> QED
    BY Zenon, <2>1, <2>2, <2>3
<1>2. CASE UNCHANGED vars
  <2> USE <1>2 DEF vars, db, lock, tx, watch, at
  <2>1. TypeOK'
    BY Zenon DEF TypeOK, StoreType, LockType, TxType, WatchType, ControlType
  <2>2. LockInv' /\ CommandInv' /\ WatcherCount'
    BY Zenon DEF LockInv, CommandInv, WatcherCount, Registered
  <2>3. VersionsGrow' /\ ModifiedIsVisible'
    BY ZenonT(30) DEF VersionsGrow, ModifiedIsVisible, TouchPending
  <2> QED
    BY Zenon, <2>1, <2>2, <2>3
<1> QED
  BY Zenon, <1>1, <1>2

(* Whatever the number of clients and keys: as long as every operation     *)
(* gives the keys it changes a version and watches are given back by EXEC  *)
(* only, a modification of a watched key is visible in its version, or its *)
(* Touch is still to come.                                                 *)
THEOREM WatchInvariant ==
  ASSUME Ops \subseteq TrackedOps
  PROVE  Spec => []WatchInv
<1>1. Init => WatchInv
  BY Zenon, WatchInvInit
<1>2. WatchInv /\ [Next]_vars => WatchInv'
  BY WatchInvStep
<1> QED
  BY <1>1, <1>2, PTL DEF Spec

(* The step in which EXEC lets a key pass found the version WATCH recorded, *)
(* and no Touch was pending: its client would hold the operation lock.      *)
LEMMA PassesUnmodified ==
  ASSUME WatchInv, [Next]_vars, NEW c \in Clients, NEW k \in Keys, Passes(c, k)
  PROVE  mod[k] = seen[c][k]
<1> USE DEF WatchInv, Passes
<1>1. \E j \in Keys : ExecVerify(c, j)
  <2>1. todo'[c] # todo[c]
    OBVIOUS
  <2>2. CASE UNCHANGED vars
    BY Zenon, <2>1, <2>2 DEF vars, at
  <2>3. CASE \E j \in Keys : Expire(j) \/ Evict(j)
    BY Zenon, <2>1, <2>3 DEF Expire, Evict, at
  <2>4. ASSUME NEW d \in Clients, ClientStep(d)
        PROVE  d = c
    BY ZenonT(40), <2>1, <2>4, TypeOK
    DEF TypeOK, ControlType, at, ClientStep, Watch, WatchAdd, WatchGet, Multi,
        EnqueueError,
        EnqueueDenied, Enqueue, Call, Dispatch, Create, Body, BodyDone, Touch, TouchBump,
        Discard, clearWatch, Reset, Reclaim, Exec, ExecAbort, ExecCommit, ExecRun, ExecEnd,
        ExecVerify, GiveUp, Visit, Drop
  <2>5. CASE ClientStep(c)
    BY ZenonT(40), <2>1, <2>5, TypeOK
    DEF TypeOK, ControlType, PCs, at, ClientStep, Watch, WatchAdd, WatchGet, Multi,
        EnqueueError, EnqueueDenied, Enqueue, Call, Create, Body, BodyDone, Touch, TouchBump,
        Discard, clearWatch, Reset, Reclaim, Exec, ExecAbort, GiveUp, ExecCommit, ExecRun,
        ExecEnd, Drop, Goto
  <2> QED
    BY Zenon, <2>2, <2>3, <2>4, <2>5 DEF Next
<1>2. ver[k] = wver[c][k] /\ k \in watched[c]
  BY SMTT(30), <1>1, TypeOK, CommandInv
  DEF TypeOK, ControlType, CommandInv, ExecVerify, GiveUp, Goto, Visit, PCs
<1>3. ~TouchPending(k)
  BY Zenon, LockInv, ConstantsAssumption DEF LockInv, TouchPending
<1>4. ~(ver[k] > wver[c][k])
  BY SMTT(30), <1>2, TypeOK DEF TypeOK, StoreType
<1>5. mod[k] # seen[c][k] => ver[k] > wver[c][k] \/ TouchPending(k)
  BY Zenon, <1>2, ModifiedIsVisible DEF ModifiedIsVisible
<1> QED
  BY Zenon, <1>3, <1>4, <1>5

(* Under the same condition EXEC never commits over a modification made    *)
(* since the WATCH.                                                        *)
THEOREM ExecNeverLosesAnUpdate ==
  ASSUME Ops \subseteq TrackedOps
  PROVE  Spec => NoLostUpdate
<1>1. WatchInv /\ [Next]_vars =>
        [\A c \in Clients, k \in Keys : Passes(c, k) => mod[k] = seen[c][k]]_vars
  BY PassesUnmodified
<1> QED
  BY <1>1, WatchInvariant, PTL DEF Spec, NoLostUpdate

(* What is left of the versions once nobody watches: the ones a            *)
(* RemoveWatchers in progress has still to visit.                          *)
ReclaimInv ==
  /\ leaked = 0
  /\ \A c \in Clients : pc[c] = "bump" => watchers > 0
  /\ ~(watchers > 0) =>
       \A k \in Keys :
         ver[k] = 0 \/ \E c \in Clients : pc[c] = "reclaim" /\ k \in todo[c]

(* A step that gives nobody a watch and takes none. *)
LEMMA ReclaimFrame ==
  ASSUME ReclaimInv, UNCHANGED <<watchers, leaked>>,
         \A k \in Keys : watchers > 0 \/ ver'[k] = ver[k] \/ ver'[k] = 0,
         \A c \in Clients :
           /\ pc'[c] = "bump" => pc[c] = "bump" \/ watchers > 0
           /\ pc[c] = "reclaim" /\ todo[c] # {} => pc'[c] = "reclaim" /\ todo'[c] = todo[c]
  PROVE  ReclaimInv'
BY Zenon DEF ReclaimInv

(* Every step keeps that, when no client hangs up and only EXEC gives      *)
(* watches back: a hang-up leaves a watch behind for ever, and an UNWATCH  *)
(* that is not alone may empty a version just before another client's      *)
(* Touch raises it.                                                        *)
LEMMA ReclaimStep ==
  ASSUME Ops \subseteq TrackedOps, "drop" \notin Ops, WatchInv, ReclaimInv, Next
  PROVE  ReclaimInv'
<1> USE DEF db, lock, tx, watch, at
<1>0. TypeOK /\ LockInv /\ CommandInv /\ WatcherCount
  BY Zenon DEF WatchInv
<1>a. watchers \in Nat
  BY <1>0, RegisteredFinite DEF WatcherCount, ReclaimInv
<1>b. ASSUME NEW k \in Keys, SetKey(k) \/ DelKey(k) \/ ChangeKey(k) \/ FlushShard(k)
      PROVE  \A j \in Keys : watchers > 0 \/ ver'[j] = ver[j] \/ ver'[j] = 0
  BY Zenon, <1>0, <1>b
  DEF TypeOK, StoreType, SetKey, DelKey, ChangeKey, FlushShard, bumpVersion
<1>1. ASSUME NEW c \in Clients, ClientStep(c)
      PROVE  ReclaimInv'
  <2>1. CASE \E k \in Keys : WatchAdd(c, k)
    <3>1. PICK k \in Keys : WatchAdd(c, k)
      BY Zenon, <2>1
    <3>2. CASE k \in watched[c]
      BY Zenon, <1>0, <3>1, <3>2, ReclaimFrame
      DEF WatchAdd, Goto, Visit, TypeOK, ControlType
    <3>3. CASE k \notin watched[c]
      <4>1. watchers' > 0
        BY SMTT(30), <1>a, <3>1, <3>3 DEF WatchAdd
      <4> QED
        BY Zenon, <3>1, <4>1 DEF WatchAdd, ReclaimInv
    <3> QED
      BY Zenon, <3>2, <3>3
  <2>2. CASE \E k \in Keys : Create(c, k)
    BY Zenon, <1>b, <2>2, ReclaimFrame DEF Create
  <2>3. CASE \E k \in Keys : Body(c, k)
    <3>1. PICK k \in Keys : Body(c, k)
      BY ZenonT(40), <2>3
    <3>2. \A j \in Keys : watchers > 0 \/ ver'[j] = ver[j] \/ ver'[j] = 0
      BY Zenon, <1>b, <3>1 DEF Body
    <3> QED
      BY Zenon, <1>0, <3>1, <3>2, ReclaimFrame DEF Body, Visit, TypeOK, ControlType
  <2>4. CASE Touch(c)
    <3>1. CASE watchers = 0
      BY Zenon, <1>0, <2>4, <3>1, ReclaimFrame
      DEF Touch, Return, Goto, TypeOK, ControlType
    <3>2. CASE watchers # 0
      <4>1. watchers > 0
        BY <1>a, <3>2
      <4> QED
        BY Zenon, <1>0, <2>4, <3>2, <4>1, ReclaimFrame DEF Touch, Goto, TypeOK, ControlType
    <3> QED
      BY Zenon, <3>1, <3>2
  <2>5. CASE TouchBump(c)
    <3>1. watchers > 0
      BY Zenon, <2>5 DEF TouchBump, ReclaimInv
    <3> QED
      BY Zenon, <1>0, <2>5, <3>1, ReclaimFrame
      DEF TouchBump, Return, Goto, TypeOK, ControlType
  <2>6. CASE clearWatch(c)
    <3>1. \A d \in Clients : pc'[d] # "bump"
      <4>1. \A d \in Clients \ {c} : pc[d] = "idle"
        BY Zenon, <1>0, <2>6, ConstantsAssumption DEF clearWatch, LockInv
      <4> QED
        BY Zenon, <1>0, <2>6, <4>1 DEF clearWatch, Goto, TypeOK, ControlType
    <3>2. CASE watched[c] = {}
      <4>1. watchers' = watchers
        BY <1>a, <2>6, <3>2, FS_EmptySet DEF clearWatch
      <4> QED
        BY Zenon, <1>0, <2>6, <3>1, <4>1, ReclaimFrame
        DEF clearWatch, Goto, TypeOK, ControlType
    <3>3. CASE watched[c] # {}
      <4> SUFFICES ASSUME ~(watchers' > 0)
                   PROVE  \A k \in Keys : \E d \in Clients : pc'[d] = "reclaim" /\ k \in todo'[d]
        BY Zenon, <2>6, <3>1 DEF clearWatch, ReclaimInv
      <4>1. Cardinality(watched[c]) \in Int
        <5>1. IsFiniteSet(watched[c])
          BY Zenon, <1>0, ConstantsAssumption, FS_Subset DEF TypeOK, WatchType
        <5> QED
          BY <5>1, FS_CardinalityType
      <4>2. watchers' = watchers - Cardinality(watched[c]) /\ watchers' <= 0
        BY <1>a, <2>6, <4>1 DEF clearWatch
      <4>3. pc'[c] = "reclaim" /\ todo'[c] = Keys
        BY Zenon, <1>0, <2>6, <3>3, <4>2 DEF clearWatch, Goto, TypeOK, ControlType
      <4> QED
        BY Zenon, <4>3
    <3> QED
      BY Zenon, <3>2, <3>3
  <2>7. CASE \E k \in Keys : Reclaim(c, k)
    <3>1. PICK k \in Keys : Reclaim(c, k)
      BY ZenonT(40), <2>7
    <3>2. /\ ver'[k] = 0 /\ todo'[c] = todo[c] \ {k}
          /\ \A j \in Keys \ {k} : ver'[j] = ver[j]
          /\ \A d \in Clients \ {c} : todo'[d] = todo[d]
      BY Zenon, <1>0, <3>1 DEF Reclaim, Visit, TypeOK, ControlType, StoreType
    <3> QED
      BY Zenon, <3>1, <3>2 DEF Reclaim, ReclaimInv
  <2>8. CASE \/ \E K \in (SUBSET Keys) \ {{}} : Watch(c, K)
             \/ WatchGet(c) \/ BodyDone(c) \/ Reset(c)
    BY Zenon, <1>0, <2>8, ReclaimFrame
    DEF Watch, WatchGet, BodyDone, Reset, Return, Goto, TypeOK, ControlType
  <2>9. CASE \/ Multi(c) \/ EnqueueError(c) \/ EnqueueDenied(c)
             \/ \E m \in Commands : Enqueue(c, m)
    BY Zenon, <2>9, ReclaimFrame DEF Multi, EnqueueError, EnqueueDenied, Enqueue
  <2>10. CASE (\E m \in Commands : Call(c, m)) \/ ExecRun(c)
    BY Zenon, <1>0, <2>10, ReclaimFrame
    DEF Call, ExecRun, Dispatch, Goto, TypeOK, ControlType
  <2>11. CASE Discard(c) \/ Drop(c)
    BY Zenon, <2>11, Ops \subseteq TrackedOps DEF TrackedOps, Discard, Drop
  <2>12. CASE \/ Exec(c) \/ ExecAbort(c) \/ ExecCommit(c) \/ ExecEnd(c)
              \/ \E k \in Keys : ExecVerify(c, k)
    BY ZenonT(30), <1>0, <2>12, ReclaimFrame
    DEF Exec, ExecAbort, ExecCommit, ExecEnd, ExecVerify, GiveUp, Visit, Goto, TypeOK, ControlType
  <2> QED
    BY ZenonT(40), <1>1, <2>1, <2>2, <2>3, <2>4, <2>5, <2>6, <2>7, <2>8, <2>9, <2>10, <2>11, <2>12
    DEF ClientStep
<1>2. CASE \E k \in Keys : Expire(k)
  BY Zenon, <1>b, <1>2, ReclaimFrame DEF Expire
<1>3. CASE \E k \in Keys : Evict(k)
  BY Zenon, <1>3, Ops \subseteq TrackedOps DEF TrackedOps, Evict
<1> QED
  BY Zenon, <1>1, <1>2, <1>3 DEF Next

(* Whatever the number of clients and keys: once every client is idle and  *)
(* none watches a key, RemoveWatchers has emptied every version, as the    *)
(* comment of the version maps promises (sharded.go:393-413).              *)
THEOREM VersionsAreReclaimed ==
  ASSUME Ops \subseteq TrackedOps, "drop" \notin Ops
  PROVE  Spec => []VersionsReclaimed
<1>1. Init => ReclaimInv
  <2> SUFFICES ASSUME Init
               PROVE  ReclaimInv
    OBVIOUS
  <2>1. leaked = 0 /\ \A c \in Clients : pc[c] = "idle"
    BY Zenon DEF Init
  <2>2. \A k \in Keys : ver[k] = 0
    BY Zenon DEF Init
  <2> QED
    BY Zenon, <2>1, <2>2 DEF ReclaimInv
<1>2. WatchInv /\ ReclaimInv /\ [Next]_vars => ReclaimInv'
  <2>1. CASE UNCHANGED vars
    BY Zenon, <2>1 DEF vars, db, at, ReclaimInv
  <2> QED
    BY Zenon, <2>1, ReclaimStep
<1>3. WatchInv /\ ReclaimInv => VersionsReclaimed
  <2> SUFFICES ASSUME WatchInv, ReclaimInv, \A c \in Clients : pc[c] = "idle" /\ watched[c] = {}
               PROVE  \A k \in Keys : ver[k] = 0
    BY Zenon DEF VersionsReclaimed
  <2>1. Registered = {}
    BY Zenon DEF Registered
  <2>2. ~(watchers > 0)
    BY <2>1, FS_EmptySet DEF WatchInv, WatcherCount, ReclaimInv
  <2> QED
    BY Zenon, <2>2 DEF ReclaimInv
<1> QED
  BY <1>1, <1>2, <1>3, WatchInvariant, PTL DEF Spec
=============================================================================
