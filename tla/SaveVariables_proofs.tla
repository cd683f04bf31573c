------------------------- MODULE SaveVariables_proofs -------------------------
(***************************************************************************)
(* Proofs about SaveVariables, for any keys, values and bounds: its types, *)
(* that a key out of the journal is on disk, that keys set in one batch    *)
(* land together, and that the manager implements DurableStore.            *)
(***************************************************************************)
EXTENDS SaveVariables, TLAPS

-----------------------------------------------------------------------------
(* Operators on the journal. *)

LEMMA OverlayType ==
    ASSUME NEW S, NEW K \in SUBSET Keys, NEW batch \in [K -> S], NEW f \in [Keys -> S]
    PROVE  Overlay(batch, f) \in [Keys -> S]
BY DEF Overlay

LEMMA ApplyType ==
    ASSUME NEW journal \in [Keys -> Contents \cup {Confirmed}], NEW f \in [Keys -> Contents]
    PROVE  ApplyPending(journal, f) \in [Keys -> Contents]
BY DEF ApplyPending

LEMMA ReconcileType ==
    ASSUME NEW journal \in [Keys -> Contents \cup {Confirmed}], NEW f \in [Keys -> Contents]
    PROVE  Reconcile(journal, f) \in [Keys -> Contents \cup {Confirmed}]
BY DEF Reconcile

(* Every set, delete or upgrade is one update of a batch of keys. *)
Updates ==
    \E K \in SUBSET Keys : \E batch \in [K -> Contents], write \in BOOLEAN :
        /\ Update(batch, write)
        /\ Together \subseteq K \/ K \cap Together = {}
        /\ \A j, k \in K \cap Together : batch[j] = batch[k]

LEMMA UpdatesCovered ==
    ASSUME TypeOK,
           \/ \E k \in Keys, write \in WriteArgs :
                 Delete(k, write) \/ \E v \in Values : Set(k, v, write)
           \/ \E v \in Values : SetTogether(v)
           \/ \E old, new \in Keys : Upgrade(old, new)
    PROVE  Updates
<1>1. CASE \E k \in Keys, write \in WriteArgs :
              Delete(k, write) \/ \E v \in Values : Set(k, v, write)
  <2>1. PICK k \in Keys, write \in WriteArgs :
           Delete(k, write) \/ \E v \in Values : Set(k, v, write)
        BY <1>1
  <2>2. write \in BOOLEAN BY SaveVariablesAssumption
  <2>3. PICK v \in Contents : k \notin Together /\ Update([x \in {k} |-> v], write)
        BY <2>1 DEF Delete, Set, Contents
  <2>4. {k} \in SUBSET Keys /\ {k} \cap Together = {} /\ [x \in {k} |-> v] \in [{k} -> Contents]
        BY <2>3
  <2> QED BY <2>2, <2>3, <2>4 DEF Updates
<1>2. CASE \E v \in Values : SetTogether(v)
  <2>1. PICK v \in Values : Update([x \in Together |-> v], TRUE)
        BY <1>2 DEF SetTogether
  <2>2. /\ Together \in SUBSET Keys
        /\ [x \in Together |-> v] \in [Together -> Contents]
        BY SaveVariablesAssumption DEF Contents
  <2> QED BY <2>1, <2>2 DEF Updates
<1>3. CASE \E old, new \in Keys : Upgrade(old, new)
  <2>1. PICK old, new \in Keys : Upgrade(old, new)
        BY <1>3
  <2> DEFINE batch == [x \in {old, new} |-> IF x = new THEN Get(old) ELSE Deleted]
  <2>2. Update(batch, FALSE) /\ {old, new} \cap Together = {}
        BY <2>1 DEF Upgrade
  <2>3. Get(old) \in Contents
        BY <2>1 DEF Get, TypeOK, Stores
  <2>4. batch \in [{old, new} -> Contents]
        BY <2>3 DEF Contents
  <2>5. {old, new} \in SUBSET Keys OBVIOUS
  <2> HIDE DEF batch
  <2> QED BY <2>2, <2>4, <2>5 DEF Updates
<1> QED BY <1>1, <1>2, <1>3

(* The steps of Next other than updates. *)
Others ==
    \/ HandleReady \/ HandleReadyFlush
    \/ FlushStarts \/ FlushDropped
    \/ Granted \/ FileWritten \/ SaveFails \/ WriterReads
    \/ CommandStarts \/ CommandEnds \/ ForeignSave \/ ForeignReads
    \/ SuspendWrites \/ ResumeWrites
    \/ Shutdown \/ Crash \/ Disconnect

LEMMA Steps == ASSUME TypeOK, Next PROVE Updates \/ Others
BY UpdatesCovered DEF Next, Others

-----------------------------------------------------------------------------
(* Types. *)

LEMMA InitType == Init => TypeOK
<1> SUFFICES ASSUME Init PROVE TypeOK OBVIOUS
<1>1. Flags BY DEF Init, Flags
<1>2. Stores BY DEF Init, Stores
<1>3. Control BY SaveVariablesAssumption DEF Init, Control
<1> QED BY <1>1, <1>2, <1>3 DEF TypeOK

LEMMA UpdatesType == TypeOK /\ Updates => TypeOK'
<1> SUFFICES ASSUME TypeOK, Updates PROVE TypeOK' OBVIOUS
<1>0. PICK K \in SUBSET Keys :
         \E batch \in [K -> Contents], write \in BOOLEAN : Update(batch, write)
      BY DEF Updates
<1>1. PICK batch \in [K -> Contents], write \in BOOLEAN : Update(batch, write)
      BY <1>0
<1>2. pending' \in [Keys -> Contents \cup {Confirmed}]
  <2>1. batch \in [K -> Contents \cup {Confirmed}] OBVIOUS
  <2> QED BY <1>1, <2>1, OverlayType DEF Update, TypeOK, Stores
<1>3. allVariables' \in [Keys -> Contents]
      BY <1>1, OverlayType DEF Update, TypeOK, Stores
<1>4. Stores' BY <1>1, <1>2, <1>3 DEF Update, TypeOK, Stores
<1>5. Flags' BY <1>1 DEF Update, TypeOK, Flags
<1>6. Control' BY <1>1 DEF Update, TypeOK, Control, Flags
<1> QED BY <1>4, <1>5, <1>6 DEF TypeOK

LEMMA FlagsStep == Flags /\ Others => Flags'
<1> SUFFICES ASSUME Flags, Others PROVE Flags' OBVIOUS
<1>2. CASE HandleReady BY <1>2 DEF HandleReady, Flags
<1>3. CASE HandleReadyFlush BY <1>3 DEF HandleReadyFlush, BeginPass, Save, Flags
<1>4. CASE FlushStarts BY <1>4 DEF FlushStarts, BeginPass, Save, MutexFree, Flags
<1>5. CASE FlushDropped BY <1>5 DEF FlushDropped, Flags
<1>6. CASE Granted BY <1>6 DEF Granted, Save, WriterLeaves, Flags
<1>7. CASE FileWritten BY <1>7 DEF FileWritten, Flags
<1>8. CASE SaveFails BY <1>8 DEF SaveFails, WriterLeaves, Flags
<1>9. CASE WriterReads BY <1>9 DEF WriterReads, BeginPass, Save, WriterLeaves, Flags
<1>10. CASE CommandStarts BY <1>10 DEF CommandStarts, Flags
<1>11. CASE CommandEnds BY <1>11 DEF CommandEnds, Flags
<1>12. CASE ForeignSave BY <1>12 DEF ForeignSave, Flags
<1>13. CASE ForeignReads BY <1>13 DEF ForeignReads, Flags
<1>14. CASE SuspendWrites BY <1>14 DEF SuspendWrites, Flags
<1>15. CASE ResumeWrites BY <1>15 DEF ResumeWrites, Flags
<1>16. CASE Shutdown BY <1>16 DEF Shutdown, Flags
<1>17. CASE Crash BY <1>17 DEF Crash, Restart, Flags
<1>18. CASE Disconnect BY <1>18 DEF Disconnect, Restart, Flags
<1> QED BY <1>2, <1>3, <1>4, <1>5, <1>6, <1>7, <1>8, <1>9, <1>10, <1>11, <1>12, <1>13, <1>14, <1>15, <1>16, <1>17, <1>18 DEF Others

LEMMA StoresStep == Stores /\ Others => Stores'
<1> SUFFICES ASSUME Stores, Others PROVE Stores' OBVIOUS
<1>1. ApplyPending(pending, allVariables) \in [Keys -> Contents]
      BY ApplyType DEF Stores
<1>2. CASE HandleReady BY <1>2, <1>1 DEF HandleReady, Stores
<1>3. CASE HandleReadyFlush BY <1>3, <1>1 DEF HandleReadyFlush, BeginPass, Save, Stores
<1>4. CASE FlushStarts BY <1>4, <1>1 DEF FlushStarts, BeginPass, Save, MutexFree, Stores
<1>5. CASE FlushDropped BY <1>5, <1>1 DEF FlushDropped, Stores
<1>6. CASE Granted BY <1>6, <1>1 DEF Granted, Save, WriterLeaves, Stores
<1>7. CASE FileWritten BY <1>7, <1>1 DEF FileWritten, Stores
<1>8. CASE SaveFails BY <1>8, <1>1 DEF SaveFails, WriterLeaves, Stores
<1>9. CASE WriterReads
  <2> DEFINE left == Reconcile(pending, file)
             dict == ApplyPending(left, file)
  <2>1. left \in [Keys -> Contents \cup {Confirmed}]
        BY ReconcileType DEF Stores
  <2>2. dict \in [Keys -> Contents]
        BY <2>1, ApplyType DEF Stores
  <2>3. pending' = left /\ allVariables' = dict /\ file' = file
        BY <1>9 DEF WriterReads, BeginPass
  <2>4. newvars' = dict \/ newvars' = newvars
        BY <1>9 DEF WriterReads, Save
  <2> QED BY <2>1, <2>2, <2>3, <2>4 DEF Stores
<1>10. CASE CommandStarts BY <1>10, <1>1 DEF CommandStarts, Stores
<1>11. CASE CommandEnds BY <1>11, <1>1 DEF CommandEnds, Stores
<1>12. CASE ForeignSave BY <1>12, <1>1 DEF ForeignSave, Stores
<1>13. CASE ForeignReads BY <1>13, <1>1 DEF ForeignReads, Stores
<1>14. CASE SuspendWrites BY <1>14, <1>1 DEF SuspendWrites, Stores
<1>15. CASE ResumeWrites BY <1>15, <1>1 DEF ResumeWrites, Stores
<1>16. CASE Shutdown BY <1>16, <1>1 DEF Shutdown, Stores
<1>17. CASE Crash BY <1>17, <1>1 DEF Crash, Restart, Stores
<1>18. CASE Disconnect BY <1>18, <1>1 DEF Disconnect, Restart, Stores
<1> QED BY <1>2, <1>3, <1>4, <1>5, <1>6, <1>7, <1>8, <1>9, <1>10, <1>11, <1>12, <1>13, <1>14, <1>15, <1>16, <1>17, <1>18 DEF Others

LEMMA ControlStep == Flags /\ Control /\ Others => Control'
<1> SUFFICES ASSUME Flags, Control, Others PROVE Control' OBVIOUS
<1> USE SaveVariablesAssumption DEF Flags
<1>2. CASE HandleReady BY <1>2 DEF HandleReady, Control
<1>3. CASE HandleReadyFlush BY <1>3 DEF HandleReadyFlush, BeginPass, Save, Control
<1>4. CASE FlushStarts BY <1>4 DEF FlushStarts, BeginPass, Save, MutexFree, Control
<1>5. CASE FlushDropped BY <1>5 DEF FlushDropped, Control
<1>6. CASE Granted BY <1>6 DEF Granted, Save, WriterLeaves, Control
<1>7. CASE FileWritten BY <1>7 DEF FileWritten, Control
<1>8. CASE SaveFails BY <1>8 DEF SaveFails, WriterLeaves, Control
<1>9. CASE WriterReads
  <2> DEFINE left == Reconcile(pending, file)
             dict == ApplyPending(left, file)
  <2>1. ~Finished(left) => attempt + 1 \in 0..MaxAttempts
        BY DEF Finished, Control
  <2>2. UNCHANGED depth /\ depth = 0 /\ writer # "none"
        BY <1>9 DEF WriterReads, Control
  <2>3. CASE WriterLeaves(FALSE) \/ (klippy = "shutdown" /\ WriterLeaves(TRUE))
        BY <1>9, <2>2, <2>3 DEF WriterLeaves, Control
  <2>4. CASE /\ ~Finished(left) /\ klippy = "ready"
             /\ BeginPass(writer, attempt + 1, dict)
             /\ Save(dict) \/ (mutex' = "free" /\ stage' = "none")
             /\ UNCHANGED <<klippy, flushTimer>>
        BY <1>9, <2>1, <2>2, <2>4 DEF BeginPass, Save, Control
  <2>5. \/ WriterLeaves(FALSE) \/ (klippy = "shutdown" /\ WriterLeaves(TRUE))
        \/ /\ ~Finished(left) /\ klippy = "ready"
           /\ BeginPass(writer, attempt + 1, dict)
           /\ Save(dict) \/ (mutex' = "free" /\ stage' = "none")
           /\ UNCHANGED <<klippy, flushTimer>>
        BY <1>9, Zenon DEF WriterReads
  <2> QED BY <2>3, <2>4, <2>5
<1>10. CASE CommandStarts BY <1>10 DEF CommandStarts, Control
<1>11. CASE CommandEnds BY <1>11 DEF CommandEnds, Control
<1>12. CASE ForeignSave BY <1>12 DEF ForeignSave, Control
<1>13. CASE ForeignReads BY <1>13 DEF ForeignReads, Control
<1>14. CASE SuspendWrites BY <1>14 DEF SuspendWrites, Control
<1>15. CASE ResumeWrites BY <1>15 DEF ResumeWrites, Control
<1>16. CASE Shutdown BY <1>16 DEF Shutdown, Control
<1>17. CASE Crash BY <1>17 DEF Crash, Restart, Control
<1>18. CASE Disconnect BY <1>18 DEF Disconnect, Restart, Control
<1> QED BY <1>2, <1>3, <1>4, <1>5, <1>6, <1>7, <1>8, <1>9, <1>10, <1>11, <1>12, <1>13, <1>14, <1>15, <1>16, <1>17, <1>18 DEF Others

LEMMA StepType == TypeOK /\ [Next]_vars => TypeOK'
<1> SUFFICES ASSUME TypeOK, [Next]_vars PROVE TypeOK' OBVIOUS
<1>1. CASE Updates BY <1>1, UpdatesType
<1>2. CASE Others BY <1>2, FlagsStep, StoresStep, ControlStep DEF TypeOK
<1>3. CASE UNCHANGED vars BY <1>3 DEF vars, TypeOK, Flags, Stores, Control
<1> QED BY <1>1, <1>2, <1>3, Steps

(* The journal, the dictionary, the file and the copy being written stay   *)
(* well formed, and _write_now keeps its timer and its mutex.              *)
THEOREM TypeCorrect == Spec => []TypeOK
BY InitType, StepType, PTL DEF Spec

-----------------------------------------------------------------------------
(* A key out of the journal is on disk.                                     *)

OnDisk(k) ==
    pending[k] = Confirmed =>
        /\ file[k] = allVariables[k]
        /\ stage = "writing" => newvars[k] = allVariables[k]

LEMMA ConfirmedKeyByKey == ConfirmedOnDisk <=> \A k \in Keys : OnDisk(k)
BY DEF ConfirmedOnDisk, OnDisk, Journalled, Get

LEMMA UpdatesConfirmed ==
    ASSUME TypeOK, Updates, NEW k \in Keys, OnDisk(k)
    PROVE  OnDisk(k)'
<1>1. PICK K \in SUBSET Keys :
         \E batch \in [K -> Contents], write \in BOOLEAN : Update(batch, write)
      BY DEF Updates
<1>2. PICK batch \in [K -> Contents], write \in BOOLEAN : Update(batch, write)
      BY <1>1
<1>3. CASE k \in K
  <2>1. pending'[k] # Confirmed
        BY <1>2, <1>3, SaveVariablesAssumption DEF Update, Overlay
  <2> QED BY <2>1 DEF OnDisk
<1>4. CASE k \notin K
  <2>1. pending'[k] = pending[k] /\ allVariables'[k] = allVariables[k]
        BY <1>2, <1>4 DEF Update, Overlay
  <2>2. UNCHANGED <<file, stage, newvars>> BY <1>2 DEF Update
  <2> QED BY <2>1, <2>2 DEF OnDisk
<1> QED BY <1>3, <1>4

LEMMA OthersConfirmed ==
    ASSUME TypeOK, Others, NEW k \in Keys, OnDisk(k)
    PROVE  OnDisk(k)'
<1>1. CASE HandleReady BY <1>1 DEF HandleReady, OnDisk, TypeOK, Stores, Control
<1>2. CASE HandleReadyFlush BY <1>2 DEF HandleReadyFlush, BeginPass, Save, ApplyPending, OnDisk, TypeOK, Stores, Control
<1>3. CASE FlushStarts BY <1>3 DEF FlushStarts, BeginPass, Save, MutexFree, ApplyPending, OnDisk, TypeOK, Stores, Control
<1>4. CASE FlushDropped BY <1>4 DEF FlushDropped, OnDisk, TypeOK, Stores, Control
<1>5. CASE Granted BY <1>5 DEF Granted, Save, WriterLeaves, OnDisk, TypeOK, Stores, Control
<1>6. CASE FileWritten BY <1>6 DEF FileWritten, OnDisk, TypeOK, Stores, Control
<1>7. CASE SaveFails BY <1>7 DEF SaveFails, WriterLeaves, OnDisk, TypeOK, Stores, Control
<1>8. CASE WriterReads BY <1>8 DEF WriterReads, BeginPass, Save, WriterLeaves, ApplyPending, Reconcile, OnDisk, TypeOK, Stores, Control
<1>9. CASE CommandStarts BY <1>9 DEF CommandStarts, OnDisk, TypeOK, Stores, Control
<1>10. CASE CommandEnds BY <1>10 DEF CommandEnds, OnDisk, TypeOK, Stores, Control
<1>11. CASE ForeignSave BY <1>11 DEF ForeignSave, OnDisk, TypeOK, Stores, Control
<1>12. CASE ForeignReads BY <1>12 DEF ForeignReads, OnDisk, TypeOK, Stores, Control
<1>13. CASE SuspendWrites BY <1>13 DEF SuspendWrites, OnDisk, TypeOK, Stores, Control
<1>14. CASE ResumeWrites BY <1>14 DEF ResumeWrites, OnDisk, TypeOK, Stores, Control
<1>15. CASE Shutdown BY <1>15 DEF Shutdown, OnDisk, TypeOK, Stores, Control
<1>16. CASE Crash BY <1>16 DEF Crash, Restart, OnDisk, TypeOK, Stores, Control
<1>17. CASE Disconnect BY <1>17 DEF Disconnect, Restart, ApplyPending, OnDisk, TypeOK, Stores, Control
<1> QED BY <1>1, <1>2, <1>3, <1>4, <1>5, <1>6, <1>7, <1>8, <1>9, <1>10, <1>11, <1>12, <1>13, <1>14, <1>15, <1>16, <1>17 DEF Others

LEMMA StepConfirmed == TypeOK /\ ConfirmedOnDisk /\ [Next]_vars => ConfirmedOnDisk'
<1> SUFFICES ASSUME TypeOK, ConfirmedOnDisk, [Next]_vars PROVE ConfirmedOnDisk' OBVIOUS
<1>1. \A k \in Keys : OnDisk(k) BY ConfirmedKeyByKey
<1>2. CASE Updates
  <2>1. \A k \in Keys : OnDisk(k)' BY <1>1, <1>2, UpdatesConfirmed
  <2> QED BY <2>1 DEF ConfirmedOnDisk, OnDisk, Journalled, Get
<1>3. CASE Others
  <2>1. \A k \in Keys : OnDisk(k)' BY <1>1, <1>3, OthersConfirmed
  <2> QED BY <2>1 DEF ConfirmedOnDisk, OnDisk, Journalled, Get
<1>4. CASE UNCHANGED vars
      BY <1>4 DEF vars, ConfirmedOnDisk, Journalled, Get
<1> QED BY <1>2, <1>3, <1>4, Steps

LEMMA InitConfirmed == Init => ConfirmedOnDisk
BY DEF Init, ConfirmedOnDisk, Journalled, Get

(* No update is lost: whatever saves of macros and of the manager did to   *)
(* Klipper's dictionary, a key the journal has dropped is on disk as get() *)
(* returns it (_reconcile, _apply_pending).                                *)
THEOREM NothingLost == Spec => []ConfirmedOnDisk
BY InitType, StepType, InitConfirmed, StepConfirmed, PTL DEF Spec

-----------------------------------------------------------------------------
(* Keys set together land together.                                         *)

(* Every place a value passes through treats the keys alike.                *)
Alike ==
    \A j, k \in Together :
        /\ file[j] = file[k]
        /\ allVariables[j] = allVariables[k]
        /\ pending[j] = pending[k]
        /\ newvars[j] = newvars[k]

LEMMA UpdatesAlike == TypeOK /\ Alike /\ Updates => Alike'
<1> SUFFICES ASSUME TypeOK, Alike, Updates, NEW j \in Together, NEW k \in Together
             PROVE  /\ file'[j] = file'[k] /\ allVariables'[j] = allVariables'[k]
                    /\ pending'[j] = pending'[k] /\ newvars'[j] = newvars'[k]
      BY DEF Alike
<1>1. PICK K \in SUBSET Keys :
         \E batch \in [K -> Contents], write \in BOOLEAN :
            /\ Update(batch, write)
            /\ Together \subseteq K \/ K \cap Together = {}
            /\ \A x, y \in K \cap Together : batch[x] = batch[y]
      BY DEF Updates
<1>2. PICK batch \in [K -> Contents], write \in BOOLEAN :
            /\ Update(batch, write)
            /\ Together \subseteq K \/ K \cap Together = {}
            /\ \A x, y \in K \cap Together : batch[x] = batch[y]
      BY <1>1
<1>3. j \in Keys /\ k \in Keys BY SaveVariablesAssumption
<1> QED BY <1>2, <1>3 DEF Update, Overlay, Alike

LEMMA OthersAlike == TypeOK /\ Alike /\ Others => Alike'
<1> SUFFICES ASSUME TypeOK, Alike, Others, NEW j \in Together, NEW k \in Together
             PROVE  /\ file'[j] = file'[k] /\ allVariables'[j] = allVariables'[k]
                    /\ pending'[j] = pending'[k] /\ newvars'[j] = newvars'[k]
      BY DEF Alike
<1>20. j \in Keys /\ k \in Keys BY SaveVariablesAssumption
<1>1. CASE HandleReady BY <1>1, <1>20 DEF HandleReady, Alike
<1>2. CASE HandleReadyFlush BY <1>2, <1>20 DEF HandleReadyFlush, BeginPass, Save, ApplyPending, Alike
<1>3. CASE FlushStarts BY <1>3, <1>20 DEF FlushStarts, BeginPass, Save, MutexFree, ApplyPending, Alike
<1>4. CASE FlushDropped BY <1>4, <1>20 DEF FlushDropped, Alike
<1>5. CASE Granted BY <1>5, <1>20 DEF Granted, Save, WriterLeaves, Alike
<1>6. CASE FileWritten BY <1>6, <1>20 DEF FileWritten, Alike
<1>7. CASE SaveFails BY <1>7, <1>20 DEF SaveFails, WriterLeaves, Alike
<1>8. CASE WriterReads BY <1>8, <1>20 DEF WriterReads, BeginPass, Save, WriterLeaves, ApplyPending, Reconcile, Alike
<1>9. CASE CommandStarts BY <1>9, <1>20 DEF CommandStarts, Alike
<1>10. CASE CommandEnds BY <1>10, <1>20 DEF CommandEnds, Alike
<1>11. CASE ForeignSave BY <1>11, <1>20 DEF ForeignSave, Alike
<1>12. CASE ForeignReads BY <1>12, <1>20 DEF ForeignReads, Alike
<1>13. CASE SuspendWrites BY <1>13, <1>20 DEF SuspendWrites, Alike
<1>14. CASE ResumeWrites BY <1>14, <1>20 DEF ResumeWrites, Alike
<1>15. CASE Shutdown BY <1>15, <1>20 DEF Shutdown, Alike
<1>16. CASE Crash BY <1>16, <1>20 DEF Crash, Restart, Alike
<1>17. CASE Disconnect BY <1>17, <1>20 DEF Disconnect, Restart, ApplyPending, Alike
<1> QED BY <1>1, <1>2, <1>3, <1>4, <1>5, <1>6, <1>7, <1>8, <1>9, <1>10, <1>11, <1>12, <1>13, <1>14, <1>15, <1>16, <1>17 DEF Others

LEMMA StepAlike == TypeOK /\ Alike /\ [Next]_vars => Alike'
<1> SUFFICES ASSUME TypeOK, Alike, [Next]_vars PROVE Alike' OBVIOUS
<1>1. CASE UNCHANGED vars BY <1>1 DEF vars, Alike
<1> QED BY <1>1, Steps, UpdatesAlike, OthersAlike

LEMMA InitAlike == Init => Alike
BY SaveVariablesAssumption DEF Init, Alike

(* Keys set in one batch land on disk together (persist_gate_map).          *)
THEOREM BatchesLandTogether == Spec => []LandTogether
<1>1. Alike => LandTogether BY DEF Alike, LandTogether
<1> QED BY <1>1, InitType, StepType, InitAlike, StepAlike, PTL DEF Spec

-----------------------------------------------------------------------------
(* The manager implements DurableStore.                                     *)

Reads == [k \in Keys |-> Get(k)]

LEMMA ReadsType == TypeOK => Reads \in Store!Maps
BY DEF TypeOK, Stores, Reads, Get, Store!Maps

LEMMA ConfirmedReads ==
    ASSUME ConfirmedOnDisk, NEW k \in Keys \ Journalled
    PROVE  file[k] = Reads[k] /\ (stage = "writing" => newvars[k] = Reads[k])
BY DEF ConfirmedOnDisk, Reads

(* A step that changes no value read, no file and no entry of the journal  *)
(* is none of the store's, except that it may end the start of the process.*)
LEMMA Unseen ==
    ASSUME UNCHANGED <<pending, file>>, Reads' = Reads,
           klippy' = klippy \/ klippy' # "starting"
    PROVE  Store!Next \/ UNCHANGED Store!vars
<1>1. Journalled' = Journalled BY DEF Journalled
<1>2. CASE klippy' = klippy
  <2>1. UNCHANGED Store!vars BY <1>1, <1>2 DEF Store!vars, Reads
  <2> QED BY <2>1
<1>3. CASE klippy' # "starting"
  <2>1. Store!Start BY <1>1, <1>3 DEF Store!Start, Reads
  <2> QED BY <2>1 DEF Store!Next
<1> QED BY <1>2, <1>3

LEMMA UpdatesStore == ASSUME TypeOK, TypeOK', Updates PROVE Store!Update
<1>1. PICK K \in SUBSET Keys :
         \E batch \in [K -> Contents], write \in BOOLEAN : Update(batch, write)
      BY DEF Updates
<1>2. PICK batch \in [K -> Contents], write \in BOOLEAN : Update(batch, write)
      BY <1>1
<1>3. Reads' \in Store!Maps BY ReadsType DEF TypeOK, Stores, Reads, Get, Store!Maps
<1>4. \A k \in Keys \ K : Reads[k] = Reads'[k]
      BY <1>2 DEF Update, Overlay, Reads, Get
<1>5. Journalled' = Journalled \cup K
  <2>1. \A k \in Keys : pending'[k] = IF k \in K THEN batch[k] ELSE pending[k]
        BY <1>2 DEF Update, Overlay
  <2>2. \A k \in K : batch[k] # Confirmed BY SaveVariablesAssumption
  <2> QED BY <2>1, <2>2 DEF Journalled
<1>6. UNCHANGED <<file, klippy>> BY <1>2 DEF Update
<1> QED BY <1>3, <1>4, <1>5, <1>6 DEF Store!Update, Store!AgreeOff, Reads

LEMMA UnseenSteps ==
    ASSUME TypeOK, ConfirmedOnDisk, Others,
           ~FileWritten, ~WriterReads, ~Crash, ~Disconnect
    PROVE  /\ UNCHANGED <<pending, file>>
           /\ Reads' = Reads
           /\ klippy' = klippy \/ klippy' # "starting"
<1>1. CASE HandleReady BY <1>1 DEF HandleReady, Reads, Get
<1>2. CASE HandleReadyFlush BY <1>2 DEF HandleReadyFlush, BeginPass, ApplyPending, Reads, Get
<1>3. CASE FlushStarts BY <1>3 DEF FlushStarts, BeginPass, ApplyPending, Reads, Get
<1>4. CASE FlushDropped BY <1>4 DEF FlushDropped, Reads, Get
<1>5. CASE Granted BY <1>5 DEF Granted, WriterLeaves, Reads, Get
<1>6. CASE SaveFails BY <1>6 DEF SaveFails, WriterLeaves, Reads, Get
<1>7. CASE CommandStarts BY <1>7 DEF CommandStarts, Reads, Get
<1>8. CASE CommandEnds BY <1>8 DEF CommandEnds, Reads, Get
<1>9. CASE ForeignSave BY <1>9 DEF ForeignSave, Reads, Get
<1>10. CASE ForeignReads
  <2>1. \A x \in Keys : pending[x] = Confirmed => file[x] = allVariables[x]
        BY DEF ConfirmedOnDisk, Journalled, Get
  <2> QED BY <1>10, <2>1 DEF ForeignReads, Reads, Get
<1>11. CASE SuspendWrites BY <1>11 DEF SuspendWrites, Reads, Get
<1>12. CASE ResumeWrites BY <1>12 DEF ResumeWrites, Reads, Get
<1>13. CASE Shutdown BY <1>13 DEF Shutdown, Reads, Get
<1> QED BY <1>1, <1>2, <1>3, <1>4, <1>5, <1>6, <1>7, <1>8, <1>9, <1>10, <1>11, <1>12, <1>13 DEF Others

LEMMA FileWrittenStore ==
    ASSUME TypeOK, ConfirmedOnDisk, FileWritten PROVE Store!Write
<1>1. file' = newvars /\ UNCHANGED <<allVariables, pending, klippy>> /\ stage = "writing"
      BY DEF FileWritten
<1>2. Reads' = Reads /\ Journalled' = Journalled BY <1>1 DEF Reads, Get, Journalled
<1>3. file' \in Store!Maps BY <1>1 DEF TypeOK, Stores, Store!Maps
<1>4. \A k \in Keys \ Journalled : file[k] = file'[k]
      BY <1>1, ConfirmedReads
<1> QED BY <1>1, <1>2, <1>3, <1>4 DEF Store!Write, Store!AgreeOff, Reads

LEMMA WriterReadsStore ==
    ASSUME TypeOK, ConfirmedOnDisk, WriterReads PROVE Store!Confirm
<1> DEFINE left == Reconcile(pending, file)
           dict == ApplyPending(left, file)
<1>1. pending' = left /\ allVariables' = dict /\ file' = file
      BY DEF WriterReads, BeginPass
<1>2. klippy' = klippy BY DEF WriterReads, WriterLeaves
<1>3. \A k \in Keys : pending[k] = Confirmed => file[k] = allVariables[k]
      BY DEF ConfirmedOnDisk, Journalled, Get
<1>4. Reads' = Reads
      BY <1>1, <1>3 DEF Reads, Get, Reconcile, ApplyPending
<1>5. Journalled' \subseteq Journalled
      BY <1>1 DEF Journalled, Reconcile
<1>6. \A k \in Journalled \ Journalled' : file[k] = Reads[k]
      BY <1>1 DEF Journalled, Reconcile, Reads, Get
<1> QED BY <1>1, <1>2, <1>4, <1>5, <1>6 DEF Store!Confirm, Reads

LEMMA RestartStore ==
    ASSUME TypeOK, ConfirmedOnDisk, NEW f \in [Keys -> Contents], Restart(f),
           \A k \in Keys \ Journalled : file[k] = f[k]
    PROVE  Store!Restart
<1>1. file' = f /\ allVariables' = f /\ klippy' = "starting"
      BY DEF Restart
<1>2. pending' = [k \in Keys |-> Confirmed] BY DEF Restart
<1>3. Reads' = file' BY <1>1, <1>2 DEF Reads, Get
<1>4. Journalled' = {} BY <1>2 DEF Journalled
<1> QED BY <1>1, <1>3, <1>4 DEF Store!Restart, Store!AgreeOff, Store!Maps, Reads

LEMMA OthersStore ==
    ASSUME TypeOK, ConfirmedOnDisk, Others PROVE Store!Next \/ UNCHANGED Store!vars
<1>1. CASE FileWritten BY <1>1, FileWrittenStore DEF Store!Next
<1>2. CASE WriterReads BY <1>2, WriterReadsStore DEF Store!Next
<1>3. CASE Crash
  <2>1. Restart(file) /\ file \in [Keys -> Contents] BY <1>3 DEF Crash, TypeOK, Stores
  <2> QED BY <2>1, RestartStore DEF Store!Next
<1>4. CASE Disconnect
  <2> DEFINE f == ApplyPending(pending, allVariables)
  <2>1. Restart(f) BY <1>4 DEF Disconnect
  <2>2. f \in [Keys -> Contents] BY ApplyType DEF TypeOK, Stores
  <2>3. \A k \in Keys \ Journalled : file[k] = f[k]
        BY DEF ApplyPending, ConfirmedOnDisk, Journalled, Get
  <2> HIDE DEF f
  <2>4. Store!Restart BY <2>1, <2>2, <2>3, RestartStore
  <2> QED BY <2>4 DEF Store!Next
<1>5. CASE ~FileWritten /\ ~WriterReads /\ ~Crash /\ ~Disconnect
      BY <1>5, UnseenSteps, Unseen
<1> QED BY <1>1, <1>2, <1>3, <1>4, <1>5

LEMMA StepStore ==
    TypeOK /\ TypeOK' /\ ConfirmedOnDisk /\ [Next]_vars => [Store!Next]_(Store!vars)
<1> SUFFICES ASSUME TypeOK, TypeOK', ConfirmedOnDisk, [Next]_vars
             PROVE  Store!Next \/ UNCHANGED Store!vars
      OBVIOUS
<1>1. CASE Updates BY <1>1, UpdatesStore DEF Store!Next
<1>2. CASE Others BY <1>2, OthersStore
<1>3. CASE UNCHANGED vars
      BY <1>3 DEF vars, Store!vars, Get, Journalled
<1> QED BY <1>1, <1>2, <1>3, Steps

LEMMA InitStore == Init => Store!Init
<1> SUFFICES ASSUME Init PROVE Store!Init OBVIOUS
<1>1. Reads = file BY DEF Init, Reads, Get
<1>2. Journalled = {} BY DEF Init, Journalled
<1> QED BY <1>1, <1>2 DEF Init, Store!Init, Store!Maps, Reads

(* get() returns the last value set or deleted, only keys in the journal   *)
(* change on disk or are lost in a restart: with every reload of Klipper's *)
(* dictionary under it, the manager implements DurableStore.               *)
THEOREM Refinement == Spec => ImplementsStore
BY InitType, StepType, InitConfirmed, StepConfirmed, InitStore, StepStore, PTL
   DEF Spec, ImplementsStore, Store!Spec
===============================================================================
