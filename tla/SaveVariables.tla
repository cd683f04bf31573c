---------------------------- MODULE SaveVariables ----------------------------
(***************************************************************************)
(* SaveVariableManager (mmu_utils.py): the journal that keeps the MMU's    *)
(* persisted state while Klipper's SAVE_VARIABLE is at work.               *)
(*                                                                         *)
(* SAVE_VARIABLE copies Klipper's dictionary, pauses while a thread writes *)
(* the copy to the file, pauses again while the file is read, and replaces *)
(* the dictionary by what was read: a set() in either pause is erased from *)
(* the dictionary.  Macros run SAVE_VARIABLE too.  The manager writes from *)
(* one reactor timer, which waits for the gcode mutex, retries what was    *)
(* set meanwhile, and drops a journal entry once the re-read shows it.     *)
(*                                                                         *)
(* A step is what runs between two points where the reactor can switch.    *)
(* The revision number each write carries, and keys of other writers, are  *)
(* left out: nobody journals them.                                         *)
(***************************************************************************)
EXTENDS Naturals

CONSTANTS
    Keys,           \* persisted variables, namespaced
    Values,         \* values they take
    Deleted,        \* the absence of a key; the journal's _DELETED
    Confirmed,      \* a key the journal does not hold
    Together,       \* keys only ever set in one batch: the parts of the gate map
    MaxAttempts,    \* MAX_FLUSH_ATTEMPTS
    MaxDepth,       \* bound: nested wrap_suspend_write_variables
    WriteArgs,      \* the values `write' takes in set() and delete()
    AllowFailures,  \* TRUE when a save may fail
    AllowStops      \* TRUE when Klipper may shut down, restart or be killed

Contents == Values \cup {Deleted}

ASSUME SaveVariablesAssumption ==
    /\ Deleted \notin Values
    /\ Confirmed \notin Contents
    /\ Together \subseteq Keys
    /\ MaxAttempts \in Nat \ {0}
    /\ MaxDepth \in Nat
    /\ WriteArgs \subseteq BOOLEAN
    /\ {AllowFailures, AllowStops} \subseteq BOOLEAN

VARIABLES
    klippy,         \* "starting" until klippy:ready, "ready", "shutdown"
    readyDue,       \* _handle_ready_flush is registered and has not run
    allVariables,   \* Klipper's dictionary
    file,           \* mmu_vars.cfg
    pending,        \* _pending: a key's delta, or Confirmed
    canWrite,       \* _can_write_variables
    flushTimer,     \* _flush_timer is not None
    writer,         \* who is in _write_now: "flush", "ready" or "none"
    attempt,        \* its pass through the loop
    raced,          \* a set() or delete() since that pass began
    mutex,          \* gcode mutex: "free", "command", or "writer" for _write_now
    stage,          \* SAVE_VARIABLE of the holder: "none", "writing" or "reading"
    newvars,        \* the copy it writes
    depth           \* open wrap_suspend_write_variables of the holding command

vars == <<klippy, readyDue, allVariables, file, pending, canWrite, flushTimer,
          writer, attempt, raced, mutex, stage, newvars, depth>>

-----------------------------------------------------------------------------
(* The journal. *)

Journalled == {k \in Keys : pending[k] # Confirmed}

Get(k) == IF pending[k] = Confirmed THEN allVariables[k] ELSE pending[k]

Overlay(batch, f) == [k \in Keys |-> IF k \in DOMAIN batch THEN batch[k] ELSE f[k]]

(* _apply_pending: a dictionary with the journal pushed back into it. *)
ApplyPending(journal, f) ==
    [k \in Keys |-> IF journal[k] = Confirmed THEN f[k] ELSE journal[k]]

\* Faulty variant: a completed save empties the journal.
Reconcile_DropsAll(journal, read) == [k \in Keys |-> Confirmed]

(* _reconcile: entries the file just read proves are on disk are dropped. *)
Reconcile(journal, read) ==
    [k \in Keys |-> IF journal[k] = read[k] THEN Confirmed ELSE journal[k]]

\* Faulty variant: what raced with a pass ends the loop.
Finished_WhenRaced(left) ==
    \/ \A k \in Keys : left[k] = Confirmed
    \/ raced
    \/ attempt = MaxAttempts

(* _write_now: what the re-read left was all there was, nothing raced with *)
(* this pass, or it was the last.                                          *)
Finished(left) ==
    \/ \A k \in Keys : left[k] = Confirmed
    \/ ~raced
    \/ attempt = MaxAttempts

-----------------------------------------------------------------------------
(* set, delete and their callers: any reactor code, at any time. *)

Update(batch, write) ==
    /\ pending' = Overlay(batch, pending)
    /\ allVariables' = Overlay(batch, allVariables)
    /\ raced' = (writer # "none")
    /\ flushTimer' = (flushTimer \/ (write /\ canWrite))
    /\ UNCHANGED <<klippy, readyDue, file, canWrite, writer, attempt, mutex,
                   stage, newvars, depth>>

Set(k, v, write) == k \notin Together /\ Update([x \in {k} |-> v], write)

Delete(k, write) == k \notin Together /\ Update([x \in {k} |-> Deleted], write)

\* Faulty variant: the keys of a batch are set and flushed one by one.
SetTogether_Apart(v) == \E k \in Together : Update([x \in {k} |-> v], TRUE)

(* persist_gate_map: a value stands for one state of the gate map, of which *)
(* every key of the batch holds its part.                                   *)
SetTogether(v) == Together # {} /\ Update([x \in Together |-> v], TRUE)

Upgrade(old, new) ==
    /\ klippy = "starting"
    /\ old # new /\ {old, new} \cap Together = {}
    /\ Get(old) # Deleted
    /\ Update([x \in {old, new} |-> IF x = new THEN Get(old) ELSE Deleted], FALSE)

-----------------------------------------------------------------------------
(* The physical write. *)

MutexFree == mutex = "free" /\ writer = "none"

(* run_script("SAVE_VARIABLE ...") gets the mutex: Klipper copies its dictionary. *)
Save(f) ==
    /\ mutex' = "writer" /\ stage' = "writing"
    /\ newvars' = f

BeginPass(who, n, f) ==
    /\ writer' = who /\ attempt' = n
    /\ raced' = FALSE
    /\ allVariables' = f

(* klippy:ready only registers the flush, which runs from the reactor. *)
HandleReady ==
    /\ klippy = "starting"
    /\ klippy' = "ready" /\ readyDue' = TRUE
    /\ UNCHANGED <<allVariables, file, pending, canWrite, flushTimer, writer,
                   attempt, raced, mutex, stage, newvars, depth>>

HandleReadyFlush ==
    /\ readyDue
    /\ readyDue' = FALSE
    /\ \/ /\ klippy = "shutdown"
          /\ UNCHANGED <<allVariables, canWrite, writer, attempt, raced, mutex, stage, newvars>>
       \/ /\ klippy = "ready"
          /\ canWrite' = TRUE
          /\ \/ /\ writer # "none"
                /\ UNCHANGED <<allVariables, writer, attempt, raced, mutex, stage, newvars>>
             \/ /\ writer = "none"
                /\ BeginPass("ready", 1, ApplyPending(pending, allVariables))
                /\ IF mutex = "free"
                   THEN Save(ApplyPending(pending, allVariables))
                   ELSE UNCHANGED <<mutex, stage, newvars>>
    /\ UNCHANGED <<klippy, file, pending, flushTimer, depth>>

(* _flush, polled every FLUSH_RETRY_DELAY until the mutex is free ... *)
FlushStarts ==
    /\ flushTimer /\ canWrite /\ klippy = "ready" /\ MutexFree
    /\ BeginPass("flush", 1, ApplyPending(pending, allVariables))
    /\ Save(ApplyPending(pending, allVariables))
    /\ UNCHANGED <<klippy, readyDue, file, pending, canWrite, flushTimer, depth>>

(* ... or given up when writes are suspended or Klipper has shut down. *)
FlushDropped ==
    /\ flushTimer /\ writer # "flush"
    /\ ~canWrite \/ klippy = "shutdown"
    /\ flushTimer' = FALSE
    /\ UNCHANGED <<klippy, readyDue, allVariables, file, pending, canWrite, writer,
                   attempt, raced, mutex, stage, newvars, depth>>

\* Faulty variant: an exception skips the unregistering of the timer.
WriterLeaves_TimerStranded(raises) ==
    /\ writer' = "none" /\ attempt' = 0 /\ raced' = FALSE
    /\ mutex' = "free" /\ stage' = "none"
    /\ flushTimer' = (flushTimer /\ (raises \/ writer # "flush"))
    /\ klippy' = IF raises /\ writer = "ready" THEN "shutdown" ELSE klippy

(* _write_now returns or raises: the flush unregisters its timer, while the *)
(* ready callback has no handler, and Klipper shuts down on what it raises. *)
WriterLeaves(raises) ==
    /\ writer' = "none" /\ attempt' = 0 /\ raced' = FALSE
    /\ mutex' = "free" /\ stage' = "none"
    /\ flushTimer' = (flushTimer /\ writer # "flush")
    /\ klippy' = IF raises /\ writer = "ready" THEN "shutdown" ELSE klippy

(* The writer's turn on the mutex; a Klipper that has shut down refuses. *)
Granted ==
    /\ writer # "none" /\ mutex = "free"
    /\ \/ /\ klippy = "ready"
          /\ Save(allVariables)
          /\ UNCHANGED <<klippy, flushTimer, writer, attempt, raced>>
       \/ /\ klippy = "shutdown"
          /\ WriterLeaves(TRUE)
          /\ UNCHANGED newvars
    /\ UNCHANGED <<readyDue, allVariables, file, pending, canWrite, depth>>

FileWritten ==
    /\ stage = "writing"
    /\ file' = newvars
    /\ stage' = "reading"
    /\ UNCHANGED <<klippy, readyDue, allVariables, pending, canWrite, flushTimer,
                   writer, attempt, raced, mutex, newvars, depth>>

(* SAVE_VARIABLE raises: the writer's journal keeps everything. *)
SaveFails ==
    /\ AllowFailures /\ stage = "writing"
    /\ newvars' = file
    /\ \/ mutex = "writer" /\ WriterLeaves(TRUE)
       \/ /\ mutex = "command" /\ stage' = "none"
          /\ UNCHANGED <<klippy, flushTimer, writer, attempt, raced, mutex>>
    /\ UNCHANGED <<readyDue, allVariables, file, pending, canWrite, depth>>

(* The file is read back.  A pass that has to be repeated takes the mutex  *)
(* again, at once or after commands that queued for it.                    *)
WriterReads ==
    /\ stage = "reading" /\ mutex = "writer"
    /\ LET left == Reconcile(pending, file)
           dict == ApplyPending(left, file)
       IN  /\ pending' = left
           /\ \/ /\ Finished(left)
                 /\ allVariables' = dict
                 /\ WriterLeaves(FALSE)
                 /\ UNCHANGED newvars
              \/ /\ ~Finished(left) /\ klippy = "ready"
                 /\ BeginPass(writer, attempt + 1, dict)
                 /\ \/ Save(dict)
                    \/ mutex' = "free" /\ stage' = "none" /\ UNCHANGED newvars
                 /\ UNCHANGED <<klippy, flushTimer>>
              \/ /\ ~Finished(left) /\ klippy = "shutdown"
                 /\ allVariables' = dict
                 /\ WriterLeaves(TRUE)
                 /\ UNCHANGED newvars
    /\ UNCHANGED <<readyDue, file, canWrite, depth>>

-----------------------------------------------------------------------------
(* Gcode commands of others, which hold the mutex while they run. *)

CommandStarts ==
    /\ klippy = "ready" /\ mutex = "free"
    /\ mutex' = "command"
    /\ UNCHANGED <<klippy, readyDue, allVariables, file, pending, canWrite, flushTimer,
                   writer, attempt, raced, stage, newvars, depth>>

CommandEnds ==
    /\ mutex = "command" /\ stage = "none" /\ depth = 0
    /\ mutex' = "free"
    /\ UNCHANGED <<klippy, readyDue, allVariables, file, pending, canWrite, flushTimer,
                   writer, attempt, raced, stage, newvars, depth>>

(* A macro saves a variable of its own (blobifier.cfg). *)
ForeignSave ==
    /\ klippy = "ready" /\ mutex = "command" /\ stage = "none"
    /\ stage' = "writing" /\ newvars' = allVariables
    /\ UNCHANGED <<klippy, readyDue, allVariables, file, pending, canWrite, flushTimer,
                   writer, attempt, raced, mutex, depth>>

ForeignReads ==
    /\ stage = "reading" /\ mutex = "command"
    /\ allVariables' = file
    /\ stage' = "none"
    /\ UNCHANGED <<klippy, readyDue, file, pending, canWrite, flushTimer, writer,
                   attempt, raced, mutex, newvars, depth>>

(* wrap_suspend_write_variables of MMU_CHANGE_TOOL and MMU_CHECK_GATE. *)
SuspendWrites ==
    /\ klippy = "ready" /\ mutex = "command" /\ stage = "none" /\ depth < MaxDepth
    /\ canWrite' = FALSE /\ depth' = depth + 1
    /\ UNCHANGED <<klippy, readyDue, allVariables, file, pending, flushTimer, writer,
                   attempt, raced, mutex, stage, newvars>>

ResumeWrites ==
    /\ depth > 0 /\ stage = "none"
    /\ canWrite' = TRUE /\ flushTimer' = TRUE /\ depth' = depth - 1
    /\ UNCHANGED <<klippy, readyDue, allVariables, file, pending, writer, attempt,
                   raced, mutex, stage, newvars>>

-----------------------------------------------------------------------------
(* The end of the process. *)

Shutdown ==
    /\ AllowStops /\ klippy # "shutdown"
    /\ klippy' = "shutdown"
    /\ UNCHANGED <<readyDue, allVariables, file, pending, canWrite, flushTimer, writer,
                   attempt, raced, mutex, stage, newvars, depth>>

(* A new process reads the file the old one left. *)
Restart(f) ==
    /\ file' = f /\ allVariables' = f /\ newvars' = f
    /\ klippy' = "starting" /\ readyDue' = FALSE
    /\ pending' = [k \in Keys |-> Confirmed]
    /\ canWrite' = FALSE /\ flushTimer' = FALSE
    /\ writer' = "none" /\ attempt' = 0 /\ raced' = FALSE
    /\ mutex' = "free" /\ stage' = "none" /\ depth' = 0

(* The process is killed, or disconnects with nothing it can write: an    *)
(* empty journal, a write already in progress, a command on the mutex the  *)
(* stopped reactor will never free, or a failure.                          *)
Crash == AllowStops /\ Restart(file)

(* handle_disconnect persists the journal, suspended or not. *)
Disconnect ==
    /\ AllowStops /\ klippy = "ready" /\ MutexFree /\ Journalled # {}
    /\ Restart(ApplyPending(pending, allVariables))

-----------------------------------------------------------------------------
Init ==
    /\ file \in [Keys -> Contents]
    /\ \A j, k \in Together : file[j] = file[k]
    /\ allVariables = file /\ newvars = file
    /\ klippy = "starting" /\ readyDue = FALSE
    /\ pending = [k \in Keys |-> Confirmed]
    /\ canWrite = FALSE /\ flushTimer = FALSE
    /\ writer = "none" /\ attempt = 0 /\ raced = FALSE
    /\ mutex = "free" /\ stage = "none" /\ depth = 0

Next ==
    \/ \E k \in Keys, write \in WriteArgs :
          Delete(k, write) \/ \E v \in Values : Set(k, v, write)
    \/ \E v \in Values : SetTogether(v)
    \/ \E old, new \in Keys : Upgrade(old, new)
    \/ HandleReady \/ HandleReadyFlush
    \/ FlushStarts \/ FlushDropped
    \/ Granted \/ FileWritten \/ SaveFails \/ WriterReads
    \/ CommandStarts \/ CommandEnds \/ ForeignSave \/ ForeignReads
    \/ SuspendWrites \/ ResumeWrites
    \/ Shutdown \/ Crash \/ Disconnect

Spec == Init /\ [][Next]_vars

(* The reactor runs what is due; the FIFO mutex comes round to the writer;  *)
(* a command ends.  A flush polls: it runs if the mutex stays free.         *)
FairSpec ==
    /\ Spec
    /\ WF_vars(HandleReadyFlush)
    /\ WF_vars(FlushStarts) /\ WF_vars(FlushDropped)
    /\ SF_vars(Granted)
    /\ WF_vars(FileWritten \/ SaveFails) /\ WF_vars(WriterReads) /\ WF_vars(ForeignReads)
    /\ \A d \in 1..MaxDepth : SF_vars(depth = d /\ ResumeWrites)
    /\ SF_vars(CommandEnds)

-----------------------------------------------------------------------------
(* Properties. *)

Flags ==
    /\ readyDue \in BOOLEAN /\ canWrite \in BOOLEAN
    /\ flushTimer \in BOOLEAN /\ raced \in BOOLEAN

Stores ==
    /\ allVariables \in [Keys -> Contents]
    /\ file \in [Keys -> Contents] /\ newvars \in [Keys -> Contents]
    /\ pending \in [Keys -> Contents \cup {Confirmed}]

Control ==
    /\ klippy \in {"starting", "ready", "shutdown"}
    /\ writer \in {"none", "flush", "ready"}
    /\ attempt \in 0..MaxAttempts
    /\ mutex \in {"free", "command", "writer"}
    /\ stage \in {"none", "writing", "reading"}
    /\ depth \in 0..MaxDepth
    /\ writer = "none" => attempt = 0 /\ ~raced
    /\ writer = "flush" => flushTimer
    /\ mutex = "writer" => writer # "none" /\ stage # "none"
    /\ mutex = "free" => stage = "none"
    /\ mutex # "command" => depth = 0

(* Types, and what goes with a running _write_now: its timer, its mutex.    *)
TypeOK == Flags /\ Stores /\ Control

(* "Every set()/delete() is journalled in _pending and only dropped once a  *)
(* post-write re-read proves it reached disk": whatever interleaving of     *)
(* sets, flushes and saves of macros led here, a key out of the journal is  *)
(* on disk as get() returns it, and a save in progress keeps it so.         *)
ConfirmedOnDisk ==
    \A k \in Keys \ Journalled :
        /\ file[k] = Get(k)
        /\ stage = "writing" => newvars[k] = Get(k)

(* Keys set in one batch land on disk together: a restart never restores    *)
(* the material of one gate map with the spool of another.                  *)
LandTogether == \A j, k \in Together : file[j] = file[k]

(* get() returns the last value set or deleted, only dirty keys change on   *)
(* disk, and a restart loses no more than those: the manager, with every    *)
(* reload of Klipper's dictionary under it, implements DurableStore.        *)
Store == INSTANCE DurableStore
    WITH value <- [k \in Keys |-> Get(k)], disk <- file, dirty <- Journalled,
         started <- klippy # "starting"
ImplementsStore == Store!Spec

(* What the code leaves to its surroundings: the commands leave gaps on the *)
(* mutex, and one of the polls that find it free again and again is in time.*)
CommandsLeaveGaps == SF_vars(FlushStarts)

(* A flush that is writing, and one outstanding when Klipper shuts down,    *)
(* frees _flush_timer whatever fails; where commands leave gaps every flush *)
(* does.  A failed save never strands the timer, "which would stop all      *)
(* future flushes" (_flush).                                                *)
FlushTimerFreed ==
    /\ (flushTimer /\ (writer = "flush" \/ klippy = "shutdown")) ~> ~flushTimer
    /\ CommandsLeaveGaps => (flushTimer ~> ~flushTimer)

LastPass == writer = "flush" /\ attempt = MaxAttempts

(* Where commands leave gaps, what is in the journal under an outstanding   *)
(* flush reaches disk, unless it is set again first or Klipper shuts down:  *)
(* also what is set while the flush is writing, whose request is refused    *)
(* and left to another of its passes.  Its last pass is excepted.           *)
FlushServed ==
    CommandsLeaveGaps =>
        \A k \in Keys : \A v \in Contents :
            (flushTimer /\ ~LastPass /\ pending[k] = v)
                ~> (file[k] = v \/ pending[k] # v \/ klippy = "shutdown")

(* set: "write=True means "this batch is complete, schedule a flush"", also *)
(* in the last pass of a flush.                                             *)
RequestServed ==
    CommandsLeaveGaps =>
        \A k \in Keys : \A v \in Contents :
            (flushTimer /\ pending[k] = v)
                ~> (file[k] = v \/ pending[k] # v \/ klippy = "shutdown")
=============================================================================
