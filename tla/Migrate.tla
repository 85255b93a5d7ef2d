------------------------------ MODULE Migrate ------------------------------
(***************************************************************************)
(* Store.Migrate of internal/store/store.go, run by every "server serve"   *)
(* before it does anything else and by "server migrate": several processes *)
(* over one SQLite file, any of which may stop at any point and be started *)
(* again.                                                                  *)
(*                                                                         *)
(* A file's statements and its row in schema_migrations are written in one *)
(* transaction.  SQLite's part, modelled from how it is used: the first    *)
(* write of a transaction takes the one write lock and sees the committed  *)
(* database; until Commit the others see nothing of it; whoever dies or    *)
(* rolls back leaves no trace.  The files stand for 1 .. Last in the order *)
(* of their names.                                                         *)
(***************************************************************************)
EXTENDS Naturals

CONSTANTS
    Processes,   \* the processes that may run at the same time
    Last,        \* the number of migration files
    Nobody       \* holds the write lock

ASSUME MigrateAssumption == Last \in Nat /\ Nobody \notin Processes

Files == 1 .. Last

VARIABLES
    effects,     \* file -> how often its statements are in effect (committed)
    recorded,    \* the files schema_migrations names (committed)
    locked,      \* the process whose transaction has written, or Nobody
    proc         \* process -> where its Migrate is

vars == <<effects, recorded, locked, proc>>

(* Not running: not started or ended by an error ("down"), or "killed". *)
Stopped(how) == [at |-> how, applied |-> {}, next |-> 1]

Goto(p, step) == proc' = [proc EXCEPT ![p].at = step]
AtFile(p) == proc[p].next

(* What the statements of a file meet: 0001 creates tables, none of them   *)
(* IF NOT EXISTS; 0002 adds columns to one of those.                       *)
Applicable(f) == effects[f] = 0 /\ \A g \in 1 .. f - 1 : effects[g] > 0

-----------------------------------------------------------------------------

(* The process starts and makes sure that schema_migrations exists; who    *)
(* holds the lock has done so before.                                      *)
CreateTable(p) ==
    /\ proc[p].at \in {"down", "killed"}
    /\ Goto(p, "listing")
    /\ UNCHANGED <<effects, recorded, locked>>

Listed(p, seen) ==
    /\ proc[p].at = "listing"
    /\ proc' = [proc EXCEPT ![p] = [at |-> "choosing", applied |-> seen, next |-> 1]]
    /\ UNCHANGED <<effects, recorded, locked>>

ListApplied(p) == Listed(p, recorded)

(* The rows are read until Next says no and rows.Err is not looked at: a   *)
(* list that breaks off passes for the whole.                              *)
ListCut(p) == \E seen \in SUBSET recorded \ {recorded} : Listed(p, seen)

Skip(p) ==
    /\ proc[p].at = "choosing" /\ AtFile(p) \in Files
    /\ AtFile(p) \in proc[p].applied
    /\ proc' = [proc EXCEPT ![p].next = @ + 1]
    /\ UNCHANGED <<effects, recorded, locked>>

(* BeginTx and the file's statements, on the database as it is once the    *)
(* lock is free.                                                           *)
Exec(p) ==
    /\ proc[p].at = "choosing" /\ AtFile(p) \in Files \ proc[p].applied
    /\ locked = Nobody /\ Applicable(AtFile(p))
    /\ Goto(p, "executed")
    /\ locked' = p
    /\ UNCHANGED <<effects, recorded>>

(* INSERT INTO schema_migrations, whose version is the primary key.  That  *)
(* the version is taken does not happen: the file would not have applied.  *)
Record(p) ==
    /\ proc[p].at = "executed"
    /\ AtFile(p) \notin recorded
    /\ Goto(p, "recorded")
    /\ UNCHANGED <<effects, recorded, locked>>

(* Mutant: the record has a transaction of its own. *)
CommitApart(p) ==
    /\ proc[p].at \in {"executed", "recorded"}
    /\ IF proc[p].at = "executed"
       THEN /\ effects' = [effects EXCEPT ![AtFile(p)] = @ + 1]
            /\ Goto(p, "recorded")
            /\ UNCHANGED <<recorded, locked>>
       ELSE /\ recorded' = recorded \cup {AtFile(p)}
            /\ locked' = Nobody
            /\ proc' = [proc EXCEPT ![p].at = "choosing", ![p].next = @ + 1]
            /\ UNCHANGED effects

Commit(p) ==
    /\ proc[p].at = "recorded"
    /\ effects' = [effects EXCEPT ![AtFile(p)] = @ + 1]
    /\ recorded' = recorded \cup {AtFile(p)}
    /\ locked' = Nobody
    /\ proc' = [proc EXCEPT ![p].at = "choosing", ![p].next = @ + 1]

(* Every file is behind it: Migrate returns and the server serves. *)
Serve(p) ==
    /\ proc[p].at = "choosing" /\ AtFile(p) \notin Files
    /\ Goto(p, "serving")
    /\ UNCHANGED <<effects, recorded, locked>>

(* Mutant: no rollback, the transaction stays open. *)
EndsLocked(p, how) ==
    /\ proc' = [proc EXCEPT ![p] = Stopped(how)]
    /\ UNCHANGED <<effects, recorded, locked>>

Ends(p, how) ==
    /\ proc' = [proc EXCEPT ![p] = Stopped(how)]
    /\ locked' = IF locked = p THEN Nobody ELSE locked
    /\ UNCHANGED <<effects, recorded>>

(* The lock is somebody else's for longer than busy_timeout, or a file's   *)
(* statements do not apply: the error rolls back and ends the process.     *)
ExecFailed(p) ==
    /\ proc[p].at = "choosing" /\ AtFile(p) \in Files \ proc[p].applied
    /\ locked # Nobody \/ ~Applicable(AtFile(p))
    /\ Ends(p, "down")

(* Killed, or a statement or the Commit fails for reasons of its own: what *)
(* was not committed is gone.                                              *)
Crash(p) == proc[p].at \notin {"down", "killed"} /\ Ends(p, "killed")

Init ==
    /\ effects = [f \in Files |-> 0]
    /\ recorded = {}
    /\ locked = Nobody
    /\ proc = [p \in Processes |-> Stopped("down")]

Run(p) == \/ CreateTable(p) \/ ListApplied(p) \/ Skip(p) \/ Exec(p) \/ Record(p)
          \/ Commit(p) \/ Serve(p) \/ ExecFailed(p)
Fault(p) == ListCut(p) \/ Crash(p)

Next == \E p \in Processes : Run(p) \/ Fault(p)

Spec == Init /\ [][Next]_vars

(* A process goes on, and one that ended is started again ("restart:       *)
(* unless-stopped").                                                       *)
FairSpec == Spec /\ \A p \in Processes : WF_vars(Run(p))

-----------------------------------------------------------------------------
(* Properties.                                                             *)

(* Every variable holds a value of its type. *)
TypeOK ==
    /\ effects \in [Files -> Nat] /\ recorded \subseteq Files
    /\ locked \in Processes \cup {Nobody}
    /\ proc \in [Processes ->
          [at : {"down", "killed", "listing", "choosing", "executed", "recorded", "serving"},
           applied : SUBSET Files, next : 1 .. Last + 1]]

(* Whatever processes do to each other's migrations and wherever they are   *)
(* stopped: a file takes effect once, after those before it and together    *)
(* with its record, and nobody serves on a schema older than the files it   *)
(* was built with, one that read half a list of them included.              *)
Serving == {p \in Processes : proc[p].at = "serving"}
Versions == INSTANCE SchemaVersions WITH serving <- Serving
VersionSpec == Versions!Spec

(* Once the faults end, every process ends up serving, one that lost a race *)
(* or read half a list included: its error is cured by the next start.      *)
EventuallyServing ==
    <>[][\A p \in Processes : ~Fault(p)]_vars
        => \A p \in Processes : <>[](proc[p].at = "serving")
=============================================================================
