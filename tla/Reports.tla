------------------------------ MODULE Reports -------------------------------
(* Study and run of the reports: HVBench::create and _onChangeGlobal read   *)
(* the two keys from etcd, one GET each, and give them to the output with   *)
(* update_study; the tenants' threads read them in KafkaOutput::write.      *)
(* The lock both take is a temporary, gone at the end of its statement, so  *)
(* nothing keeps the threads apart.  etcd and its watch are external here;  *)
(* Watch::Run itself is module EtcdWatch.                                   *)
EXTENDS Integers, Sequences

CONSTANTS
  Writers,         \* tenants, each with a sending thread
  GlobalChanges,   \* bound: changes of the keys below c_etcd_pglobals
  GlobalFailures,  \* bound: GETs that fail, fewer than MAX_FAILURES
  ReportBound      \* bound: reports written

GlobalKeys == {"study_id", "run_id"}
Torn == -1         \* a std::string read while it is assigned
Unset == -2        \* what the output is constructed with
NoReport == [tenant |-> "none"]

VARIABLES
  globals,         \* the keys' values; each change has a number of its own
  changes,         \* how many changes there have been
  updates,         \* actions of the changes the watch has not handled
  indexed,         \* has it handled one, so that its URL has a waitIndex
  deaf,            \* has a recovery made the watch lose the recursive flag
  pglobal,         \* where create, and later _onChangeGlobal, is
  got,             \* the values its GETs have returned
  booting,         \* is it still create
  getFailures,     \* GETs that failed
  study_id_, run_id_,
  reporting,       \* where each tenant's thread is, and what it has read
  report, reports, \* the last report written, and how many there are
  held,            \* history: the pairs etcd has held
  given,           \* history: the last pair given to update_study, and
                   \*          whether a key changed between its GETs
  mixed,           \* history: has a key changed since the first of the GETs
  unseen           \* history: changes the watch was not told of since it was

reportVars == <<globals, changes, updates, indexed, deaf, pglobal, got, booting,
                getFailures, study_id_, run_id_, reporting, report, reports,
                held, given, mixed, unseen>>
etcdSide == <<globals, changes, updates, indexed, deaf, held, unseen>>
updateSide == <<pglobal, got, booting, getFailures, study_id_, run_id_, given,
                mixed>>
writeSide == <<reporting, report, reports>>

Resting == [pc |-> "rest"]

ReportsInit ==
  /\ globals = [k \in GlobalKeys |-> 0] /\ changes = 0
  /\ updates = <<>> /\ indexed = FALSE /\ deaf = FALSE
  /\ pglobal = "directory" /\ booting = TRUE /\ getFailures = 0
  /\ got = [k \in GlobalKeys |-> 0]
  /\ study_id_ = Unset /\ run_id_ = Unset
  /\ reporting = [t \in Writers |-> Resting]
  /\ report = NoReport /\ reports = 0
  /\ held = {globals} /\ given = [none |-> TRUE] /\ mixed = FALSE
  /\ unseen = FALSE

-----------------------------------------------------------------------------
(* etcd.                                                                    *)

Watching == ~booting

(* Without a waitIndex a request is told only of a change that comes while  *)
(* it is there: one between two requests is missed.                         *)
MayMiss == ~Watching \/ deaf \/ (~indexed /\ updates = <<>>)

ChangeKey(k, action) ==
  /\ changes < GlobalChanges /\ changes' = changes + 1
  /\ globals' = [globals EXCEPT ![k] = changes + 1]
  /\ held' = held \cup {globals'}
  /\ mixed' = (mixed \/ pglobal = "run_id")
  /\ \/ Watching /\ ~deaf /\ updates' = Append(updates, action) /\ UNCHANGED unseen
     \/ MayMiss /\ unseen' = TRUE /\ UNCHANGED updates
  /\ UNCHANGED <<indexed, deaf, pglobal, got, booting, getFailures, study_id_, run_id_,
                 given, writeSide>>

(* etcd has forgotten what the watch asks for: the callback is given the    *)
(* reply of a GET instead, which _onChangeGlobal ignores, and the next      *)
(* requests are not recursive.                                              *)
RecoverGlobals ==
  /\ Watching /\ pglobal = "idle" /\ updates # <<>> /\ indexed
  /\ updates' = <<>> /\ deaf' = TRUE /\ unseen' = TRUE
  /\ UNCHANGED <<globals, changes, indexed, held, updateSide, writeSide>>

-----------------------------------------------------------------------------
(* HVBench::create.                                                         *)

CheckDirectory ==
  /\ pglobal = "directory" /\ pglobal' \in {"api_version", "refused"}
  /\ UNCHANGED <<etcdSide, got, booting, getFailures, study_id_, run_id_,
                 given, mixed, writeSide>>

CheckVersion ==
  /\ pglobal = "api_version" /\ pglobal' \in {"study_id", "refused", "threw"}
  /\ UNCHANGED <<etcdSide, got, booting, getFailures, study_id_, run_id_,
                 given, mixed, writeSide>>

(* AddDirectory, whose error is ignored: the instance may have been there   *)
(* before.  Then run() starts the watches.                                  *)
Register ==
  /\ pglobal = "register" /\ pglobal' = "idle" /\ booting' = FALSE
  /\ UNCHANGED <<etcdSide, got, getFailures, study_id_, run_id_, given, mixed,
                 writeSide>>

-----------------------------------------------------------------------------
(* _onChangeGlobal, and update_study for both.                              *)

OnChangeGlobal ==
  /\ Watching /\ pglobal = "idle" /\ updates # <<>>
  /\ IF Head(updates) = "update"
     THEN pglobal' = "study_id" /\ UNCHANGED <<updates, indexed, unseen>>
     ELSE /\ updates' = Tail(updates) /\ indexed' = TRUE /\ unseen' = TRUE
          /\ UNCHANGED pglobal
  /\ UNCHANGED <<globals, changes, deaf, held, got, booting, getFailures,
                 study_id_, run_id_, given, mixed, writeSide>>

GetStudy ==
  /\ pglobal = "study_id" /\ pglobal' = "run_id"
  /\ got' = [got EXCEPT !["study_id"] = globals["study_id"]]
  /\ mixed' = FALSE /\ unseen' = FALSE
  /\ UNCHANGED <<globals, changes, updates, indexed, deaf, held, booting,
                 getFailures, study_id_, run_id_, given, writeSide>>

GetRun ==
  /\ pglobal = "run_id" /\ pglobal' = "assign"
  /\ got' = [got EXCEPT !["run_id"] = globals["run_id"]]
  /\ UNCHANGED <<etcdSide, booting, getFailures, study_id_, run_id_, given,
                 mixed, writeSide>>

GetFails_EventLost ==
  /\ pglobal \in GlobalKeys /\ getFailures < GlobalFailures
  /\ getFailures' = getFailures + 1
  /\ pglobal' = IF booting THEN "threw" ELSE "idle"
  /\ CASE booting -> UNCHANGED <<updates, unseen>>
       [] ~booting /\ indexed -> updates' = Tail(updates) /\ UNCHANGED unseen
       [] OTHER -> updates' = <<>> /\ unseen' = TRUE
  /\ UNCHANGED <<globals, changes, indexed, deaf, held, got, booting, study_id_,
                 run_id_, given, mixed, writeSide>>

(* A GET that throws ends create; the watch catches what its callback       *)
(* throws and repeats its request.  With a waitIndex that brings the same   *)
(* change again; before the first change is handled there is none, and this *)
(* change and those after it are lost.                                      *)
GetFails ==
  /\ pglobal \in GlobalKeys /\ getFailures < GlobalFailures
  /\ getFailures' = getFailures + 1
  /\ pglobal' = IF booting THEN "threw" ELSE "idle"
  /\ IF booting \/ indexed THEN UNCHANGED <<updates, unseen>>
                           ELSE updates' = <<>> /\ unseen' = TRUE
  /\ UNCHANGED <<globals, changes, indexed, deaf, held, got, booting, study_id_,
                 run_id_, given, mixed, writeSide>>

(* Every report being written now may see half of the update.               *)
Overlapped == [t \in Writers |->
  IF reporting[t] = Resting THEN Resting
  ELSE [reporting[t] EXCEPT !.alone = FALSE]]

AssignStudy ==
  /\ pglobal = "assign" /\ pglobal' = "assigning" /\ study_id_' = Torn
  /\ reporting' = Overlapped
  /\ UNCHANGED <<etcdSide, got, booting, getFailures, run_id_, given, mixed,
                 report, reports>>

StudyAssigned ==
  /\ pglobal = "assigning" /\ pglobal' = "half" /\ study_id_' = got["study_id"]
  /\ UNCHANGED <<etcdSide, got, booting, getFailures, run_id_, given, mixed,
                 writeSide>>

(* The assignment of the run ends update_study, and with it the callback.   *)
AssignRun_Skipped ==
  /\ pglobal = "half" /\ given' = [pair |-> got, mixed |-> mixed]
  /\ pglobal' = IF booting THEN "register" ELSE "idle"
  /\ IF booting THEN UNCHANGED <<updates, indexed>>
                ELSE updates' = Tail(updates) /\ indexed' = TRUE
  /\ UNCHANGED <<globals, changes, deaf, held, unseen, got, booting,
                 getFailures, study_id_, run_id_, mixed, writeSide>>

AssignRun ==
  /\ pglobal = "half" /\ run_id_' = got["run_id"] /\ given' = [pair |-> got, mixed |-> mixed]
  /\ pglobal' = IF booting THEN "register" ELSE "idle"
  /\ IF booting THEN UNCHANGED <<updates, indexed>>
                ELSE updates' = Tail(updates) /\ indexed' = TRUE
  /\ UNCHANGED <<globals, changes, deaf, held, unseen, got, booting,
                 getFailures, study_id_, mixed, writeSide>>

-----------------------------------------------------------------------------
(* A tenant's thread: the visits of accept, then KafkaOutput::write.        *)

Collect(t) ==
  /\ Watching /\ reporting[t] = Resting /\ reports < ReportBound
  /\ reports' = reports + 1
  /\ reporting' = [reporting EXCEPT ![t] =
       [pc |-> "study_id", study |-> Torn, run |-> Torn,
        alone |-> pglobal \notin {"assigning", "half"}]]
  /\ UNCHANGED <<etcdSide, updateSide, report>>

ReadStudyId(t) ==
  /\ reporting[t].pc = "study_id"
  /\ reporting' = [reporting EXCEPT ![t].pc = "run_id", ![t].study = study_id_]
  /\ UNCHANGED <<etcdSide, updateSide, report, reports>>

ReadRunId(t) ==
  /\ reporting[t].pc = "run_id"
  /\ reporting' = [reporting EXCEPT ![t].pc = "send", ![t].run = run_id_]
  /\ UNCHANGED <<etcdSide, updateSide, report, reports>>

(* toJson, and the request handed to the connection.                        *)
SendReport(t) ==
  /\ reporting[t].pc = "send"
  /\ report' = [tenant |-> t, alone |-> reporting[t].alone, given |-> given,
                pair |-> [study_id |-> reporting[t].study,
                          run_id |-> reporting[t].run]]
  /\ reporting' = [reporting EXCEPT ![t] = Resting]
  /\ UNCHANGED <<etcdSide, updateSide, reports>>

-----------------------------------------------------------------------------
Create == CheckDirectory \/ CheckVersion \/ Register
UpdateStudy == AssignStudy \/ StudyAssigned \/ AssignRun
GlobalThread ==
  Create \/ OnChangeGlobal \/ GetStudy \/ GetRun \/ UpdateStudy
Write(t) == ReadStudyId(t) \/ ReadRunId(t) \/ SendReport(t)

ReportsNext ==
  \/ GlobalThread \/ GetFails \/ RecoverGlobals
  \/ \E k \in GlobalKeys, a \in {"update", "set"} : ChangeKey(k, a)
  \/ \E t \in Writers : Collect(t) \/ Write(t)

ReportsSpec ==
  /\ ReportsInit /\ [][ReportsNext]_reportVars
  /\ WF_reportVars(GlobalThread)

-----------------------------------------------------------------------------
(* Properties.                                                              *)

(* A report written while no update was going on names the study and the    *)
(* run of the last update_study, together; and if no key changed between    *)
(* the two GETs of that update, they are a pair that etcd has held (a key   *)
(* that did change leaves a pair of an old study and a new run): write,     *)
(* update_study and the GETs of _onChangeGlobal.                            *)
ReportsOnePair ==
  report # NoReport /\ report.alone =>
    /\ report.pair = report.given.pair
    /\ report.given.mixed \/ report.pair \in held

(* Once the keys stay as they are, the output gets their values, though     *)
(* GETs fail and changes come in while it is updated, if the watch is told  *)
(* of the last change and has a waitIndex by the time its GETs fail.  (It   *)
(* is not told of a change before it began, of one between two requests     *)
(* without a waitIndex, and of one that a recovery passes over; a change    *)
(* that is no UPDATE is ignored; and one whose GET fails before the watch   *)
(* has handled any is lost: _onChangeGlobal, HVBench::create, Watch::Run.)  *)
OutputConverges ==
  <>[](\/ unseen \/ pglobal \in {"directory", "refused", "threw"}
       \/ study_id_ = globals["study_id"] /\ run_id_ = globals["run_id"])
=============================================================================
