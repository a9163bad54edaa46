--------------------------- MODULE CommandsProofs ---------------------------
(***************************************************************************)
(* Proofs about Commands, for any set of commands, any number of files and *)
(* of servers: the five invariants of the module.                          *)
(***************************************************************************)
EXTENDS Commands, TLAPS

(* The prover of the leaves that do not name one. *)
USE Zenon

-----------------------------------------------------------------------------
(* The invariant.  First, where each command is in each phase.             *)

Own == {"backup_create"} \cup RestoreCmds

ClientPcs == {"prompt", "open", "check", "connect", "queued", "request", "reply", "copy",
              "reply_end", "close", "finish"}
StartPcs == {"start", "start_check", "launch", "wait_lock", "wait_info", "wait_pid", "wait_status"}
ForcePcs == {"force_pid", "force_wait"}
StopPcs == {"stop", "attach", "request_stop", "wait_stop"}
KillPcs == {"kill", "kill_pid", "kill_wait"}
Asking == (ClientCmds \cup {"config", "credentials"}) \ {"restore"}

Placed ==
    /\ phase \in {"dispatch", "exit"} => pc = "back"
    /\ phase = "checked" => pc = "back" /\ cmd = "backup_create"
    /\ phase = "starting" => pc \in StartPcs \cup {"back"} /\ cmd \in Own
    /\ phase = "stopping" => pc \in StopPcs \cup {"back"} /\ cmd \in Own
    /\ phase = "killing" => pc \in KillPcs \cup {"back"} /\ cmd = "backup_create"
    /\ phase = "working" =>
        /\ cmd \notin {"usage", "restore"}
        /\ \/ pc = "back"
           \/ cmd = "start" /\ pc \in StartPcs \cup ForcePcs
           \/ cmd = "shutdown" /\ pc \in StopPcs
           \/ cmd = "kill" /\ pc \in KillPcs
           \/ cmd = "status" /\ pc = "status"
           \/ cmd \in Asking /\ pc \in ClientPcs
        /\ pc = "prompt" => cmd \in RestoreCmds
        /\ pc \in {"copy", "reply_end"} => cmd = "backup_create"

ServerStates == {"none", "boot", "locked", "info", "up", "failed", "stop", "deactivated", "dead"}
SessionStates == {"none", "queued", "open", "closed", "abandoned"}
Data == {"start", "data", "progress"}
Records == Data \cup {"success"} \cup Reasons

(* The types, and that the servers are numbered in the order of their      *)
(* start.                                                                  *)
Phases == {"dispatch", "checked", "starting", "working", "stopping", "killing", "exit"}
Ids == 0 .. MaxBoots
Servers == [state : ServerStates, id : Ids, asked : BOOLEAN]

Typed ==
    /\ cmd \in Cmds /\ given \in BOOLEAN /\ monitor \in BOOLEAN
    /\ isRunning \in BOOLEAN /\ begun \in BOOLEAN
    /\ log \in Seq(Records)
    /\ phase \in Phases
    /\ verdict.rc \in {"none", "ok", "err", "throw"} /\ verdict.reason \in Reasons
    /\ rc \in {"none", "ok", "err"}
    /\ sess \in [state : SessionStates, with : Ids]
    /\ copied \in Seq(BOOLEAN) /\ Len(copied) <= Files
    /\ server \in Servers
    /\ att \in Ids /\ mine \in Ids /\ boots \in Ids /\ holding \in Ids /\ restored \in Ids /\ victims \subseteq Ids
    /\ server.id <= boots /\ mine <= boots /\ sess.with <= boots
    /\ att <= server.id

(* The states of a server that no longer answers, that is on its way out,  *)
(* and that has been up.                                                   *)
Over == {"deactivated", "none", "dead"}
Going == {"stop"} \cup Over
Living == {"up"} \cup Going

(* What backup create and restore know of the server that they have        *)
(* launched.  Once they have seen it hold the lock, the one that runs is   *)
(* that one or a younger one; once it is up, it never boots again; and     *)
(* once they have asked it to stop, it is on its way.                      *)
Lived ==
    /\ server.id >= mine
    /\ server.id = mine => server.state \in Living

Gone == server.id = mine => server.asked \/ server.state \in Going

Maintained ==
    cmd \in Own =>
        /\ phase \in {"dispatch", "checked", "starting"} => ~begun /\ ~isRunning
        /\ phase \in {"dispatch", "checked", "starting"} => victims = {} /\ restored = 0
        /\ phase = "starting" /\ pc \in {"wait_info", "wait_pid", "wait_status"} => server.id >= mine
        /\ phase = "starting" /\ pc = "back" /\ verdict.rc = "ok" => Lived
        /\ phase = "working" => (begun <=> ~isRunning) /\ victims = {}
        /\ cmd \in RestoreCmds => ~isRunning
        /\ phase \in {"stopping", "killing"} => begun
        /\ begun => Lived
        /\ phase = "stopping" /\ pc = "request_stop" => att >= mine
        /\ phase = "killing" \/ (phase = "stopping" /\ pc \in {"wait_stop", "back"}) => Gone
        /\ NothingLeft
        /\ HandsOff

Covered == copied = [i \in 1 .. Files |-> TRUE] /\ holding = 0

(* The files of a backup, while it is made and when it is done: as long as *)
(* the server of the session answers it is the one that holds still.       *)
Backed ==
    cmd = "backup_create" =>
        /\ phase \in {"dispatch", "checked", "starting"} => copied = << >> /\ rc # "ok"
        /\ phase = "working" =>
              /\ rc # "ok"
              /\ pc \in {"open", "check", "connect", "queued", "request", "reply"} => copied = << >>
              /\ pc \in {"copy", "reply_end"} =>
                    /\ holding = sess.with
                    /\ server.id = sess.with => server.state \in Living
                    /\ Answers => \A i \in 1 .. Len(copied) : copied[i] = TRUE
              /\ pc = "reply_end" => Len(copied) = Files
              /\ pc \in {"close", "finish", "back"} /\ verdict.rc = "ok" => Covered
        /\ rc = "ok" => Covered

(* The session, as the command goes on. *)
Ending == {"close", "finish", "back"}

Sessioned ==
    /\ phase \in {"dispatch", "checked", "starting"} \/ cmd \in ProcessCmds => sess.state = "none"
    /\ phase = "working" =>
        /\ pc \in {"prompt", "open", "check", "connect"} => sess.state = "none"
        /\ pc = "queued" => sess.state = "queued"
        /\ pc \in {"request", "reply", "copy", "reply_end"} => sess.state = "open"
        /\ pc \in Ending => sess.state # "queued" /\ (sess.state = "abandoned" => verdict.rc # "ok")
        /\ pc = "back" => sess.state # "open"
        /\ pc = "finish" /\ sess.state = "open" => verdict.rc = "ok" /\ cmd \notin DatastoreCmds
    /\ phase \in {"stopping", "killing", "exit"} =>
        \/ sess.state \in {"none", "closed"}
        \/ sess.state = "abandoned" /\ rc # "ok"
    /\ victims # {} => phase \in {"stopping", "killing", "exit"} \/ cmd \in ProcessCmds

(* What the monitor file holds.  It is unfinished from the start record to *)
(* the finish record, and then says what the function has ended with; a    *)
(* function that ends without a reason leaves it unfinished.               *)
Unfinished(q) ==
    /\ Len(q) > 0
    /\ \A i \in 1 .. Len(q) : q[i] \in Data /\ (q[i] = "start" <=> i = 1)

Success == Finished /\ LastRecord = "success"

Told ==
    IF verdict.reason = "none" THEN Unfinished(log)
    ELSE Finished /\ LastRecord = IF verdict.reason = "absent" THEN "success" ELSE verdict.reason

Writing == {"check", "connect", "queued", "request", "reply", "copy", "reply_end", "finish",
            "force_pid", "force_wait", "start_check", "launch", "wait_lock", "wait_info", "wait_pid",
            "wait_status", "attach", "request_stop", "wait_stop", "kill_pid", "kill_wait"}

(* What a function ends with: only some failures are recorded as success.  *)
Excused ==
    \/ cmd \in AltimeterCmds
    \/ cmd \in {"session_shutdown", "shutdown"} /\ verdict.cause = "both_options"
    \/ cmd \in {"shutdown", "kill"} /\ verdict.cause \in {"timeout", "quiet"}
    \/ cmd = "shutdown" /\ verdict.cause = "outrun"
    \/ cmd = "kill" /\ verdict.cause = "no_pid"
    \/ cmd = "restore_file_list" /\ verdict.cause = "bad_file_list"

Judged ==
    /\ verdict.rc \in {"ok", "err", "throw"}
    /\ verdict.rc = "ok" /\ cmd # "credentials" => verdict.reason = "absent"
    /\ cmd = "credentials" \/ verdict.rc = "throw" => verdict.reason = "none"
    /\ verdict.rc = "err" /\ verdict.reason = "absent" => Excused
    /\ cmd = "backup_create" => verdict.rc # "throw" /\ verdict.reason # "none"
    /\ cmd = "backup_create" /\ verdict.rc = "err" => verdict.reason # "absent"

(* What a restore ends with that has not opened the file, or has not set a *)
(* reason.                                                                 *)
Early == {"no_argument", "cancelled", "bad_file_list"}

Recorded ==
    /\ OneRecordSet
    /\ cmd # "backup_create" => monitor = given
    /\ cmd = "backup_create" =>
        /\ phase \in {"dispatch", "checked", "working"} => monitor = given
        /\ phase \in {"starting", "stopping", "killing"} => ~monitor
        /\ phase \in {"dispatch", "checked", "starting"} => log = << >>
    /\ cmd = "credentials" => log = << >>
    /\ Monitored /\ cmd # "credentials" =>
        /\ pc \in Writing => Unfinished(log)
        /\ pc = "close" => IF verdict.rc = "ok" /\ cmd \notin DatastoreCmds THEN Told ELSE Unfinished(log)
        /\ pc = "back" /\ phase \in {"starting", "working"} /\ verdict.cause # "cancelled" => Told
    /\ phase = "working" /\ pc \in Ending /\ verdict.cause # "cancelled" => Judged
    /\ phase = "working" /\ pc \in Ending /\ verdict.cause = "cancelled" =>
        pc = "back" /\ cmd \in RestoreCmds /\ verdict.rc = "err"
    /\ phase = "starting" /\ pc = "back" => verdict.cause # "cancelled"
    /\ phase = "starting" /\ pc = "back" /\ verdict.rc = "ok" => verdict.reason = "absent"
    /\ phase = "starting" /\ pc = "back" /\ verdict.rc # "ok" => verdict.reason # "absent"
    /\ phase = "stopping" /\ pc = "back" => verdict.rc # "throw"
    /\ phase = "killing" /\ pc = "back" /\ verdict.rc = "throw" => verdict.cause = "file_vanished"
    /\ phase \in {"stopping", "killing"} /\ given =>
        /\ rc = "ok" => Success
        /\ rc = "err" /\ Success =>
              cmd \in RestoreCmds /\ ended \in Early
    /\ RecordTellsExit

IInv == Typed /\ Placed /\ Maintained /\ Backed /\ Sessioned /\ Recorded

-----------------------------------------------------------------------------
(* What the functions end with                                             *)

(* All that can come of a client command. *)
Usual ==
    {"no_database_name", "connection_failure", "connection", "connection_timeout",
     "authentication_failure", "permission", "unknown", "exception"}
Outs == Checks \cup Preparing \cup Replies \cup Usual

(* What is true of the verdict v on the outcome out. *)
Rules(v, out) ==
    /\ v.rc \in {"ok", "err", "throw"} /\ v.reason \in Reasons
    /\ v.rc = "ok" /\ cmd # "credentials" => v.reason = "absent"
    /\ cmd = "credentials" \/ v.rc = "throw" => v.reason = "none"
    /\ v.rc = "err" /\ v.reason = "absent" =>
        \/ cmd \in AltimeterCmds
        \/ cmd = "session_shutdown" /\ out = "both_options"
        \/ cmd = "restore_file_list" /\ out = "bad_file_list"
    /\ cmd = "backup_create" => v.reason # "none" /\ v.rc # "throw"
    /\ cmd = "backup_create" /\ v.rc = "err" => v.reason # "absent"
    /\ cmd = "backup_create" /\ v.rc = "ok" => out = "success"
    /\ out = "success" /\ cmd \in RestoreCmds => v.rc = "ok"
    /\ out = "exception" => v.rc # "ok"

(* The fields of the verdicts.                                             *)
LEMMA Fields ==
  /\ Ok.rc = "ok" /\ Ok.reason = "absent"
  /\ Escape.rc = "throw" /\ Escape.reason = "none"
  /\ \A r : Err(r).rc = "err" /\ Err(r).reason = r
  /\ \A c, r : [rc |-> c, reason |-> r].rc = c /\ [rc |-> c, reason |-> r].reason = r
  BY DEF Ok, Err, Escape

(* The switch over result_case.                                            *)
LEMMA ByCases ==
  ASSUME NEW out
  PROVE  /\ ByCase(out).rc = IF out = "success" THEN "ok" ELSE IF out = "exception" THEN "throw" ELSE "err"
         /\ ByCase(out).reason = IF out = "success" THEN "absent"
                                 ELSE IF out = "error" THEN "server"
                                 ELSE IF out \in {"unset", "nullopt"} THEN "payload_broken"
                                 ELSE IF out = "no_database_name" THEN "connection_failure"
                                 ELSE IF out = "exception" THEN "none" ELSE out
  BY SMT DEF ByCase, Ok, Err, Escape

(* The altimeter commands fail whatever happens.                           *)
LEMMA Altimeters ==
  ASSUME NEW out
  PROVE  Altimeter(out) = IF out \in {"no_database_name", "exception"} THEN Escape
                          ELSE [rc |-> "err", reason |-> ByCase(out).reason]
  <1>1. Naming(out) = Escape <=> out \in {"no_database_name", "exception"}
    <2>1. ASSUME out \notin {"no_database_name", "exception"} PROVE Naming(out).rc # Escape.rc
      BY <2>1, ByCases, Fields, SMT DEF Naming
    <2>2. ASSUME out = "exception" PROVE ByCase(out) = Escape
      BY <2>2, SMT DEF ByCase
    <2> QED BY <2>1, <2>2, SMT DEF Naming
  <1> QED BY <1>1, SMT DEF Altimeter, AltimeterCode, post_processing

(* The verdicts of every command.                                          *)
LEMMA Verdicts ==
  ASSUME cmd \in Asking, NEW out \in Outs
  PROVE  Rules(Verdict(out), out)
  <1>1. CASE cmd = "session_list"
    <2>1. Verdict(out) = session_list(out)
      BY <1>1 DEF Verdict
    <2>2. out \in {"success", "nullopt", "error", "unset", "bad_session_id"} \cup Usual
      BY <1>1 DEF Outs, Checks, Preparing, Replies, MetricsCmds, DatastoreCmds, RestoreCmds, Usual
    <2> QED BY <1>1, <2>1, <2>2, ByCases, Fields, SMT
            DEF session_list, Rules, Reasons, Usual, AltimeterCmds, RestoreCmds
  <1>2. CASE cmd = "session_show"
    <2>1. Verdict(out) = session_show(out)
      BY <1>2 DEF Verdict
    <2>2. out \in {"success", "nullopt", "error", "unset"} \cup Usual
      BY <1>2 DEF Outs, Checks, Preparing, Replies, MetricsCmds, DatastoreCmds, RestoreCmds, Usual
    <2> QED BY <1>2, <2>1, <2>2, ByCases, Fields, SMT
            DEF session_show, Rules, Reasons, Usual, AltimeterCmds, RestoreCmds
  <1>3. CASE cmd = "session_shutdown"
    <2>1. Verdict(out) = session_shutdown(out)
      BY <1>3 DEF Verdict
    <2>2. out \in {"success", "nullopt", "error", "unset", "both_options"} \cup Usual
      BY <1>3 DEF Outs, Checks, Preparing, Replies, MetricsCmds, DatastoreCmds, RestoreCmds, Usual
    <2> QED BY <1>3, <2>1, <2>2, ByCases, Fields, SMT
            DEF session_shutdown, Rules, Reasons, Usual, AltimeterCmds, RestoreCmds
  <1>4. CASE cmd = "session_swtch"
    <2>1. Verdict(out) = session_swtch(out)
      BY <1>4 DEF Verdict
    <2>2. out \in {"success", "nullopt", "error", "unset"} \cup Usual
      BY <1>4 DEF Outs, Checks, Preparing, Replies, MetricsCmds, DatastoreCmds, RestoreCmds, Usual
    <2> QED BY <1>4, <2>1, <2>2, ByCases, Fields, SMT
            DEF session_swtch, Rules, Reasons, Usual, AltimeterCmds, RestoreCmds
  <1>5. CASE cmd = "request_list"
    <2>1. Verdict(out) = request_list(out)
      BY <1>5 DEF Verdict
    <2>2. out \in {"success", "nullopt", "error", "unset"} \cup Usual
      BY <1>5 DEF Outs, Checks, Preparing, Replies, MetricsCmds, DatastoreCmds, RestoreCmds, Usual
    <2> QED BY <1>5, <2>1, <2>2, ByCases, Fields, SMT
            DEF request_list, Naming, Rules, Reasons, Usual, AltimeterCmds, RestoreCmds
  <1>6. CASE cmd = "request_payload"
    <2>1. Verdict(out) = request_payload(out)
      BY <1>6 DEF Verdict
    <2>2. out \in {"success", "nullopt", "error", "unset"} \cup Usual
      BY <1>6 DEF Outs, Checks, Preparing, Replies, MetricsCmds, DatastoreCmds, RestoreCmds, Usual
    <2> QED BY <1>6, <2>1, <2>2, ByCases, Fields, SMT
            DEF request_payload, Naming, Rules, Reasons, Usual, AltimeterCmds, RestoreCmds
  <1>7. CASE cmd = "request_extract_sql"
    <2>1. Verdict(out) = request_extract_sql(out)
      BY <1>7 DEF Verdict
    <2>2. out \in {"success", "nullopt", "error", "unset", "other_response"} \cup Usual
      BY <1>7 DEF Outs, Checks, Preparing, Replies, MetricsCmds, DatastoreCmds, RestoreCmds, Usual
    <2> QED BY <1>7, <2>1, <2>2, ByCases, Fields, SMT
            DEF request_extract_sql, Naming, Rules, Reasons, Usual, AltimeterCmds, RestoreCmds
  <1>8. CASE cmd = "dbstats_list"
    <2>1. Verdict(out) = list(out)
      BY <1>8 DEF Verdict
    <2>2. out \in {"success", "nullopt", "text", "bad_format"} \cup Usual
      BY <1>8 DEF Outs, Checks, Preparing, Replies, MetricsCmds, DatastoreCmds, RestoreCmds, Usual
    <2> QED BY <1>8, <2>1, <2>2, ByCases, Fields, SMT
            DEF list, Naming, Rules, Reasons, Usual, AltimeterCmds, RestoreCmds
  <1>9. CASE cmd = "dbstats_show"
    <2>1. Verdict(out) = show(out)
      BY <1>9 DEF Verdict
    <2>2. out \in {"success", "nullopt", "text", "bad_format"} \cup Usual
      BY <1>9 DEF Outs, Checks, Preparing, Replies, MetricsCmds, DatastoreCmds, RestoreCmds, Usual
    <2> QED BY <1>9, <2>1, <2>2, ByCases, Fields, SMT
            DEF show, Naming, Rules, Reasons, Usual, AltimeterCmds, RestoreCmds
  <1>10. CASE cmd = "set_enabled"
    <2>1. Verdict(out) = set_enabled(out)
      BY <1>10 DEF Verdict
    <2>2. out \in {"success", "nullopt", "error", "unset", "internal"} \cup Usual
      BY <1>10 DEF Outs, Checks, Preparing, Replies, MetricsCmds, DatastoreCmds, RestoreCmds, Usual
    <2> QED BY <1>10, <2>1, <2>2, ByCases, Fields, Altimeters, SMT
            DEF set_enabled, Rules, Reasons, Usual, AltimeterCmds, RestoreCmds
  <1>11. CASE cmd = "set_log_level"
    <2>1. Verdict(out) = set_log_level(out)
      BY <1>11 DEF Verdict
    <2>2. out \in {"success", "nullopt", "error", "unset", "not_a_number"} \cup Usual
      BY <1>11 DEF Outs, Checks, Preparing, Replies, MetricsCmds, DatastoreCmds, RestoreCmds, Usual
    <2> QED BY <1>11, <2>1, <2>2, ByCases, Fields, Altimeters, SMT
            DEF set_log_level, Rules, Reasons, Usual, AltimeterCmds, RestoreCmds
  <1>12. CASE cmd = "set_statement_duration"
    <2>1. Verdict(out) = set_statement_duration(out)
      BY <1>12 DEF Verdict
    <2>2. out \in {"success", "nullopt", "error", "unset", "not_a_number"} \cup Usual
      BY <1>12 DEF Outs, Checks, Preparing, Replies, MetricsCmds, DatastoreCmds, RestoreCmds, Usual
    <2> QED BY <1>12, <2>1, <2>2, ByCases, Fields, Altimeters, SMT
            DEF set_statement_duration, Rules, Reasons, Usual, AltimeterCmds, RestoreCmds
  <1>13. CASE cmd = "rotate"
    <2>1. Verdict(out) = rotate(out)
      BY <1>13 DEF Verdict
    <2>2. out \in {"success", "nullopt", "error", "unset", "internal"} \cup Usual
      BY <1>13 DEF Outs, Checks, Preparing, Replies, MetricsCmds, DatastoreCmds, RestoreCmds, Usual
    <2> QED BY <1>13, <2>1, <2>2, ByCases, Fields, Altimeters, SMT
            DEF rotate, Rules, Reasons, Usual, AltimeterCmds, RestoreCmds
  <1>14. CASE cmd = "backup_create"
    <2>1. Verdict(out) = tgctl_backup_create(out)
      BY <1>14 DEF Verdict
    <2>2. out \in {"success", "nullopt", "error", "unset"} \cup Usual
      BY <1>14 DEF Outs, Checks, Preparing, Replies, MetricsCmds, DatastoreCmds, RestoreCmds, Usual
    <2> QED BY <1>14, <2>1, <2>2, ByCases, Fields, SMT
            DEF tgctl_backup_create, Rules, Reasons, Usual, AltimeterCmds, RestoreCmds
  <1>15. CASE cmd = "backup_estimate"
    <2>1. Verdict(out) = tgctl_backup_estimate(out)
      BY <1>15 DEF Verdict
    <2>2. out \in {"success", "nullopt", "error", "unset"} \cup Usual
      BY <1>15 DEF Outs, Checks, Preparing, Replies, MetricsCmds, DatastoreCmds, RestoreCmds, Usual
    <2> QED BY <1>15, <2>1, <2>2, ByCases, Fields, SMT
            DEF tgctl_backup_estimate, OrServer, Naming, Rules, Reasons, Usual, AltimeterCmds, RestoreCmds
  <1>16. CASE cmd = "restore_backup"
    <2>1. Verdict(out) = tgctl_restore_backup(out)
      BY <1>16 DEF Verdict
    <2>2. out \in {"success", "nullopt", "error", "unset"} \cup Usual
      BY <1>16 DEF Outs, Checks, Preparing, Replies, MetricsCmds, DatastoreCmds, RestoreCmds, Usual
    <2> QED BY <1>16, <2>1, <2>2, ByCases, Fields, SMT
            DEF tgctl_restore_backup, OrServer, Naming, Rules, Reasons, Usual, AltimeterCmds, RestoreCmds
  <1>17. CASE cmd = "restore_file_list"
    <2>1. Verdict(out) = tgctl_restore_backup_use_file_list(out)
      BY <1>17 DEF Verdict
    <2>2. out \in {"success", "nullopt", "error", "unset", "bad_file_list", "no_entries"} \cup Usual
      BY <1>17 DEF Outs, Checks, Preparing, Replies, MetricsCmds, DatastoreCmds, RestoreCmds, Usual
    <2> QED BY <1>17, <2>1, <2>2, ByCases, Fields, SMT
            DEF tgctl_restore_backup_use_file_list, OrServer, Naming, Rules, Reasons, Usual, AltimeterCmds, RestoreCmds
  <1>18. CASE cmd = "restore_tag"
    <2>1. Verdict(out) = tgctl_restore_tag(out)
      BY <1>18 DEF Verdict
    <2>2. out \in {"success", "nullopt", "error", "unset"} \cup Usual
      BY <1>18 DEF Outs, Checks, Preparing, Replies, MetricsCmds, DatastoreCmds, RestoreCmds, Usual
    <2> QED BY <1>18, <2>1, <2>2, ByCases, Fields, SMT
            DEF tgctl_restore_tag, OrServer, Naming, Rules, Reasons, Usual, AltimeterCmds, RestoreCmds
  <1>19. CASE cmd = "config"
    <2>1. Verdict(out) = config(out)
      BY <1>19 DEF Verdict
    <2>2. out \in {"success", "nullopt", "error", "unset", "not_found", "server", "bad_ini"} \cup Usual
      BY <1>19 DEF Outs, Checks, Preparing, Replies, MetricsCmds, DatastoreCmds, RestoreCmds, Usual
    <2> QED BY <1>19, <2>1, <2>2, ByCases, Fields, SMT
            DEF config, Rules, Reasons, Usual, AltimeterCmds, RestoreCmds
  <1>20. CASE cmd = "credentials"
    <2>1. Verdict(out) = credentials(out)
      BY <1>20 DEF Verdict
    <2>2. out \in {"success", "nullopt", "error", "unset", "bad_option", "file_exists", "no_credential", "cannot_open"} \cup Usual
      BY <1>20 DEF Outs, Checks, Preparing, Replies, MetricsCmds, DatastoreCmds, RestoreCmds, Usual
    <2> QED BY <1>20, <2>1, <2>2, ByCases, Fields, SMT
            DEF credentials, Rules, Reasons, Usual, AltimeterCmds, RestoreCmds
  <1> QED BY <1>1, <1>2, <1>3, <1>4, <1>5, <1>6, <1>7, <1>8, <1>9, <1>10, <1>11, <1>12, <1>13, <1>14, <1>15, <1>16, <1>17, <1>18, <1>19, <1>20, SMT
          DEF Asking, ClientCmds, SessionCmds, RequestCmds, MetricsCmds, AltimeterCmds, DatastoreCmds, RestoreCmds

-----------------------------------------------------------------------------
(* Which steps leave what alone                                            *)

(* The steps of a client command. *)
LEMMA ClientFrame ==
  ASSUME Client
  PROVE  /\ UNCHANGED <<cmd, given, monitor, phase, rc, isRunning, begun, ended>>
         /\ UNCHANGED <<mine, victims, server, boots, att>>
  BY DEF Client, Prompt, Open, Check, Connect, Handshake, Request, Reply, NoReply, Copy, ReplyEnd, Finish,
         Close, main, data, world

(* Those of tgctl_start. *)
LEMMA StartFrame ==
  ASSUME StartSteps
  PROVE  /\ UNCHANGED <<cmd, given, monitor, phase, rc, isRunning, begun, ended>>
         /\ UNCHANGED <<sess, copied, holding, restored, att, victims>>
  BY DEF StartSteps, tgctl_start, StartCheck, Launch, WaitLock, WaitInfo, WaitPid, WaitStatus,
         main, data

(* Those of the other functions that handle the process of a server. *)
LEMMA StopFrame ==
  ASSUME StopSteps
  PROVE  /\ UNCHANGED <<cmd, given, monitor, phase, rc, isRunning, begun, ended>>
         /\ UNCHANGED <<mine, sess, copied, holding, restored, boots>>
  BY DEF StopSteps, tgctl_shutdown_kill, Attach, tgctl_shutdown, WaitStop, KillPid, KillWait, tgctl_status,
         main, data, world

(* Those of tgctl_main. *)
LEMMA MainFrame ==
  ASSUME Main
  PROVE  /\ UNCHANGED <<cmd, given, mine, victims, server, boots>>
         /\ UNCHANGED <<sess, copied, holding, restored, att>>
  BY DEF Main, Dispatch, CheckRunning, BackupStarted, RestoreStarted, Worked, Stopped, data, world

(* And those of the server and of other users. *)
LEMMA EnvironmentFrame ==
  ASSUME Environment
  PROVE  /\ UNCHANGED <<cmd, given, monitor, phase, rc, isRunning, begun, ended, log, pc, verdict>>
         /\ UNCHANGED <<mine, victims, sess, copied, holding, restored, att>>
         /\ phase # "exit"
  BY DEF Environment, Booting, Failing, Leaving, Crash, OtherStart, OtherStop, Becomes, main, data

(* Every step is one of these. *)
LEMMA Steps ==
  ASSUME [Next]_vars
  PROVE  Client \/ StartSteps \/ StopSteps \/ Main \/ Environment \/ UNCHANGED vars
  BY DEF Next, Tgctl, StopSteps

-----------------------------------------------------------------------------
(* Where a command is                                                      *)

(* A call of throw or of tgctl_kill that fails ends the function.           *)
LEMMA Ends ==
  ASSUME NEW x, KillFails(x) \/ Throws(x)
  PROVE  /\ \E v, c : Return(log, v, c)
         /\ pc' = "back"
  <1>1. \E v, c : Return(log, v, c)
    BY DEF KillFails, Throws
  <1> QED BY <1>1 DEF Return, Goto

(* The steps of shutdown, of kill and of status stay in their function.    *)
LEMMA StopGoes ==
  ASSUME StopSteps
  PROVE  \/ pc \in StopPcs /\ pc' \in StopPcs \cup {"back"}
         \/ pc \in KillPcs /\ pc' \in KillPcs \cup {"back"}
         \/ pc = "force_pid" /\ pc' \in {"force_wait", "back"}
         \/ pc = "force_wait" /\ pc' \in {"start_check", "back"}
         \/ pc = "status" /\ pc' = "back"
  <1>1. CASE tgctl_shutdown_kill \/ tgctl_shutdown \/ WaitStop \/ tgctl_status
    BY <1>1 DEF tgctl_shutdown_kill, tgctl_shutdown, WaitStop, tgctl_status, Goto, Return, StopPcs, KillPcs
  <1>2. CASE Attach
    BY <1>2, Ends DEF Attach, Goto, Return, StopPcs
  <1>3. CASE KillPid
    BY <1>3, Ends DEF KillPid, Goto, Return, KillPcs
  <1>4. CASE KillWait
    BY <1>4, Ends DEF KillWait, Goto, Return, KillPcs
  <1> QED BY <1>1, <1>2, <1>3, <1>4 DEF StopSteps

(* None of them begins anew. *)
LEMMA StopLeaves ==
  ASSUME StopSteps
  PROVE  pc' \notin {"stop", "kill"}
  BY Ends DEF StopSteps, tgctl_shutdown_kill, Attach, tgctl_shutdown, WaitStop, KillPid, KillWait, tgctl_status,
              Goto, Return

(* After every step a command is where its phase lets it be.               *)
LEMMA PlacedKept ==
  ASSUME Typed, Placed, [Next]_vars
  PROVE  Placed'
  <1>0. phase \in Phases
    BY DEF Typed
  <1>1. CASE Environment \/ UNCHANGED vars
    BY <1>1, EnvironmentFrame DEF Placed, vars, main
  <1>2. CASE Client
    <2>1. UNCHANGED <<cmd, phase>>
      BY <1>2, ClientFrame
    <2>2. pc \in ClientPcs /\ pc' \in ClientPcs \cup {"back"}
      BY <1>2 DEF Client, Prompt, Open, Check, Connect, Handshake, Request, Reply, NoReply, Copy, ReplyEnd,
                  Finish, Close, Goto, Return, Conclude, ClientPcs
    <2>3. phase = "working" /\ cmd \in Asking
      BY <1>0, <2>2 DEF Placed, ClientPcs, StartPcs, ForcePcs, StopPcs, KillPcs, Phases
    <2>4. pc' # "prompt" /\ (pc' \in {"copy", "reply_end"} => cmd = "backup_create")
      BY <1>2, <2>3 DEF Client, Prompt, Open, Check, Connect, Handshake, Request, Reply, NoReply, Copy, ReplyEnd,
                  Finish, Close, Goto, Return, Conclude, Placed
    <2> QED BY <2>1, <2>2, <2>3, <2>4 DEF Placed
  <1>3. CASE StartSteps
    <2>1. UNCHANGED <<cmd, phase>>
      BY <1>3, StartFrame
    <2>2. /\ pc \in StartPcs
          /\ pc' \in StartPcs \cup {"back"} \/ (pc' = "force_pid" /\ cmd = "start")
      BY <1>3 DEF StartSteps, tgctl_start, StartCheck, Launch, WaitLock, WaitInfo, WaitPid, WaitStatus,
                  Goto, Return, StartPcs
    <2> QED BY <1>0, <2>1, <2>2
            DEF Placed, ClientPcs, StartPcs, ForcePcs, StopPcs, KillPcs, Phases, Own, RestoreCmds
  <1>4. CASE StopSteps
    <2>1. UNCHANGED <<cmd, phase>>
      BY <1>4, StopFrame
    <2>2. \/ pc \in StopPcs /\ pc' \in StopPcs \cup {"back"}
          \/ pc \in KillPcs /\ pc' \in KillPcs \cup {"back"}
          \/ pc = "force_pid" /\ pc' \in {"force_wait", "back"}
          \/ pc = "force_wait" /\ pc' \in {"start_check", "back"}
          \/ pc = "status" /\ pc' = "back"
      BY <1>4, StopGoes
    <2> QED BY <1>0, <2>1, <2>2 DEF Placed, ClientPcs, StartPcs, ForcePcs, StopPcs, KillPcs, Phases
  <1>5. CASE Main
    <2>0. cmd' = cmd /\ pc = "back"
      BY <1>5, MainFrame DEF Main, Dispatch, CheckRunning, BackupStarted, RestoreStarted, Worked, Stopped, Placed
    <2>1. CASE Dispatch
      <3>1. CASE phase' # "working"
        BY <2>0, <2>1, <3>1 DEF Dispatch, Enter, Exit, Goto, Placed, Own, StartPcs
      <3>2. CASE phase' = "working"
        <4>1. /\ cmd \in AllCmds \ (RestoreCmds \cup {"usage", "backup_create"})
              /\ pc' = CASE cmd = "start" -> "start" [] cmd = "shutdown" -> "stop"
                         [] cmd = "kill" -> "kill" [] cmd = "status" -> "status"
                         [] OTHER -> "open"
          BY <2>1, <3>2, CommandsAssumption DEF Dispatch, Enter, Exit, Goto, Typed
        <4>2. CASE cmd \in ProcessCmds
          <5>1. \/ cmd = "start" /\ pc' = "start"
                \/ cmd = "shutdown" /\ pc' = "stop"
                \/ cmd = "kill" /\ pc' = "kill"
                \/ cmd = "status" /\ pc' = "status"
            BY <4>1, <4>2, SMT DEF ProcessCmds
          <5> QED BY <2>0, <3>2, <5>1 DEF Placed, StartPcs, StopPcs, KillPcs
        <4>3. CASE cmd \notin ProcessCmds
          <5>1. pc' = "open" /\ cmd \in Asking /\ cmd \notin {"usage", "restore"}
            BY <4>1, <4>3 DEF ProcessCmds, AllCmds, Asking, RestoreCmds
          <5> QED BY <2>0, <3>2, <5>1 DEF Placed, ClientPcs
        <4> QED BY <4>2, <4>3
      <3> QED BY <3>1, <3>2
    <2>2. CASE CheckRunning
      BY <2>0, <2>2 DEF CheckRunning, Enter, Goto, Placed, Own, RestoreCmds, StartPcs, Asking, ClientPcs, ClientCmds, DatastoreCmds
    <2>3. CASE BackupStarted
      BY <2>0, <2>3 DEF BackupStarted, Enter, Exit, Goto, Placed, Asking, ClientPcs, ClientCmds, DatastoreCmds
    <2>4. CASE RestoreStarted
      BY <2>0, <2>4 DEF RestoreStarted, Enter, Exit, Goto, Placed, Asking, ClientPcs, ClientCmds, DatastoreCmds, RestoreCmds, Own,
                         StopPcs
    <2>5. CASE Worked
      BY <2>0, <2>5 DEF Worked, Enter, Exit, Goto, Placed, Own, StopPcs
    <2>6. CASE Stopped
      BY <2>0, <2>6 DEF Stopped, Enter, Exit, Goto, Placed, KillPcs
    <2> QED BY <1>5, <2>1, <2>2, <2>3, <2>4, <2>5, <2>6 DEF Main
  <1> QED BY <1>1, <1>2, <1>3, <1>4, <1>5, Steps

-----------------------------------------------------------------------------
(* The server                                                              *)

(* What becomes of the server in one step: it stays, or a new one comes;   *)
(* one that is up does not boot again, one that stops does not come up     *)
(* again, and one that is gone stays gone.                                 *)
Onward(S) == server.state \in S => server'.state \in S

Aged ==
    /\ boots' \in Ids /\ boots <= boots' /\ server'.id \in Ids
    /\ \/ server'.id = boots' /\ boots' = boots + 1
       \/ /\ server'.id = server.id
          /\ Onward(Over) /\ Onward(Going) /\ Onward(Living)
          /\ server.asked => server'.asked

(* The constants. *)
LEMMA Bounds ==
  /\ MaxBoots \in Nat /\ MaxBoots > 0 /\ Files \in Nat /\ Cmds \subseteq AllCmds
  /\ 0 \in Ids /\ 1 \in Ids /\ \A i \in Ids : i \in Nat
  BY CommandsAssumption, SMT DEF Ids

(* Nothing happens to the server. *)
LEMMA Idle ==
  ASSUME Typed, UNCHANGED <<server, boots>>
  PROVE  server' \in Servers /\ Aged
  <1>1. boots \in Ids /\ boots <= boots /\ server.id \in Ids
    BY Bounds, SMT DEF Typed, Servers
  <1> QED BY <1>1 DEF Typed, Aged, Onward, Servers

(* The server goes on to another state. *)
LEMMA GoesOn ==
  ASSUME Typed, boots' = boots, NEW to \in ServerStates, server' = [server EXCEPT !.state = to],
         to \in Over \/ server.state \notin Over,
         to \in Going \/ server.state \notin Going,
         to \in Living \/ server.state \notin Living
  PROVE  /\ server' \in Servers /\ Aged
         /\ server'.id = server.id /\ server'.state = to /\ server'.asked = server.asked
  <1>1. boots \in Ids /\ boots <= boots /\ server.id \in Ids
    BY Bounds, SMT DEF Typed, Servers
  <1>2. /\ server' \in Servers
        /\ server'.state = to /\ server'.id = server.id /\ server'.asked = server.asked
    BY DEF Typed, Servers
  <1> QED BY <1>1, <1>2 DEF Aged, Onward

(* It is asked to shut down. *)
LEMMA IsAsked ==
  ASSUME Typed, boots' = boots, server' = [server EXCEPT !.asked = TRUE]
  PROVE  /\ server' \in Servers /\ Aged
         /\ server'.id = server.id /\ server'.state = server.state /\ server'.asked = TRUE
  <1>1. boots \in Ids /\ boots <= boots /\ server.id \in Ids
    BY Bounds, SMT DEF Typed, Servers
  <1>2. /\ server' \in Servers
        /\ server'.state = server.state /\ server'.id = server.id /\ server'.asked = TRUE
    BY DEF Typed, Servers
  <1> QED BY <1>1, <1>2 DEF Aged, Onward

(* A new one boots. *)
LEMMA Boots ==
  ASSUME Typed, boots < MaxBoots, boots' = boots + 1, server' = [state |-> "boot", id |-> boots', asked |-> FALSE]
  PROVE  server' \in Servers /\ Aged /\ server'.id = boots'
  <1>1. boots' \in Ids /\ boots <= boots'
    BY Bounds, SMT DEF Typed, Ids
  <1> QED BY <1>1 DEF Aged, ServerStates, Servers

(* Whatever the step. *)
LEMMA ServerMoves ==
  ASSUME Typed, [Next]_vars
  PROVE  server' \in Servers /\ Aged
  <1>1. CASE Client \/ Main \/ UNCHANGED vars
    BY <1>1, ClientFrame, MainFrame, Idle DEF vars, world
  <1>2. CASE StartSteps
    <2>1. CASE UNCHANGED <<server, boots>>
      BY <2>1, Idle
    <2>3. CASE Launch /\ server' # server
      BY <2>3, Boots DEF Launch, world
    <2>4. CASE Launch /\ server' = server /\ boots' # boots
      <3>1. boots < MaxBoots /\ boots' = boots + 1
        BY <2>4 DEF Launch, world
      <3>2. boots' \in Ids /\ boots <= boots' /\ server.id \in Ids
        BY <3>1, Bounds, SMT DEF Typed, Servers, Ids
      <3> QED BY <2>4, <3>2 DEF Typed, Aged, Onward, Servers
    <2> QED BY <1>2, <2>1, <2>3, <2>4
            DEF StartSteps, tgctl_start, StartCheck, WaitLock, WaitInfo, WaitPid, WaitStatus, world
  <1>3. CASE StopSteps
    <2>1. CASE UNCHANGED <<server, boots>>
      BY <2>1, Idle
    <2>2. CASE tgctl_shutdown
      BY <2>1, <2>2, IsAsked DEF tgctl_shutdown
    <2>3. CASE KillPid
      <3>1. CASE server' = [server EXCEPT !.state = IF IsAlive THEN "dead" ELSE @] /\ boots' = boots
        <4>1. CASE IsAlive
          BY <3>1, <4>1, GoesOn DEF ServerStates, Over, Going, Living
        <4>2. CASE ~IsAlive
          <5>1. server' = server
            BY <3>1, <4>2, SMT DEF Typed, Servers
          <5> QED BY <3>1, <5>1, Idle
        <4> QED BY <4>1, <4>2
      <3> QED BY <2>1, <2>3, <3>1 DEF KillPid
    <2>4. CASE KillWait
      <3>1. CASE server' = [server EXCEPT !.state = IF @ = "dead" THEN "none" ELSE @] /\ boots' = boots
        <4>1. CASE server.state = "dead"
          BY <3>1, <4>1, GoesOn DEF ServerStates, Over, Going, Living
        <4>2. CASE server.state # "dead"
          <5>1. server' = server
            BY <3>1, <4>2, SMT DEF Typed, Servers
          <5> QED BY <3>1, <5>1, Idle
        <4> QED BY <4>1, <4>2
      <3> QED BY <2>1, <2>4, <3>1 DEF KillWait
    <2> QED BY <1>3, <2>1, <2>2, <2>3, <2>4
            DEF StopSteps, tgctl_shutdown_kill, Attach, WaitStop, tgctl_status, world
  <1>4. CASE Environment
    <2>1. CASE OtherStart
      BY <2>1, Boots DEF OtherStart
    <2>2. CASE OtherStop
      BY <2>2, IsAsked DEF OtherStop
    <2>3. CASE Booting
      BY <2>3, GoesOn DEF Booting, Becomes, ServerStates, Over, Going, Living
    <2>4. CASE Failing
      BY <2>4, GoesOn DEF Failing, Becomes, ServerStates, Over, Going, Living
    <2>5. CASE Leaving
      BY <2>5, GoesOn DEF Leaving, Becomes, ServerStates, Over, Going, Living
    <2>6. CASE Crash
      BY <2>6, GoesOn DEF Crash, Becomes, ServerStates, Over, Going, Living
    <2> QED BY <1>4, <2>1, <2>2, <2>3, <2>4, <2>5, <2>6 DEF Environment
  <1> QED BY <1>1, <1>2, <1>3, <1>4, Steps

-----------------------------------------------------------------------------
(* The records of the monitor file and the verdicts                        *)

(* Whatever is written is a record. *)
LEMMA LogTypes ==
  ASSUME log \in Seq(Records)
  PROVE  /\ MonitorStart \in Seq(Records)
         /\ \A k \in Records : MonitorData(k) \in Seq(Records)
         /\ \A q \in Seq(Records), r \in Reasons : MonitorFinish(q, r) \in Seq(Records)
  <1>1. MonitorStart \in Seq(Records)
    <2>1. "start" \in Records
      BY DEF Records, Data
    <2> QED BY <2>1, SMT DEF MonitorStart
  <1>2. ASSUME NEW k \in Records PROVE MonitorData(k) \in Seq(Records)
    BY <1>2, SMT DEF MonitorData
  <1>3. ASSUME NEW q \in Seq(Records), NEW r \in Reasons PROVE MonitorFinish(q, r) \in Seq(Records)
    <2>1. (IF r = "absent" THEN "success" ELSE r) \in Records
      BY <1>3 DEF Records
    <2> QED BY <1>3, <2>1, SMT DEF MonitorFinish
  <1> QED BY <1>1, <1>2, <1>3

VerdictTyped ==
    log \in Seq(Records) /\ verdict.rc \in {"none", "ok", "err", "throw"} /\ verdict.reason \in Reasons

(* A function returns. *)
LEMMA Returns ==
  ASSUME NEW q, NEW v, NEW c, Return(q, v, c)
  PROVE  /\ verdict'.rc = v.rc /\ verdict'.reason = v.reason /\ verdict'.cause = c
         /\ log' = MonitorFinish(q, v.reason) /\ pc' = "back"
  BY DEF Return, Goto

(* One that is given up at the prompt adds nothing to the file. *)
LEMMA ReturnsBare ==
  ASSUME Return(log, [rc |-> "err", reason |-> "none"], "cancelled")
  PROVE  log' = log
  <1>1. [rc |-> "err", reason |-> "none"].reason = "none"
    OBVIOUS
  <1>2. log' = MonitorFinish(log, "none")
    BY <1>1 DEF Return
  <1> QED BY <1>2 DEF MonitorFinish

(* Its return code is that of what it returns. *)
LEMMA ReturnCodes ==
  /\ \A q, c : Return(q, Ok, c) => verdict'.rc = "ok" /\ verdict'.reason = "absent" /\ verdict'.cause = c
  /\ \A q, c : Return(q, Escape, c) => verdict'.rc = "throw" /\ verdict'.reason = "none" /\ verdict'.cause = c
  /\ \A q, c, r : Return(q, Err(r), c) => verdict'.rc = "err" /\ verdict'.reason = r /\ verdict'.cause = c
  /\ \A q, c : Return(q, [rc |-> "err", reason |-> "none"], c) =>
                  verdict'.rc = "err" /\ verdict'.reason = "none" /\ verdict'.cause = c
  <1>1. ASSUME NEW q, NEW c, Return(q, Ok, c)
        PROVE  verdict'.rc = "ok" /\ verdict'.reason = "absent" /\ verdict'.cause = c
    BY <1>1 DEF Return, Ok
  <1>2. ASSUME NEW q, NEW c, Return(q, Escape, c)
        PROVE  verdict'.rc = "throw" /\ verdict'.reason = "none" /\ verdict'.cause = c
    BY <1>2 DEF Return, Escape
  <1>3. ASSUME NEW q, NEW c, NEW r, Return(q, Err(r), c)
        PROVE  verdict'.rc = "err" /\ verdict'.reason = r /\ verdict'.cause = c
    BY <1>3 DEF Return, Err
  <1>4. [rc |-> "err", reason |-> "none"] = Err("none")
    BY DEF Err
  <1> QED BY <1>1, <1>2, <1>3, <1>4

(* What it has written are records. *)
LEMMA ReturnTypes ==
  ASSUME log \in Seq(Records), NEW q \in Seq(Records)
  PROVE  /\ \A c : Return(q, Ok, c) => VerdictTyped'
         /\ \A c : Return(q, Escape, c) => VerdictTyped'
         /\ \A c : \A r \in Reasons : Return(q, Err(r), c) => VerdictTyped'
         /\ \A c : Return(q, [rc |-> "err", reason |-> "none"], c) => VerdictTyped'
  <1>0. ASSUME NEW v, NEW c, Return(q, v, c), v.rc \in {"ok", "err", "throw"}, v.reason \in Reasons
        PROVE  VerdictTyped'
    BY <1>0, Returns, LogTypes DEF VerdictTyped
  <1>1. "absent" \in Reasons /\ "none" \in Reasons
    BY DEF Reasons
  <1>2. ASSUME NEW c, NEW r \in Reasons, Return(q, Err(r), c) PROVE VerdictTyped'
    BY <1>0, <1>2, Fields
  <1>3. [rc |-> "err", reason |-> "none"] = Err("none")
    BY DEF Err
  <1> QED BY <1>0, <1>1, <1>2, <1>3, Fields

(* So too if it returns because a call has thrown or failed. *)
LEMMA EndTypes ==
  ASSUME log \in Seq(Records), NEW x
  PROVE  /\ x \in Reasons /\ Throws(x) => VerdictTyped'
         /\ KillFails(x) => VerdictTyped'
  <1>1. "absent" \in Reasons /\ "initialization" \in Reasons
    BY DEF Reasons
  <1>2. ASSUME x \in Reasons, Throws(x) PROVE VerdictTyped'
    BY <1>1, <1>2, ReturnTypes DEF Throws
  <1>3. ASSUME KillFails(x) PROVE VerdictTyped'
    BY <1>1, <1>3, ReturnTypes DEF KillFails
  <1> QED BY <1>2, <1>3

(* A function of a client command has its answer. *)
LEMMA Concludes ==
  ASSUME cmd \in Asking, NEW out \in Outs, Conclude(out)
  PROVE  /\ Rules(verdict', out) /\ verdict'.cause = out
         /\ pc' = IF verdict'.rc = "ok" /\ cmd \notin DatastoreCmds THEN "finish" ELSE "close"
         /\ verdict'.rc \in {"ok", "err", "throw"} /\ verdict'.reason \in Reasons
  <1>1. verdict'.rc = Verdict(out).rc /\ verdict'.reason = Verdict(out).reason /\ verdict'.cause = out
    BY DEF Conclude
  <1>2. Rules(Verdict(out), out)
    BY Verdicts
  <1> QED BY <1>1, <1>2 DEF Conclude, Goto, Rules

(* Every step of a client command either concludes with one of the         *)
(* outcomes, or returns from the prompt, or leaves the verdict alone.      *)
LEMMA ClientConcludes ==
  ASSUME Typed, Placed, Client
  PROVE  /\ phase = "working" /\ cmd \in Asking /\ pc \in ClientPcs
         /\ \/ \E out \in Outs : Conclude(out)
            \/ pc = "prompt" /\ Return(log, [rc |-> "err", reason |-> "none"], "cancelled")
            \/ verdict' = verdict
  <1>1. pc \in ClientPcs
    BY DEF Client, Prompt, Open, Check, Connect, Handshake, Request, Reply, NoReply, Copy, ReplyEnd, Finish,
           Close, ClientPcs
  <1>2. phase = "working" /\ cmd \in Asking
    BY <1>1 DEF Typed, Placed, ClientPcs, StartPcs, ForcePcs, StopPcs, KillPcs, Phases
  <1>3. "success" \in Replies
    BY DEF Replies
  <1>4. CASE Prompt \/ Open \/ Connect \/ Handshake \/ Copy \/ Finish \/ Close
    BY <1>1, <1>2, <1>4 DEF Prompt, Open, Connect, Handshake, Copy, Finish, Close, Outs, Usual
  <1>5. CASE Check \/ Request \/ Reply \/ NoReply \/ ReplyEnd
    BY <1>1, <1>2, <1>3, <1>5 DEF Check, Request, Reply, NoReply, ReplyEnd, Outs, Usual
  <1> QED BY <1>4, <1>5 DEF Client

(* What a function ends with, and what it has written, have their types    *)
(* after every step.                                                       *)
LEMMA VerdictTypes ==
  ASSUME Typed, Placed, [Next]_vars
  PROVE  VerdictTyped'
  <1>0. log \in Seq(Records) /\ MonitorStart \in Seq(Records) /\ VerdictTyped
    BY LogTypes DEF Typed, VerdictTyped
  <1>1. CASE Environment \/ UNCHANGED vars
    BY <1>0, <1>1, EnvironmentFrame DEF VerdictTyped, vars
  <1>2. CASE Client
    <2>1. verdict'.rc \in {"none", "ok", "err", "throw"} /\ verdict'.reason \in Reasons
      <3>1. ASSUME NEW out \in Outs, Conclude(out)
            PROVE  verdict'.rc \in {"none", "ok", "err", "throw"} /\ verdict'.reason \in Reasons
        BY <1>2, <3>1, ClientConcludes, Concludes
      <3>2. CASE Return(log, [rc |-> "err", reason |-> "none"], "cancelled")
        BY <1>0, <3>2, ReturnTypes DEF VerdictTyped
      <3>3. CASE verdict' = verdict
        BY <1>0, <3>3 DEF VerdictTyped
      <3> QED BY <1>2, <3>1, <3>2, <3>3, ClientConcludes
    <2>2. log' \in Seq(Records)
      <3>1. "data" \in Records /\ "progress" \in Records /\ "none" \in Reasons /\ verdict.reason \in Reasons
        BY <1>0 DEF Records, Data, Reasons, VerdictTyped
      <3>2. /\ MonitorData("data") \in Seq(Records) /\ MonitorData("progress") \in Seq(Records)
            /\ MonitorFinish(log, verdict.reason) \in Seq(Records)
        BY <1>0, <3>1, LogTypes
      <3>3. CASE Prompt
        BY <1>0, <3>3, ReturnsBare DEF Prompt
      <3>4. CASE Open \/ Check \/ Connect \/ Handshake \/ Request
        BY <1>0, <3>2, <3>4 DEF Open, Check, Connect, Handshake, Request
      <3>5. CASE Reply \/ NoReply \/ Copy
        BY <1>0, <3>2, <3>5 DEF Reply, NoReply, Copy
      <3>6. CASE ReplyEnd \/ Finish \/ Close
        BY <1>0, <3>2, <3>6 DEF ReplyEnd, Finish, Close
      <3> QED BY <1>2, <3>3, <3>4, <3>5, <3>6 DEF Client
    <2> QED BY <2>1, <2>2 DEF VerdictTyped
  <1>3. CASE StartSteps
    <2>1. CASE tgctl_start
      BY <1>0, <2>1, ReturnTypes DEF tgctl_start, Reasons, VerdictTyped
    <2>3. CASE StartCheck
      BY <1>0, <2>3, ReturnTypes DEF StartCheck, Reasons, VerdictTyped
    <2>4. CASE Launch
      BY <1>0, <2>4, ReturnTypes DEF Launch, Reasons, VerdictTyped
    <2>5. CASE WaitLock
      BY <1>0, <2>5, ReturnTypes DEF WaitLock, Reasons, VerdictTyped
    <2>6. CASE WaitInfo \/ WaitPid
      BY <1>0, <2>6, ReturnTypes DEF WaitInfo, WaitPid, Reasons, VerdictTyped
    <2>7. CASE WaitStatus
      BY <1>0, <2>7, ReturnTypes DEF WaitStatus, Reasons, VerdictTyped
    <2> QED BY <1>3, <2>1, <2>3, <2>4, <2>5, <2>6, <2>7 DEF StartSteps
  <1>4. CASE StopSteps
    <2>1. CASE tgctl_shutdown_kill
      BY <1>0, <2>1, ReturnTypes DEF tgctl_shutdown_kill, Reasons, VerdictTyped
    <2>2. CASE tgctl_shutdown \/ WaitStop
      BY <1>0, <2>2, ReturnTypes DEF tgctl_shutdown, WaitStop, Reasons, VerdictTyped
    <2>3. CASE Attach
      <3>1. "invalid_status" \in Reasons /\ "ambiguous" \in Reasons
        BY DEF Reasons
      <3> QED BY <1>0, <2>3, <3>1, ReturnTypes, EndTypes DEF Attach, VerdictTyped
    <2>5. CASE KillPid
      <3>1. "invalid_status" \in Reasons
        BY DEF Reasons
      <3> QED BY <1>0, <2>5, <3>1, ReturnTypes, EndTypes DEF KillPid, VerdictTyped
    <2>6. CASE KillWait
      <3>1. "ambiguous" \in Reasons
        BY DEF Reasons
      <3> QED BY <1>0, <2>6, <3>1, ReturnTypes, EndTypes DEF KillWait, VerdictTyped
    <2>4. CASE tgctl_status
      <3>0. "start" \in Records /\ "data" \in Records
        BY DEF Records, Data
      <3>1. (IF Monitored THEN <<"start", "data">> ELSE log) \in Seq(Records)
        BY <1>0, <3>0, SMT
      <3> QED BY <1>0, <2>4, <3>1, ReturnTypes DEF tgctl_status, Reasons, VerdictTyped
    <2> QED BY <1>4, <2>1, <2>2, <2>3, <2>4, <2>5, <2>6 DEF StopSteps
  <1>5. CASE Main
    <2>1. CASE UNCHANGED <<log, verdict>>
      BY <1>0, <2>1 DEF VerdictTyped
    <2>2. CASE tgctl_backup_directory_check
      BY <1>0, <2>2, LogTypes DEF tgctl_backup_directory_check, VerdictTyped, Reasons
    <2> QED BY <1>5, <2>1, <2>2 DEF Main, Dispatch, CheckRunning, BackupStarted, RestoreStarted, Worked, Stopped
  <1> QED BY <1>1, <1>2, <1>3, <1>4, <1>5, Steps

-----------------------------------------------------------------------------
(* The types                                                               *)

(* They hold at first, and after every step. *)
LEMMA TypedKept ==
  ASSUME Typed, Placed, [Next]_vars
  PROVE  Typed'
  <1>0. /\ server \in Servers /\ sess \in [state : SessionStates, with : Ids]
        /\ server.id \in Ids /\ boots \in Ids /\ att \in Ids
    BY DEF Typed, Servers
  <1>1. server' \in Servers /\ Aged /\ VerdictTyped'
    BY ServerMoves, VerdictTypes
  <1>2. boots' \in Ids /\ boots <= boots' /\ server'.id <= boots'
    BY <1>1, Bounds, SMT DEF Aged, Typed
  <1>3. mine' = mine \/ mine' = boots'
    BY Steps, ClientFrame, StopFrame, MainFrame, EnvironmentFrame
       DEF StartSteps, tgctl_start, StartCheck, Launch, WaitLock, WaitInfo, WaitPid, WaitStatus, vars
  <1>4. mine' \in Ids /\ mine' <= boots'
    BY <1>2, <1>3, Bounds, SMT DEF Typed
  <1>5. /\ sess' \in [state : SessionStates, with : Ids]
        /\ sess'.with = sess.with \/ sess'.with = server.id
    <2>1. CASE sess' = sess
      BY <1>0, <2>1
    <2>2. CASE Client
      <3>1. CASE Connect
        <4>1. sess' = sess \/ sess' = [state |-> "queued", with |-> server.id]
          BY <3>1 DEF Connect
        <4> QED BY <1>0, <2>1, <4>1, SMT DEF SessionStates
      <3>2. CASE Handshake
        BY <1>0, <3>2 DEF Handshake, SessionStates
      <3>3. CASE Close
        <4>1. PICK x \in SessionStates : sess' = [sess EXCEPT !.state = x]
          BY <1>0, <3>3 DEF Close, SessionStates
        <4> QED BY <1>0, <4>1
      <3> QED BY <2>1, <2>2, <3>1, <3>2, <3>3
              DEF Client, Prompt, Open, Check, Request, Reply, NoReply, Copy, ReplyEnd, Finish
    <2> QED BY <2>1, <2>2, Steps, StartFrame, StopFrame, MainFrame, EnvironmentFrame DEF vars
  <1>6. sess'.with <= boots'
    BY <1>0, <1>2, <1>5, Bounds, SMT DEF Typed
  <1>7. copied' \in Seq(BOOLEAN) /\ Len(copied') <= Files
    <2>1. CASE copied' = copied
      BY <2>1 DEF Typed
    <2>2. CASE Copy /\ copied' # copied
      <3>1. PICK b \in BOOLEAN : copied' = Append(copied, b) /\ Len(copied) < Files
        BY <2>2 DEF Copy
      <3> QED BY <3>1, Bounds, SMT DEF Typed
    <2> QED BY <2>1, <2>2, Steps, StartFrame, StopFrame, MainFrame, EnvironmentFrame
            DEF Client, Prompt, Open, Check, Connect, Handshake, Request, Reply, NoReply, ReplyEnd, Finish, Close,
                vars, data
  <1>8. holding' \in Ids /\ restored' \in Ids
    <2>1. CASE UNCHANGED <<holding, restored>>
      BY <2>1 DEF Typed
    <2>2. CASE Reply
      BY <1>0, <2>2 DEF Reply, Typed
    <2>3. CASE ReplyEnd
      BY <2>3, Bounds DEF ReplyEnd, Typed
    <2> QED BY <2>1, <2>2, <2>3, Steps, StartFrame, StopFrame, MainFrame, EnvironmentFrame
            DEF Client, Prompt, Open, Check, Connect, Handshake, Request, NoReply, Copy, Finish, Close, vars, data
  <1>9. victims' \subseteq Ids
    <2>1. victims' = victims \/ \E s \in {server.id, att} : victims' = victims \cup {s}
      BY Steps, ClientFrame, StartFrame, MainFrame, EnvironmentFrame
         DEF StopSteps, tgctl_shutdown_kill, Attach, tgctl_shutdown, WaitStop, KillPid, KillWait, tgctl_status, vars
    <2> QED BY <1>0, <2>1 DEF Typed
  <1>10. /\ cmd' \in Cmds /\ given' \in BOOLEAN /\ monitor' \in BOOLEAN
         /\ isRunning' \in BOOLEAN /\ begun' \in BOOLEAN
         /\ phase' \in Phases /\ rc' \in {"none", "ok", "err"}
    <2>1. CASE UNCHANGED <<cmd, given, monitor, phase, rc, isRunning, begun>>
      BY <2>1 DEF Typed
    <2>2. CASE Dispatch
      BY <2>2 DEF Dispatch, Enter, Exit, Typed, Phases
    <2>3. CASE CheckRunning
      BY <2>3 DEF CheckRunning, Enter, Typed, Phases
    <2>4. CASE BackupStarted
      BY <2>4 DEF BackupStarted, Enter, Exit, Typed, Phases
    <2>5. CASE RestoreStarted
      BY <2>5 DEF RestoreStarted, Enter, Exit, Typed, Phases
    <2>6. CASE Worked
      BY <2>6 DEF Worked, Enter, Exit, Typed, Phases
    <2>7. CASE Stopped
      BY <2>7 DEF Stopped, Enter, Exit, Typed, Phases
    <2> QED BY <2>1, <2>2, <2>3, <2>4, <2>5, <2>6, <2>7, Steps, ClientFrame, StartFrame, StopFrame, EnvironmentFrame
            DEF Main, vars, main
  <1>11. att' \in Ids /\ att' <= server'.id
    <2>1. att' = att \/ att' = server.id
      BY Steps, ClientFrame, StartFrame, MainFrame, EnvironmentFrame
         DEF StopSteps, tgctl_shutdown_kill, Attach, tgctl_shutdown, WaitStop, KillPid, KillWait, tgctl_status,
             data, vars
    <2>2. server.id <= server'.id
      BY <1>0, <1>1, Bounds, SMT DEF Aged, Typed
    <2>3. att <= server.id
      BY DEF Typed
    <2>4. server.id \in Nat /\ server'.id \in Nat /\ att \in Nat
      BY <1>0, <1>1, Bounds DEF Servers
    <2> QED BY <1>0, <2>1, <2>2, <2>3, <2>4, SMT
  <1> QED BY <1>1, <1>2, <1>4, <1>5, <1>6, <1>7, <1>8, <1>9, <1>10, <1>11 DEF Typed, VerdictTyped

(* The types of the module follow. *)
LEMMA TypedIs == Typed => TypeOK
  <1> SUFFICES ASSUME Typed PROVE TypeOK
    OBVIOUS
  <1>1. \A i \in 1 .. Len(log) : log[i] \in Records
    BY SMT DEF Typed
  <1> QED BY <1>1 DEF Typed, TypeOK, Servers, Records, Data, Phases, Ids, ServerStates, SessionStates

-----------------------------------------------------------------------------
(* The servers of backup create and restore                                *)

(* A server that was started before stays what it is. *)
LEMMA Ages ==
  ASSUME Typed, Aged, NEW n \in Ids, n <= boots
  PROVE  /\ server.id >= n => server'.id >= n
         /\ server'.id = n => /\ server.id = n
                              /\ Onward(Over) /\ Onward(Going) /\ Onward(Living)
                              /\ server.asked => server'.asked
  <1>1. n \in Nat /\ boots \in Nat /\ server.id \in Nat /\ server.id <= boots
    BY Bounds DEF Typed, Servers
  <1>2. CASE server'.id = boots' /\ boots' = boots + 1
    BY <1>1, <1>2, SMT
  <1>3. CASE ~(server'.id = boots' /\ boots' = boots + 1)
    BY <1>3 DEF Aged
  <1> QED BY <1>2, <1>3

(* So does what is known of the server that tgctl has launched. *)
LEMMA MineAges ==
  ASSUME Typed, Aged, mine' = mine
  PROVE  /\ server.id >= mine => server'.id >= mine'
         /\ Lived => Lived'
         /\ Gone => Gone'
  <1>1. mine \in Ids /\ mine <= boots
    BY DEF Typed
  <1> QED BY <1>1, Ages DEF Lived, Gone, Onward

(* Only backup create and restore. *)
LEMMA Others ==
  ASSUME [Next]_vars
  PROVE  cmd' = cmd /\ given' = given
  BY Steps, ClientFrame, StartFrame, StopFrame, MainFrame, EnvironmentFrame DEF vars, main

(* backup create and restore are not among the other commands.             *)
LEMMA OwnCmds ==
  ASSUME cmd \in Own
  PROVE  /\ cmd \notin {"start", "shutdown", "kill", "status", "usage", "config", "credentials"}
         /\ cmd \in DatastoreCmds /\ cmd \notin AltimeterCmds /\ cmd # "session_shutdown"
         /\ cmd = "backup_create" <=> cmd \notin RestoreCmds
  BY DEF Own, RestoreCmds, DatastoreCmds, AltimeterCmds

(* After every step backup create and restore know of their server what    *)
(* they should.                                                            *)
LEMMA MaintainedKept ==
  ASSUME Typed, Placed, Maintained, [Next]_vars
  PROVE  Maintained'
  <1> SUFFICES ASSUME cmd \in Own PROVE Maintained'
    BY Others DEF Maintained
  <1> USE DEF HandsOff, NothingLeft
  <1>0. cmd' = cmd /\ cmd' \in Own /\ Aged /\ Typed' /\ phase \in Phases
    BY Others, ServerMoves, TypedKept DEF Typed
  <1>1. CASE Environment \/ UNCHANGED vars
    <2>1. /\ UNCHANGED <<phase, rc, isRunning, begun, pc, verdict, mine, victims, restored, att>>
          /\ phase # "exit" \/ server' = server
      BY <1>1, EnvironmentFrame DEF vars, main, data, world
    <2> QED BY <1>0, <2>1, MineAges DEF Maintained, MayLeave
  <1>2. CASE Client
    <2>1. UNCHANGED <<phase, rc, isRunning, begun, mine, victims, server>> /\ phase = "working"
      BY <1>2, ClientFrame, ClientConcludes
    <2>2. restored' = restored \/ (cmd \in RestoreCmds /\ restored' = server.id)
      BY <1>2 DEF Client, Prompt, Open, Check, Connect, Handshake, Request, Reply, NoReply, Copy, ReplyEnd, Finish,
                  Close, data
    <2> QED BY <1>0, <2>1, <2>2 DEF Maintained, Lived
  <1>3. CASE StartSteps
    <2>1. UNCHANGED <<phase, rc, isRunning, begun, restored>>
      BY <1>3, StartFrame
    <2>2. phase = "starting"
      <3>1. pc \in StartPcs
        BY <1>3 DEF StartSteps, tgctl_start, StartCheck, Launch, WaitLock, WaitInfo, WaitPid,
                    WaitStatus, StartPcs
      <3> QED BY <1>0, <3>1, OwnCmds DEF Placed, StartPcs, ForcePcs, StopPcs, KillPcs, ClientPcs, Phases
    <2>3. ~begun /\ victims = {} /\ restored = 0 /\ victims' = {}
      BY <1>3, <2>2, StartFrame DEF Maintained
    <2>4. pc' \in {"wait_info", "wait_pid", "wait_status"} => server'.id >= mine'
      <3>1. mine \in Nat
        BY Bounds DEF Typed
      <3>2. server.id = mine => server.id >= mine
        BY <3>1, SMT
      <3> QED BY <1>3, <2>2, <3>2
              DEF Maintained, StartSteps, tgctl_start, StartCheck, Launch, WaitLock, WaitInfo, WaitPid,
                  WaitStatus, Goto, Return, world
    <2>5. pc' = "back" /\ verdict'.rc = "ok" => Lived'
      <3>1. CASE WaitStatus
        BY <2>2, <3>1, ReturnCodes DEF WaitStatus, Maintained, Lived, Living, world
      <3>2. CASE ~WaitStatus
        BY <1>3, <2>2, <3>2, ReturnCodes
           DEF StartSteps, tgctl_start, StartCheck, Launch, WaitLock, WaitInfo, WaitPid, Goto
      <3> QED BY <3>1, <3>2
    <2> QED BY <1>0, <2>1, <2>2, <2>3, <2>4, <2>5 DEF Maintained
  <1>4. CASE StopSteps
    <2>1. UNCHANGED <<phase, rc, isRunning, begun, mine, restored>>
      BY <1>4, StopFrame
    <2>2. /\ \/ phase = "stopping" /\ pc \in StopPcs
             \/ phase = "killing" /\ pc \in KillPcs
          /\ begun /\ Lived /\ Lived' /\ (Gone => Gone')
      <3>1. pc \in StopPcs \cup KillPcs \cup ForcePcs \cup {"status"}
        BY <1>4, StopGoes DEF ForcePcs
      <3>2. \/ phase = "stopping" /\ pc \in StopPcs
            \/ phase = "killing" /\ pc \in KillPcs
        BY <1>0, <3>1, OwnCmds DEF Placed, StartPcs, ClientPcs, StopPcs, KillPcs, ForcePcs, Phases
      <3> QED BY <1>0, <2>1, <3>2, MineAges DEF Maintained
    <2>3. mine \in Nat /\ server.id \in Nat /\ att \in Nat /\ att <= server.id /\ server.id >= mine
      BY <2>2, Bounds DEF Typed, Servers, Lived
    <2>4. CASE tgctl_shutdown_kill
      <3>1. server' = server /\ victims' = victims /\ pc' # "request_stop"
        BY <2>4 DEF tgctl_shutdown_kill, Goto, Return, world
      <3>2. pc' \in {"wait_stop", "back"} => Gone'
        BY <1>0, <2>1, <2>2, <2>4, <3>1, OwnCmds
           DEF tgctl_shutdown_kill, Goto, Lived, Gone, Living, Going, Over
      <3>3. phase = "killing" => Gone'
        BY <2>2 DEF Maintained
      <3> QED BY <1>0, <2>1, <2>2, <3>1, <3>2, <3>3 DEF Maintained
    <2>5. CASE Attach
      <3>1. server' = server /\ victims' = victims /\ phase = "stopping"
        BY <2>2, <2>5 DEF Attach, world, KillPcs
      <3>2. pc' = "request_stop" => att' >= mine'
        BY <2>1, <2>3, <2>5, Ends DEF Attach, Return, Goto
      <3>3. pc' \in {"wait_stop", "back"} => Gone'
        BY <2>1, <2>2, <2>5, <3>1 DEF Attach, Known, Goto, Lived, Gone, Living, Going, Over
      <3> QED BY <1>0, <2>1, <2>2, <3>1, <3>2, <3>3 DEF Maintained
    <2>6. CASE tgctl_shutdown
      <3>1. phase = "stopping" /\ pc' # "request_stop" /\ cmd # "shutdown"
        BY <2>2, <2>6, OwnCmds DEF tgctl_shutdown, Goto, Return, KillPcs
      <3>2. att >= mine
        BY <2>6, <3>1 DEF tgctl_shutdown, Maintained
      <3>3. server.id = mine => att = mine
        BY <2>3, <3>2, SMT
      <3>4. victims' = victims \/ victims' = victims \cup {att}
        BY <2>6 DEF tgctl_shutdown
      <3>5. Gone'
        <4>1. CASE server' = server /\ server.asked
          BY <2>1, <4>1 DEF Gone
        <4>2. CASE server' = [server EXCEPT !.asked = TRUE]
          <5>1. server'.asked = TRUE
            BY <4>2 DEF Typed, Servers
          <5> QED BY <5>1 DEF Gone
        <4>3. CASE server' = server /\ server.id # att
          BY <2>1, <3>3, <4>3 DEF Gone
        <4> QED BY <2>6, <3>1, <4>1, <4>2, <4>3 DEF tgctl_shutdown
      <3> QED BY <1>0, <2>1, <2>2, <3>1, <3>2, <3>4, <3>5 DEF Maintained
    <2>7. CASE WaitStop
      <3>1. server' = server /\ victims' = victims /\ pc' # "request_stop" /\ phase = "stopping"
        BY <2>2, <2>7 DEF WaitStop, Goto, Return, world, KillPcs
      <3>2. Gone'
        BY <2>2, <2>7, <3>1 DEF WaitStop, Maintained
      <3> QED BY <1>0, <2>1, <2>2, <3>1, <3>2 DEF Maintained
    <2>8. CASE KillPid \/ KillWait
      <3>1. phase = "killing"
        BY <2>2, <2>8 DEF KillPid, KillWait, StopPcs
      <3>2. Gone'
        BY <2>2, <3>1 DEF Maintained
      <3>3. victims' = victims \/ victims' = victims \cup {server.id}
        BY <2>8 DEF KillPid, KillWait
      <3> QED BY <1>0, <2>1, <2>2, <2>3, <3>1, <3>2, <3>3 DEF Maintained
    <2>9. ~tgctl_status
      BY <2>2 DEF tgctl_status, StopPcs, KillPcs
    <2> QED BY <1>4, <2>4, <2>5, <2>6, <2>7, <2>8, <2>9 DEF StopSteps
  <1>5. CASE Main
    <2>1. UNCHANGED <<mine, victims, server, restored>>
      BY <1>5, MainFrame
    <2>2. CASE Dispatch
      BY <1>0, <2>1, <2>2, OwnCmds DEF Dispatch, Enter, Exit, Goto, Maintained, MayLeave
    <2>3. CASE CheckRunning
      BY <1>0, <2>1, <2>3, OwnCmds DEF CheckRunning, Enter, Goto, Maintained, Placed
    <2>4. CASE BackupStarted
      BY <1>0, <2>1, <2>4, OwnCmds DEF BackupStarted, Enter, Exit, Goto, Maintained, MayLeave, Lived, Typed
    <2>5. CASE RestoreStarted
      BY <1>0, <2>1, <2>5, OwnCmds DEF RestoreStarted, Enter, Exit, Goto, Maintained, MayLeave, Lived
    <2>6. CASE Worked
      BY <1>0, <2>1, <2>6, OwnCmds DEF Worked, Enter, Exit, Goto, Maintained, MayLeave, Lived
    <2>7. CASE Stopped
      BY <1>0, <2>1, <2>7, OwnCmds DEF Stopped, Enter, Exit, Goto, Maintained, MayLeave, Lived, Gone, Going, Over
    <2> QED BY <1>5, <2>2, <2>3, <2>4, <2>5, <2>6, <2>7 DEF Main
  <1> QED BY <1>1, <1>2, <1>3, <1>4, <1>5, Steps

-----------------------------------------------------------------------------
(* The files of a backup                                                   *)

(* The server of the session that answers in the next state answers now. *)
LEMMA AnswersNow ==
  ASSUME Typed, Aged, sess' = sess, server.id = sess.with => server.state \in Living
  PROVE  /\ server'.id = sess.with => server'.state \in Living
         /\ Answers' => Answers
  <1>1. sess.with \in Ids /\ sess.with <= boots
    BY DEF Typed
  <1> QED BY <1>1, Ages DEF Answers, Onward, Living, Going, Over

(* All files are copied while the server holds still. *)
LEMMA CoveredBy ==
  ASSUME Typed, Len(copied) = Files, \A i \in 1 .. Len(copied) : copied[i] = TRUE
  PROVE  copied = [i \in 1 .. Files |-> TRUE]
  BY SMT DEF Typed

(* A file is copied while the server of the session answers. *)
LEMMA CopiesOne ==
  ASSUME Typed, NEW b \in BOOLEAN, b = TRUE, copied' = Append(copied, b),
         \A i \in 1 .. Len(copied) : copied[i] = TRUE
  PROVE  \A i \in 1 .. Len(copied') : copied'[i] = TRUE
  BY SMT DEF Typed

(* What the commands that wait for a reply find. *)
LEMMA BackupCommand ==
  ASSUME cmd = "backup_create"
  PROVE  /\ cmd \in Own /\ cmd \notin RestoreCmds /\ cmd \notin SessionCmds \cup RequestCmds
         /\ Checks = {} /\ Preparing = {} /\ cmd \in DatastoreCmds
  BY DEF Own, RestoreCmds, SessionCmds, RequestCmds, Checks, Preparing, DatastoreCmds

(* After every step what is copied was copied while the server held still. *)
LEMMA BackedKept ==
  ASSUME Typed, Placed, Backed, [Next]_vars
  PROVE  Backed'
  <1> SUFFICES ASSUME cmd = "backup_create" PROVE Backed'
    BY Others DEF Backed
  <1>0. cmd' = cmd /\ Aged /\ Typed' /\ phase \in Phases
    BY Others, ServerMoves, TypedKept DEF Typed
  <1>1. CASE Environment \/ UNCHANGED vars
    <2>1. UNCHANGED <<phase, rc, pc, verdict, sess, copied, holding>>
      BY <1>1, EnvironmentFrame DEF vars, main, data
    <2> QED BY <1>0, <2>1, AnswersNow DEF Backed, Covered
  <1>2. CASE StartSteps
    <2>1. UNCHANGED <<phase, rc, copied, holding>>
      BY <1>2, StartFrame
    <2>2. phase = "starting"
      <3>1. pc \in StartPcs
        BY <1>2 DEF StartSteps, tgctl_start, StartCheck, Launch, WaitLock, WaitInfo, WaitPid,
                    WaitStatus, StartPcs
      <3> QED BY <1>0, <3>1 DEF Placed, StartPcs, StopPcs, KillPcs, ClientPcs, Phases
    <2> QED BY <1>0, <2>1, <2>2 DEF Backed, Covered
  <1>3. CASE StopSteps
    <2>1. UNCHANGED <<phase, rc, copied, holding>>
      BY <1>3, StopFrame
    <2>2. phase \in {"stopping", "killing"}
      <3>1. pc \in StopPcs \cup KillPcs \cup ForcePcs \cup {"status"}
        BY <1>3, StopGoes DEF ForcePcs
      <3> QED BY <1>0, <3>1 DEF Placed, StartPcs, StopPcs, KillPcs, ForcePcs, ClientPcs, Phases
    <2> QED BY <1>0, <2>1, <2>2 DEF Backed, Covered
  <1>4. CASE Main
    <2>1. UNCHANGED <<copied, holding>>
      BY <1>4, MainFrame
    <2>2. CASE Dispatch
      BY <1>0, <2>1, <2>2, BackupCommand DEF Dispatch, Enter, Exit, Goto, Backed, Covered
    <2>3. CASE CheckRunning
      BY <1>0, <2>1, <2>3 DEF CheckRunning, Enter, Goto, Backed, Covered
    <2>4. CASE BackupStarted
      BY <1>0, <2>1, <2>4 DEF BackupStarted, Enter, Exit, Goto, Backed, Covered
    <2>5. CASE Worked
      BY <1>0, <2>1, <2>5 DEF Worked, Enter, Exit, Goto, Backed, Covered
    <2>6. CASE Stopped
      BY <1>0, <2>1, <2>6 DEF Stopped, Enter, Exit, Goto, Backed, Covered
    <2> QED BY <1>4, <2>2, <2>3, <2>4, <2>5, <2>6, BackupCommand DEF Main, RestoreStarted
  <1>5. CASE Client
    <2>0. /\ UNCHANGED <<phase, rc, server>> /\ phase = "working" /\ cmd \in Asking /\ rc # "ok"
      BY <1>5, ClientFrame, ClientConcludes DEF Backed
    <2>1. ASSUME NEW out \in Outs, Conclude(out), out # "success" PROVE Backed'
      <3>1. verdict'.rc # "ok" /\ pc' \in {"close", "finish"}
        BY <2>0, <2>1, Concludes DEF Rules
      <3> QED BY <1>0, <2>0, <3>1 DEF Backed
    <2>2. CASE Open \/ Check \/ Connect \/ Handshake \/ Request
      <3>1. copied' = copied /\ copied = << >>
        BY <2>0, <2>2 DEF Open, Check, Connect, Handshake, Request, data, Backed
      <3>2. pc' \in {"check", "connect", "queued", "request", "reply"}
            \/ \E out \in Outs : Conclude(out) /\ out # "success"
        BY <2>2, BackupCommand DEF Open, Check, Connect, Handshake, Request, Goto, Outs, Usual
      <3> QED BY <1>0, <2>0, <2>1, <3>1, <3>2 DEF Backed
    <2>3. CASE Reply
      <3>1. CASE pc' = "copy"
        <4>1. holding' = server.id /\ sess' = sess /\ copied' = copied /\ copied = << >> /\ Answers
          BY <2>0, <2>3, <3>1 DEF Reply, Conclude, Goto, Backed
        <4>2. \A i \in 1 .. Len(copied') : copied'[i] = TRUE
          BY <4>1, SMT
        <4> QED BY <1>0, <2>0, <3>1, <4>1, <4>2 DEF Backed, Answers, Living, Going
      <3>2. CASE pc' # "copy"
        BY <2>1, <2>3, <3>2 DEF Reply, Goto, Outs
      <3> QED BY <3>1, <3>2
    <2>4. CASE NoReply
      BY <2>1, <2>4 DEF NoReply, Outs, Usual
    <2>5. CASE Copy
      <3>1. sess' = sess /\ holding' = holding /\ holding = sess.with /\ (Answers' <=> Answers)
        BY <2>0, <2>5 DEF Copy, Backed, Answers
      <3>2. CASE pc' = "copy"
        <4>1. PICK b \in BOOLEAN : copied' = Append(copied, b) /\ (b <=> Answers /\ holding = server.id)
          BY <2>5, <3>2 DEF Copy, Conclude, Goto
        <4>2. Answers => b = TRUE
          BY <3>1, <4>1 DEF Answers
        <4>3. Answers => \A i \in 1 .. Len(copied') : copied'[i] = TRUE
          BY <2>0, <2>5, <4>1, <4>2, CopiesOne DEF Backed, Copy
        <4> QED BY <1>0, <2>0, <2>5, <3>1, <3>2, <4>3 DEF Backed, Copy
      <3>3. CASE pc' = "reply_end"
        BY <1>0, <2>0, <2>5, <3>1, <3>3 DEF Backed, Copy, Conclude, Goto
      <3>4. CASE pc' \notin {"copy", "reply_end"}
        BY <2>1, <2>5, <3>4 DEF Copy, Goto, Outs, Usual
      <3> QED BY <3>2, <3>3, <3>4
    <2>6. CASE ReplyEnd
      <3>1. PICK out \in Replies : Conclude(out) /\ holding' = IF out = "success" THEN 0 ELSE holding
        BY <2>6 DEF ReplyEnd
      <3>2. CASE out = "success"
        <4>1. copied' = copied /\ copied = [i \in 1 .. Files |-> TRUE] /\ holding' = 0
          BY <2>0, <2>6, <3>1, <3>2, CoveredBy DEF ReplyEnd, Backed
        <4>2. pc' \in {"close", "finish"}
          BY <3>1 DEF Conclude, Goto
        <4> QED BY <1>0, <2>0, <4>1, <4>2 DEF Backed, Covered
      <3> QED BY <2>1, <3>1, <3>2 DEF Outs
    <2>7. CASE Finish \/ Close
      <3>1. pc \in Ending /\ pc' \in Ending /\ UNCHANGED <<verdict, copied, holding>>
        BY <2>7 DEF Finish, Close, Goto, data, Ending
      <3> QED BY <1>0, <2>0, <3>1 DEF Backed, Covered, Ending
    <2> QED BY <1>5, <2>0, <2>2, <2>3, <2>4, <2>5, <2>6, <2>7, BackupCommand DEF Client, Prompt, Placed
  <1> QED BY <1>1, <1>2, <1>3, <1>4, <1>5, Steps

-----------------------------------------------------------------------------
(* The session                                                             *)

(* After every step the session is as far as the command is.               *)
LEMMA SessionedKept ==
  ASSUME Typed, Placed, Sessioned, [Next]_vars
  PROVE  Sessioned'
  <1>0. cmd' = cmd /\ phase \in Phases
    BY Others DEF Typed
  <1>p. cmd \in ProcessCmds => cmd \notin Asking /\ cmd \notin Own
    BY DEF ProcessCmds, Asking, Own, ClientCmds, SessionCmds, RequestCmds, MetricsCmds, AltimeterCmds,
           DatastoreCmds, RestoreCmds
  <1>1. CASE Environment \/ UNCHANGED vars
    <2>1. UNCHANGED <<phase, rc, pc, verdict, sess, victims>>
      BY <1>1, EnvironmentFrame DEF vars, main
    <2> QED BY <1>0, <2>1 DEF Sessioned
  <1>2. CASE StartSteps
    <2>1. UNCHANGED <<phase, rc, sess, victims>>
      BY <1>2, StartFrame
    <2>2. /\ pc \in StartPcs
          /\ pc' \in StartPcs \cup {"force_pid", "back"}
      BY <1>2 DEF StartSteps, tgctl_start, StartCheck, Launch, WaitLock, WaitInfo, WaitPid,
                  WaitStatus, StartPcs, Goto, Return
    <2>3. phase = "starting" \/ (phase = "working" /\ cmd = "start")
      BY <1>0, <2>2 DEF Placed, StartPcs, StopPcs, KillPcs, ClientPcs, Phases
    <2>4. sess.state = "none"
      BY <2>3 DEF Sessioned, ProcessCmds
    <2> QED BY <1>0, <2>1, <2>2, <2>3, <2>4 DEF Sessioned, StartPcs, Ending
  <1>3. CASE StopSteps
    <2>1. UNCHANGED <<phase, rc, sess>>
      BY <1>3, StopFrame
    <2>2. /\ pc \in StopPcs \cup KillPcs \cup ForcePcs \cup {"status"}
          /\ pc' \in StopPcs \cup KillPcs \cup ForcePcs \cup {"start_check", "back"}
      BY <1>3, StopGoes DEF ForcePcs
    <2>3. phase \in {"stopping", "killing"} \/ (phase = "working" /\ cmd \in ProcessCmds)
      BY <1>0, <2>2 DEF Placed, StartPcs, StopPcs, KillPcs, ForcePcs, ClientPcs, Phases, ProcessCmds
    <2>4. cmd \in ProcessCmds => sess.state = "none"
      BY DEF Sessioned
    <2> QED BY <1>0, <2>1, <2>2, <2>3, <2>4 DEF Sessioned, Ending, StopPcs, KillPcs, ForcePcs
  <1>4. CASE Main
    <2>1. UNCHANGED <<sess, victims>>
      BY <1>4, MainFrame
    <2>2. CASE Dispatch
      <3>1. pc' \in {"back", "start", "stop", "kill", "status", "open"}
        BY <1>0, <2>2 DEF Dispatch, Enter, Exit, Goto, Placed
      <3>2. phase' \in {"exit", "checked", "starting", "working"}
        BY <2>2 DEF Dispatch, Enter, Exit
      <3>3. phase' = "working" => pc' # "back"
        BY <2>2 DEF Dispatch, Enter, Exit, Goto
      <3> QED BY <1>0, <2>1, <2>2, <3>1, <3>2, <3>3 DEF Dispatch, Sessioned, Ending
    <2>3. CASE CheckRunning
      BY <1>0, <2>1, <2>3 DEF CheckRunning, Enter, Goto, Sessioned, Ending
    <2>4. CASE BackupStarted
      BY <1>0, <2>1, <2>4 DEF BackupStarted, Enter, Exit, Goto, Sessioned, Ending
    <2>5. CASE RestoreStarted
      BY <1>0, <2>1, <2>5 DEF RestoreStarted, Enter, Exit, Goto, Sessioned, Ending
    <2>6. CASE Worked
      <3>1. /\ phase = "working" /\ pc = "back" /\ phase' \in {"stopping", "exit"}
            /\ rc' = "ok" => verdict.rc = "ok"
        BY <2>6 DEF Worked, Enter, Exit
      <3>2. sess.state \in SessionStates \ {"queued", "open"}
        BY <3>1 DEF Sessioned, Typed, Ending
      <3> QED BY <1>0, <2>1, <3>1, <3>2 DEF Sessioned, SessionStates, Ending
    <2>7. CASE Stopped
      BY <1>0, <2>1, <2>7 DEF Stopped, Enter, Exit, Goto, Sessioned
    <2> QED BY <1>4, <2>2, <2>3, <2>4, <2>5, <2>6, <2>7 DEF Main
  <1>5. CASE Client
    <2>0. /\ UNCHANGED <<phase, rc, victims>> /\ phase = "working" /\ cmd \in Asking
          /\ cmd \notin ProcessCmds /\ victims = {}
      BY <1>5, <1>p, ClientFrame, ClientConcludes DEF Sessioned
    <2>1. ASSUME NEW out \in Outs, Conclude(out), sess'.state # "queued",
                 sess'.state = "abandoned" => out = "exception"
          PROVE  Sessioned'
      <3>1. /\ sess'.state = "abandoned" => verdict'.rc # "ok"
            /\ pc' = IF verdict'.rc = "ok" /\ cmd \notin DatastoreCmds THEN "finish" ELSE "close"
        BY <2>0, <2>1, Concludes DEF Rules
      <3> QED BY <1>0, <2>0, <2>1, <3>1 DEF Sessioned, Ending
    <2>2. ASSUME sess' = sess, sess.state \in {"none", "open"}, \E out \in Outs : Conclude(out) PROVE Sessioned'
      BY <2>1, <2>2
    <2>3. CASE Prompt
      BY <1>0, <2>0, <2>3 DEF Prompt, Return, Goto, Sessioned, Ending
    <2>4. CASE Open
      BY <1>0, <2>0, <2>4 DEF Open, Goto, Sessioned, Ending
    <2>5. CASE Check
      <3>1. sess' = sess /\ sess.state = "none" /\ "success" \in Outs
        BY <2>0, <2>5 DEF Check, Sessioned, Outs, Replies
      <3> QED BY <1>0, <2>0, <2>2, <2>5, <3>1 DEF Check, Goto, Sessioned, Ending, Outs
    <2>6. CASE Connect
      <3>1. sess.state = "none"
        BY <2>0, <2>6 DEF Connect, Sessioned
      <3>2. CASE sess' = sess /\ \E out \in Outs : Conclude(out)
        BY <2>2, <3>1, <3>2
      <3>3. CASE sess'.state = "queued" /\ pc' = "queued"
        BY <1>0, <2>0, <3>3 DEF Sessioned, Ending
      <3>4. ASSUME sess' = [state |-> "queued", with |-> server.id] PROVE sess'.state = "queued"
        BY <3>4
      <3> QED BY <2>6, <3>2, <3>3, <3>4 DEF Connect, Goto, Outs, Usual
    <2>7. CASE Handshake
      <3>1. sess \in [state : SessionStates, with : Ids]
        BY DEF Typed
      <3>2. /\ sess'.state \in {"open", "closed", "abandoned"}
            /\ \/ sess'.state = "open" /\ pc' = "request"
               \/ \E out \in Outs : Conclude(out) /\ (sess'.state = "abandoned" => out = "exception")
                                                  /\ sess'.state # "queued"
        BY <2>7, <3>1 DEF Handshake, Goto, Outs, Usual
      <3> QED BY <1>0, <2>0, <2>1, <3>2 DEF Sessioned, Ending
    <2>8. CASE Request \/ Reply \/ NoReply \/ Copy \/ ReplyEnd
      <3>1. sess' = sess /\ sess.state = "open"
        BY <2>0, <2>8 DEF Request, Reply, NoReply, Copy, ReplyEnd, Sessioned
      <3>2. \/ \E out \in Outs : Conclude(out)
            \/ pc' \in {"reply", "copy", "reply_end"}
        BY <2>8 DEF Request, Reply, NoReply, Copy, ReplyEnd, Goto, Outs, Usual
      <3> QED BY <1>0, <2>0, <2>2, <3>1, <3>2 DEF Sessioned, Ending
    <2>9. CASE Finish
      BY <1>0, <2>0, <2>9 DEF Finish, Goto, Sessioned, Ending
    <2>10. CASE Close
      <3>1. /\ sess'.state = (IF sess.state = "open" THEN "closed" ELSE sess.state) /\ verdict' = verdict
            /\ pc' \in {"back", "finish"}
        BY <2>10 DEF Close, Goto, Typed
      <3>2. sess.state # "queued" /\ (sess.state = "abandoned" => verdict.rc # "ok")
        BY <2>0, <2>10 DEF Close, Sessioned, Ending
      <3>3. /\ sess'.state \notin {"queued", "open"}
            /\ sess'.state = "abandoned" => verdict'.rc # "ok"
        BY <3>1, <3>2
      <3>4. phase' = "working" /\ cmd' \notin ProcessCmds /\ victims' = {}
        BY <1>0, <2>0
      <3> QED BY <3>1, <3>3, <3>4 DEF Sessioned, Ending
    <2> QED BY <1>5, <2>3, <2>4, <2>5, <2>6, <2>7, <2>8, <2>9, <2>10 DEF Client
  <1> QED BY <1>1, <1>2, <1>3, <1>4, <1>5, Steps

-----------------------------------------------------------------------------
(* What the monitor file holds                                             *)

(* One start, first, and nothing after the finish record. *)
Formed(q) ==
    \A i \in 1 .. Len(q) : (q[i] = "start" <=> i = 1) /\ (q[i] \notin Data => i = Len(q))

(* A file that is started. *)
LEMMA StartRecords ==
  /\ <<"start">> \in Seq(Records) /\ Unfinished(<<"start">>)
  /\ <<"start", "data">> \in Seq(Records) /\ Unfinished(<<"start", "data">>)
  <1>1. "start" \in Records /\ "data" \in Records /\ "start" \in Data /\ "data" \in Data
    BY DEF Records, Data
  <1> QED BY <1>1, SMT DEF Unfinished

(* What comes of an unfinished file. *)
LEMMA Shapes ==
  ASSUME NEW q \in Seq(Records), Unfinished(q)
  PROVE  /\ Formed(q) /\ q # << >> /\ q[Len(q)] \in Data
         /\ \A k \in {"data", "progress"} : Unfinished(Append(q, k))
         /\ \A r \in Records \ Data : LET p == Append(q, r)
                                      IN  Formed(p) /\ p # << >> /\ p[Len(p)] = r
  <1>0. Len(q) \in Nat /\ Len(q) > 0 /\ "start" \in Data
    BY SMT DEF Unfinished, Data
  <1>1. Formed(q) /\ q # << >> /\ q[Len(q)] \in Data
    BY <1>0, SMT DEF Unfinished, Formed
  <1>2. ASSUME NEW k \in {"data", "progress"} PROVE Unfinished(Append(q, k))
    <2>1. k \in Data /\ k # "start" /\ k \in Records
      BY <1>2 DEF Data, Records
    <2> QED BY <1>0, <2>1, SMT DEF Unfinished
  <1>3. ASSUME NEW r \in Records \ Data PROVE LET p == Append(q, r)
                                              IN  Formed(p) /\ p # << >> /\ p[Len(p)] = r
    <2>1. r # "start"
      BY <1>0, <1>3
    <2> QED BY <1>0, <1>3, <2>1, SMT DEF Unfinished, Formed
  <1> QED BY <1>1, <1>2, <1>3

(* The state predicates on the file, by its shape. *)
LEMMA ShapeIs ==
  /\ OneRecordSet <=> Formed(log)
  /\ Finished <=> log # << >> /\ log[Len(log)] \notin Data
  BY DEF OneRecordSet, Formed, Finished, LastRecord, Data

(* A file is left unfinished, after a step. *)
LEMMA LeftUnfinished ==
  ASSUME log' \in Seq(Records), Unfinished(log)'
  PROVE  OneRecordSet' /\ ~Finished'
  <1> DEFINE q == log'
  <1>1. q \in Seq(Records) /\ Unfinished(q)
    BY DEF Unfinished
  <1> HIDE DEF q
  <1>2. Formed(q) /\ q # << >> /\ q[Len(q)] \in Data
    BY <1>1, Shapes
  <1> QED BY <1>2 DEF q, OneRecordSet, Formed, Finished, LastRecord, Data

(* A function writes its finish record, if it has a reason: the file tells *)
(* what the function has ended with.                                       *)
LEMMA Tells ==
  ASSUME NEW q \in Seq(Records), Unfinished(q), NEW r \in Reasons, Monitored,
         log' = MonitorFinish(q, r), verdict'.reason = r
  PROVE  Told' /\ OneRecordSet'
  <1>1. CASE r = "none"
    <2>1. log' = q
      BY <1>1 DEF MonitorFinish
    <2>2. Unfinished(log)' /\ log' \in Seq(Records)
      BY <2>1 DEF Unfinished
    <2> QED BY <1>1, <2>2, LeftUnfinished DEF Told
  <1>2. CASE r # "none"
    <2> DEFINE x == IF r = "absent" THEN "success" ELSE r
               p == Append(q, x)
    <2>1. x \in Records \ Data
      BY DEF Records, Data, Reasons
    <2>2. log' = p
      BY <1>2 DEF MonitorFinish
    <2>3. Formed(p) /\ p # << >> /\ p[Len(p)] = x
      BY <2>1, Shapes
    <2> HIDE DEF p
    <2>4. OneRecordSet' /\ Finished' /\ LastRecord' = x
      BY <2>1, <2>2, <2>3 DEF OneRecordSet, Formed, Finished, LastRecord, Data
    <2> QED BY <1>2, <2>4 DEF Told
  <1> QED BY <1>1, <1>2

(* The records depend on the command alone: a step of the server or of     *)
(* another user leaves them.                                               *)
LEMMA RecordsAlone ==
  ASSUME Recorded, UNCHANGED <<cmd, given, monitor, phase, rc, log, pc, verdict, ended>>
  PROVE  Recorded'
  <1>1. /\ OneRecordSet' <=> OneRecordSet
        /\ Unfinished(log)' <=> Unfinished(log)
        /\ Finished' <=> Finished
        /\ LastRecord' = LastRecord
        /\ Monitored' <=> Monitored
        /\ SaysSuccess' <=> SaysSuccess
        /\ Excused' <=> Excused
    BY DEF OneRecordSet, Unfinished, Finished, LastRecord, Monitored, SaysSuccess, Excused
  <1>2. (Told' <=> Told) /\ (Success' <=> Success) /\ (Judged' <=> Judged) /\ (RecordTellsExit' <=> RecordTellsExit)
    BY <1>1 DEF Told, Success, Judged, RecordTellsExit
  <1> QED BY <1>1, <1>2, SMT DEF Recorded

(* What tgctl_start returns. *)
StartFailures == {"no_configuration", "start_mode", "running", "child_gone", "lost_race",
                  "timeout", "mismatch", "exited", "stopping"}

StartReturned ==
    /\ pc' = "back"
    /\ verdict'.rc \in {"ok", "err", "throw"} /\ verdict'.cause # "cancelled"
    /\ verdict'.rc = "ok" => verdict'.reason = "absent"
    /\ verdict'.rc = "throw" => verdict'.reason = "none"
    /\ verdict'.rc = "err" => verdict'.reason # "absent"

(* tgctl_start, of the command and of backup create and restore, leaves a  *)
(* file that tells what it returns.                                        *)
LEMMA StartRecorded ==
  ASSUME Typed, Placed, Maintained, Recorded, VerdictTyped', StartSteps
  PROVE  Recorded'
  <1>0. /\ UNCHANGED <<cmd, given, monitor, phase, rc, ended>> /\ pc \in StartPcs
        /\ pc' \in (StartPcs \ {"start"}) \cup {"force_pid", "back"}
    BY StartFrame DEF StartSteps, tgctl_start, StartCheck, Launch, WaitLock, WaitInfo, WaitPid,
                      WaitStatus, StartPcs, Goto, Return
  <1>1. (phase = "starting" /\ cmd \in Own) \/ (phase = "working" /\ cmd = "start")
    BY <1>0 DEF Typed, Placed, Phases, StartPcs, StopPcs, KillPcs, ClientPcs
  <1>2. cmd \notin {"credentials", "usage"} /\ (Monitored <=> monitor) /\ (Monitored' <=> Monitored)
    BY <1>0, <1>1 DEF Own, RestoreCmds, Monitored
  <1>3. (verdict' = verdict /\ pc' # "back") \/ StartReturned
    <2>0. ASSUME NEW k
          PROVE  /\ Return(k, Ok, "launched") => StartReturned
                 /\ \A c \in {"file_vanished", "no_executable"} : Return(k, Escape, c) => StartReturned
                 /\ \A r \in Reasons \ {"absent"}, c \in StartFailures : Return(k, Err(r), c) => StartReturned
                 /\ Return(k, [rc |-> "err", reason |-> "none"], "no_base_path") => StartReturned
      <3>1. ASSUME Return(k, Ok, "launched") PROVE StartReturned
        <4>1. pc' = "back" /\ verdict'.rc = "ok" /\ verdict'.reason = "absent" /\ verdict'.cause = "launched"
          BY <3>1, Returns, ReturnCodes
        <4> QED BY <4>1 DEF StartReturned
      <3>2. ASSUME NEW c \in {"file_vanished", "no_executable"}, Return(k, Escape, c) PROVE StartReturned
        BY <3>2, Returns, ReturnCodes DEF StartReturned
      <3>3. ASSUME NEW r \in Reasons \ {"absent"}, NEW c \in StartFailures, Return(k, Err(r), c)
            PROVE  StartReturned
        <4>1. c # "cancelled" /\ r # "absent"
          BY <3>3 DEF StartFailures
        <4>2. pc' = "back" /\ verdict'.rc = "err" /\ verdict'.reason = r /\ verdict'.cause = c
          BY <3>3, Returns, ReturnCodes
        <4> QED BY <4>1, <4>2 DEF StartReturned
      <3>4. ASSUME Return(k, [rc |-> "err", reason |-> "none"], "no_base_path") PROVE StartReturned
        <4>1. pc' = "back" /\ verdict'.rc = "err" /\ verdict'.reason = "none" /\ verdict'.cause = "no_base_path"
          BY <3>4, Returns, ReturnCodes
        <4> QED BY <4>1 DEF StartReturned
      <3> QED BY <3>1, <3>2, <3>3, <3>4
    <2>1. CASE tgctl_start
      BY <2>0, <2>1 DEF tgctl_start, Goto, Reasons, StartFailures
    <2>3. CASE StartCheck
      BY <2>0, <2>3 DEF StartCheck, Goto, Reasons, StartFailures
    <2>4. CASE Launch
      BY <2>0, <2>4 DEF Launch, Goto, Reasons, StartFailures
    <2>5. CASE WaitLock
      BY <2>0, <2>5 DEF WaitLock, Goto, Reasons, StartFailures
    <2>6. CASE WaitInfo \/ WaitPid
      BY <2>0, <2>6 DEF WaitInfo, WaitPid, Goto, Reasons, StartFailures
    <2>7. CASE WaitStatus
      BY <2>0, <2>7 DEF WaitStatus, Goto, Reasons, StartFailures
    <2> QED BY <2>1, <2>3, <2>4, <2>5, <2>6, <2>7 DEF StartSteps
  <1>4. \E q \in {log, MonitorStart} :
           /\ q = MonitorStart \/ pc # "start"
           /\ \/ pc' # "back" /\ log' = q
              \/ pc' = "back" /\ log' = MonitorFinish(q, verdict'.reason)
    <2>1. ASSUME NEW q, NEW v, NEW c, Return(q, v, c) PROVE pc' = "back" /\ log' = MonitorFinish(q, verdict'.reason)
      BY <2>1, Returns
    <2>2. CASE tgctl_start
      BY <2>1, <2>2 DEF tgctl_start, Goto
    <2>3. CASE StartCheck
      BY <2>1, <2>3 DEF StartCheck, Goto
    <2>4. CASE Launch \/ WaitLock
      BY <2>1, <2>4 DEF Launch, WaitLock, Goto
    <2>5. CASE WaitInfo \/ WaitPid \/ WaitStatus
      BY <2>1, <2>5 DEF WaitInfo, WaitPid, WaitStatus, Goto
    <2> QED BY <2>2, <2>3, <2>4, <2>5 DEF StartSteps
  <1>5. PICK q \in {log, MonitorStart} :
           /\ q = MonitorStart \/ pc # "start"
           /\ \/ pc' # "back" /\ log' = q
              \/ pc' = "back" /\ log' = MonitorFinish(q, verdict'.reason)
    BY <1>4
  <1>6. CASE Monitored
    <2>1. q \in Seq(Records) /\ Unfinished(q)
      <3>1. CASE q = MonitorStart
        BY <1>6, <3>1, StartRecords DEF MonitorStart
      <3>2. CASE q = log /\ pc # "start"
        <4>1. pc \in Writing
          BY <1>0, <3>2 DEF StartPcs, Writing
        <4> QED BY <1>2, <1>6, <3>2, <4>1 DEF Recorded, Typed
      <3> QED BY <1>5, <3>1, <3>2
    <2>2. CASE pc' = "back"
      <3>1. Told' /\ OneRecordSet'
        BY <1>5, <1>6, <2>1, <2>2, Tells DEF VerdictTyped
      <3> QED BY <1>0, <1>1, <1>2, <1>3, <1>6, <2>2, <3>1
              DEF Recorded, Maintained, Own, Writing, Judged, RecordTellsExit, RestoreCmds, StartReturned
    <2>3. CASE pc' # "back"
      <3>1. Unfinished(log)'
        BY <1>5, <2>1, <2>3 DEF Unfinished
      <3>2. OneRecordSet'
        BY <3>1, LeftUnfinished DEF VerdictTyped
      <3>3. pc' \notin Ending
        BY <1>0, <2>3 DEF Ending, StartPcs
      <3> QED BY <1>0, <1>1, <1>2, <1>6, <2>3, <3>1, <3>2, <3>3
              DEF Recorded, Maintained, Own, Ending, RecordTellsExit, RestoreCmds
    <2> QED BY <2>2, <2>3
  <1>7. CASE ~Monitored
    <2>1. log' = log
      BY <1>5, <1>7 DEF MonitorStart, MonitorFinish
    <2>2. OneRecordSet'
      BY <2>1 DEF Recorded, OneRecordSet
    <2>3. pc' \in Ending => pc' = "back"
      BY <1>0 DEF Ending, StartPcs
    <2> QED BY <1>0, <1>1, <1>2, <1>3, <1>7, <2>1, <2>2, <2>3
            DEF Recorded, Maintained, Own, Judged, Ending, RecordTellsExit, RestoreCmds, StartReturned
  <1> QED BY <1>6, <1>7

(* What the functions that stop a server, and tgctl_status, return: a stop *)
(* that takes too long or is not possible is a failure that sets no        *)
(* reason.                                                                 *)
StopReturned ==
    /\ pc' = "back"
    /\ verdict'.rc \in {"ok", "err", "throw"} /\ verdict'.cause # "cancelled"
    /\ verdict'.rc = "ok" => verdict'.reason = "absent"
    /\ verdict'.rc = "throw" =>
        /\ verdict'.reason = "none"
        /\ pc \in ForcePcs \/ (pc = "kill_pid" /\ verdict'.cause = "file_vanished")
    /\ verdict'.rc = "err" /\ verdict'.reason = "absent" =>
        \/ verdict'.cause = "both_options" /\ cmd = "shutdown"
        \/ verdict'.cause = "outrun" /\ pc = "request_stop"
        \/ verdict'.cause = "no_pid" /\ pc = "kill_pid"
        \/ verdict'.cause \in {"timeout", "quiet"} /\ pc \in StopPcs \cup KillPcs

(* By what a function returns. *)
LEMMA StopReturns ==
  ASSUME NEW k
  PROVE  /\ \A c \in {"not_running", "stopped", "killed", "success"} : Return(k, Ok, c) => StopReturned
         /\ Return(k, Escape, "file_vanished") /\ pc \in {"kill_pid", "force_pid"} => StopReturned
         /\ Return(k, Escape, "exception") /\ pc \in ForcePcs => StopReturned
         /\ \A r \in Reasons \ {"absent"} : \A c : c # "cancelled" /\ Return(k, Err(r), c) => StopReturned
         /\ Return(k, Err("absent"), "both_options") /\ cmd = "shutdown" => StopReturned
         /\ Return(k, Err("absent"), "outrun") /\ pc = "request_stop" => StopReturned
         /\ Return(k, Err("absent"), "no_pid") /\ pc = "kill_pid" => StopReturned
         /\ \A c \in {"timeout", "quiet"} :
               Return(k, Err("absent"), c) /\ pc \in StopPcs \cup KillPcs => StopReturned
  <1>1. ASSUME NEW c \in {"not_running", "stopped", "killed", "success"}, Return(k, Ok, c) PROVE StopReturned
    <2>1. pc' = "back" /\ verdict'.rc = "ok" /\ verdict'.reason = "absent" /\ verdict'.cause = c /\ c # "cancelled"
      BY <1>1, Returns, ReturnCodes
    <2> QED BY ONLY <2>1, SMT DEF StopReturned
  <1>2. ASSUME Return(k, Escape, "file_vanished"), pc \in {"kill_pid", "force_pid"} PROVE StopReturned
    <2>1. pc' = "back" /\ verdict'.rc = "throw" /\ verdict'.reason = "none" /\ verdict'.cause = "file_vanished"
      BY <1>2, Returns, ReturnCodes
    <2> QED BY ONLY <1>2, <2>1, SMT DEF StopReturned, ForcePcs
  <1>3. ASSUME Return(k, Escape, "exception"), pc \in ForcePcs PROVE StopReturned
    <2>1. pc' = "back" /\ verdict'.rc = "throw" /\ verdict'.reason = "none" /\ verdict'.cause = "exception"
      BY <1>3, Returns, ReturnCodes
    <2> QED BY ONLY <1>3, <2>1, SMT DEF StopReturned
  <1>4. ASSUME NEW r \in Reasons \ {"absent"}, NEW c, c # "cancelled", Return(k, Err(r), c)
        PROVE  StopReturned
    <2>1. pc' = "back" /\ verdict'.rc = "err" /\ verdict'.reason = r /\ verdict'.cause = c
      BY <1>4, Returns, ReturnCodes
    <2>2. r # "absent" /\ c # "cancelled"
      BY <1>4
    <2> QED BY ONLY <2>1, <2>2, SMT DEF StopReturned
  <1>5. ASSUME Return(k, Err("absent"), "both_options"), cmd = "shutdown" PROVE StopReturned
    <2>1. pc' = "back" /\ verdict'.rc = "err" /\ verdict'.cause = "both_options"
      BY <1>5, Returns, ReturnCodes
    <2> QED BY ONLY <1>5, <2>1, SMT DEF StopReturned
  <1>6. ASSUME Return(k, Err("absent"), "outrun"), pc = "request_stop" PROVE StopReturned
    <2>1. pc' = "back" /\ verdict'.rc = "err" /\ verdict'.cause = "outrun"
      BY <1>6, Returns, ReturnCodes
    <2> QED BY ONLY <1>6, <2>1, SMT DEF StopReturned
  <1>7. ASSUME Return(k, Err("absent"), "no_pid"), pc = "kill_pid" PROVE StopReturned
    <2>1. pc' = "back" /\ verdict'.rc = "err" /\ verdict'.cause = "no_pid"
      BY <1>7, Returns, ReturnCodes
    <2> QED BY ONLY <1>7, <2>1, SMT DEF StopReturned
  <1>8. ASSUME NEW c \in {"timeout", "quiet"}, Return(k, Err("absent"), c), pc \in StopPcs \cup KillPcs
        PROVE  StopReturned
    <2>1. pc' = "back" /\ verdict'.rc = "err" /\ verdict'.cause = c
      BY <1>8, Returns, ReturnCodes
    <2> QED BY ONLY <1>8, <2>1, SMT DEF StopReturned
  <1> QED BY <1>1, <1>2, <1>3, <1>4, <1>5, <1>6, <1>7, <1>8

(* And by what a call that throws or fails makes of it. *)
LEMMA StopEnds ==
  ASSUME NEW r \in Reasons \ {"absent"}
  PROVE  /\ pc \in StopPcs \cup KillPcs \cup ForcePcs /\ Throws(r) => StopReturned
         /\ pc \in {"kill_pid", "force_pid"} /\ KillFails("no_pid") => StopReturned
         /\ pc \in {"kill_wait", "force_wait"} /\ KillFails("timeout") => StopReturned
  <1>0. "initialization" \in Reasons \ {"absent"}
    BY DEF Reasons
  <1>1. ASSUME pc \in StopPcs \cup KillPcs \cup ForcePcs, Throws(r) PROVE StopReturned
    <2>1. CASE pc \in ForcePcs
      BY <1>1, <2>1, StopReturns DEF Throws, ForcePcs
    <2>2. CASE pc \notin ForcePcs
      <3>1. PICK x \in {r, "absent"} : Return(log, Err(x), IF x = "absent" THEN "quiet" ELSE "exception")
        BY <1>1, <2>2 DEF Throws, ForcePcs
      <3>2. CASE x = "absent"
        <4>1. Return(log, Err("absent"), "quiet")
          BY <3>1, <3>2
        <4> QED BY <1>1, <2>2, <4>1, StopReturns
      <3>3. CASE x # "absent"
        <4>1. Return(log, Err(r), "exception")
          BY <3>1, <3>3
        <4> QED BY <4>1, StopReturns
      <3> QED BY <3>2, <3>3
    <2> QED BY <2>1, <2>2
  <1>2. ASSUME pc \in {"kill_pid", "force_pid"}, KillFails("no_pid") PROVE StopReturned
    BY <1>0, <1>2, StopReturns DEF KillFails
  <1>3. ASSUME pc \in {"kill_wait", "force_wait"}, KillFails("timeout") PROVE StopReturned
    BY <1>0, <1>3, StopReturns DEF KillFails, KillPcs
  <1> QED BY <1>1, <1>2, <1>3

(* The functions that stop a server, and tgctl_status, leave a file that   *)
(* tells what they return, unless they are part of another command.        *)
LEMMA StopRecorded ==
  ASSUME Typed, Placed, Recorded, VerdictTyped', StopSteps
  PROVE  Recorded'
  <1>0. /\ UNCHANGED <<cmd, given, monitor, phase, rc, ended>>
        /\ pc \in StopPcs \cup KillPcs \cup ForcePcs \cup {"status"}
        /\ pc' \in StopPcs \cup KillPcs \cup ForcePcs \cup {"start_check", "back"}
        /\ pc' \notin {"stop", "kill"}
    BY StopFrame, StopGoes, StopLeaves DEF ForcePcs
  <1>1. \/ phase = "stopping" /\ cmd \in Own /\ pc \in StopPcs
        \/ phase = "killing" /\ cmd = "backup_create" /\ pc \in KillPcs
        \/ /\ phase = "working" /\ cmd \in {"start", "shutdown", "kill", "status"}
           /\ cmd = "shutdown" <=> pc \in StopPcs
           /\ cmd = "kill" <=> pc \in KillPcs
           /\ cmd = "start" <=> pc \in ForcePcs
    BY <1>0 DEF Typed, Placed, Phases, StartPcs, StopPcs, KillPcs, ForcePcs, ClientPcs
  <1>2. cmd \notin {"credentials", "usage"} /\ (Monitored' <=> Monitored) /\ (Monitored => phase = "working" /\ monitor)
    BY <1>0, <1>1 DEF Own, RestoreCmds, Monitored, Recorded
  <1>3. (verdict' = verdict /\ pc' # "back") \/ StopReturned
    <2>0. {"initialization", "not_found", "invalid_status", "ambiguous", "timeout"} \subseteq Reasons \ {"absent"}
      BY DEF Reasons
    <2>1. CASE tgctl_shutdown_kill
      BY <2>0, <2>1, StopReturns DEF tgctl_shutdown_kill, Goto
    <2>2. CASE Attach
      BY <1>0, <2>0, <2>2, StopReturns, StopEnds DEF Attach, Goto, StopPcs
    <2>3. CASE tgctl_shutdown
      BY <2>3, StopReturns DEF tgctl_shutdown, Goto
    <2>4. CASE WaitStop
      BY <2>4, StopReturns DEF WaitStop, StopPcs
    <2>5. CASE KillPid
      BY <2>0, <2>5, StopReturns, StopEnds DEF KillPid, Goto, KillPcs, ForcePcs
    <2>6. CASE KillWait
      BY <2>0, <2>6, StopReturns, StopEnds DEF KillWait, Goto, KillPcs, ForcePcs
    <2>7. CASE tgctl_status
      BY <2>0, <2>7, StopReturns DEF tgctl_status
    <2> QED BY <2>1, <2>2, <2>3, <2>4, <2>5, <2>6, <2>7 DEF StopSteps
  <1>4. \E q :
           /\ Monitored => q \in Seq(Records) /\ Unfinished(q)
           /\ ~Monitored => q = log
           /\ \/ pc' # "back" /\ log' = q
              \/ pc' = "back" /\ log' = MonitorFinish(q, verdict'.reason)
    <2>1. ASSUME NEW q, NEW v, NEW c, Return(q, v, c) PROVE pc' = "back" /\ log' = MonitorFinish(q, verdict'.reason)
      BY <2>1, Returns
    <2>2. /\ Monitored => MonitorStart \in Seq(Records) /\ Unfinished(MonitorStart)
          /\ ~Monitored => MonitorStart = log
      BY StartRecords DEF MonitorStart
    <2>3. CASE tgctl_shutdown_kill
      BY <2>1, <2>2, <2>3 DEF tgctl_shutdown_kill, Goto
    <2>4. ASSUME pc \in Writing PROVE Monitored => log \in Seq(Records) /\ Unfinished(log)
      BY <1>2, <2>4 DEF Recorded, Typed
    <2>5. ASSUME NEW x, Throws(x) \/ KillFails(x)
          PROVE  pc' = "back" /\ log' = MonitorFinish(log, verdict'.reason)
      BY <2>1, <2>5, Ends
    <2>7. CASE Attach
      BY <2>1, <2>4, <2>5, <2>7 DEF Attach, Goto, Writing
    <2>8. CASE tgctl_shutdown \/ WaitStop
      BY <2>1, <2>4, <2>8 DEF tgctl_shutdown, WaitStop, Goto, Writing
    <2>9. CASE KillPid
      BY <2>1, <2>4, <2>5, <2>9 DEF KillPid, Goto, Writing
    <2>10. CASE KillWait
      BY <2>1, <2>4, <2>5, <2>10 DEF KillWait, Goto, Writing
    <2>6. CASE tgctl_status
      <3> DEFINE d == IF Monitored THEN <<"start", "data">> ELSE log
      <3>1. /\ Monitored => d \in Seq(Records) /\ Unfinished(d)
            /\ ~Monitored => d = log
        BY StartRecords
      <3> QED BY <2>1, <2>2, <2>6, <3>1 DEF tgctl_status
    <2> QED BY <2>3, <2>6, <2>7, <2>8, <2>9, <2>10 DEF StopSteps
  <1>5. PICK q :
           /\ Monitored => q \in Seq(Records) /\ Unfinished(q)
           /\ ~Monitored => q = log
           /\ \/ pc' # "back" /\ log' = q
              \/ pc' = "back" /\ log' = MonitorFinish(q, verdict'.reason)
    BY <1>4
  <1>6. CASE Monitored
    <2>1. q \in Seq(Records) /\ Unfinished(q) /\ phase = "working" /\ cmd \in {"start", "shutdown", "kill", "status"}
      BY <1>1, <1>2, <1>5, <1>6
    <2>2. CASE pc' = "back"
      <3>1. Told' /\ OneRecordSet'
        BY <1>5, <1>6, <2>1, <2>2, Tells DEF VerdictTyped
      <3>2. Judged'
        BY <1>0, <1>1, <1>3, <2>1, <2>2 DEF Judged, StopReturned, Excused, StopPcs, KillPcs
      <3> QED BY <1>0, <1>2, <1>3, <1>6, <2>1, <2>2, <3>1, <3>2
              DEF Recorded, Writing, Ending, RecordTellsExit, RestoreCmds, StopReturned
    <2>3. CASE pc' # "back"
      <3>1. Unfinished(log)'
        BY <1>5, <2>1, <2>3 DEF Unfinished
      <3>2. OneRecordSet'
        BY <3>1, LeftUnfinished DEF VerdictTyped
      <3>3. pc' \notin Ending
        BY <1>0, <2>3 DEF Ending, StopPcs, KillPcs, ForcePcs
      <3> QED BY <1>0, <1>2, <1>6, <2>1, <2>3, <3>1, <3>2, <3>3
              DEF Recorded, Ending, RecordTellsExit, RestoreCmds
    <2> QED BY <2>2, <2>3
  <1>7. CASE ~Monitored
    <2>1. log' = log
      BY <1>5, <1>7 DEF MonitorFinish
    <2>2. OneRecordSet' /\ (Success' <=> Success)
      BY <2>1 DEF Recorded, OneRecordSet, Success, Finished, LastRecord
    <2>3. pc' \in Ending => pc' = "back"
      BY <1>0 DEF Ending, StopPcs, KillPcs, ForcePcs
    <2>4. phase = "working" /\ pc' = "back" => Judged'
      BY <1>0, <1>1, <1>3 DEF Judged, StopReturned, Excused, StopPcs, KillPcs, Own, RestoreCmds
    <2> QED BY <1>0, <1>1, <1>2, <1>3, <1>7, <2>1, <2>2, <2>3, <2>4
            DEF Recorded, Own, Ending, RecordTellsExit, RestoreCmds, StopReturned, StopPcs, KillPcs, ForcePcs
  <1> QED BY <1>6, <1>7

(* tgctl_main calls a function: nothing of it is written yet. *)
Entries == {"start", "stop", "kill", "status", "open", "prompt"}

(* Then the file is as it was, and nothing more is asked of it.            *)
LEMMA Entered ==
  ASSUME Recorded, UNCHANGED <<cmd, log>>, pc' \in Entries, phase' # "exit",
         cmd # "backup_create" => monitor' = given',
         cmd = "backup_create" /\ phase' \in {"dispatch", "checked", "working"} => monitor' = given',
         cmd = "backup_create" /\ phase' \in {"starting", "stopping", "killing"} => ~monitor',
         cmd = "backup_create" /\ phase' \in {"dispatch", "checked", "starting"} => log = << >>,
         phase' \in {"stopping", "killing"} /\ given' =>
            (rc' = "ok" => Success) /\ (rc' = "err" /\ Success => cmd \in RestoreCmds /\ ended' \in Early)
  PROVE  Recorded'
  <1>1. pc' \notin Writing \cup Ending /\ pc' # "back" /\ pc' # "close"
    BY DEF Entries, Writing, Ending
  <1>2. OneRecordSet' /\ (Success' <=> Success)
    BY DEF Recorded, OneRecordSet, Success, Finished, LastRecord
  <1> QED BY <1>1, <1>2 DEF Recorded, RecordTellsExit

(* tgctl_main ends. *)
LEMMA Exited ==
  ASSUME Recorded, UNCHANGED <<cmd, log>>, pc' = "back", phase' = "exit",
         cmd # "backup_create" => monitor' = given',
         given' /\ cmd \notin {"credentials", "usage"} =>
            (rc' = "ok" => Success) /\ (rc' = "err" /\ Success => SaysSuccess')
  PROVE  Recorded'
  <1>1. pc' \notin Writing /\ pc' # "close"
    BY DEF Writing
  <1>2. OneRecordSet' /\ (Finished' <=> Finished) /\ LastRecord' = LastRecord
    BY DEF Recorded, OneRecordSet, Finished, LastRecord
  <1> QED BY <1>1, <1>2 DEF Recorded, RecordTellsExit, Success

(* A file says success only if the reason is absent. *)
LEMMA ToldFailure ==
  ASSUME Typed, Told, Success
  PROVE  verdict.reason = "absent"
  <1>1. verdict.reason \in Reasons /\ "success" \notin Reasons
    BY DEF Typed, Reasons
  <1>2. verdict.reason # "none"
    <2>1. ASSUME verdict.reason = "none" PROVE FALSE
      <3>1. Unfinished(log) /\ log \in Seq(Records)
        BY <2>1 DEF Told, Typed
      <3> QED BY <3>1, Shapes, ShapeIs DEF Success
    <2> QED BY <2>1
  <1> QED BY <1>1, <1>2 DEF Told, Success

(* What the file says when the function of the command has returned. *)
LEMMA WorkTold ==
  ASSUME Typed, Recorded, phase = "working", pc = "back", given, cmd \notin {"credentials", "usage"}
  PROVE  /\ verdict.rc = "ok" => Success
         /\ verdict.rc # "ok" /\ Success =>
               /\ verdict.rc = "err" /\ cmd # "backup_create"
               /\ Excused \/ (cmd \in RestoreCmds /\ verdict.cause = "cancelled")
  <1>1. Monitored
    BY DEF Recorded, Monitored
  <1>2. CASE verdict.cause = "cancelled"
    <2>1. cmd \in RestoreCmds /\ verdict.rc = "err"
      BY <1>2 DEF Recorded, Ending
    <2> QED BY <1>2, <2>1 DEF RestoreCmds
  <1>3. CASE verdict.cause # "cancelled"
    <2>1. Told /\ Judged
      BY <1>1, <1>3 DEF Recorded, Ending
    <2>2. verdict.rc = "ok" => Success
      BY <2>1 DEF Told, Judged, Success
    <2>3. ASSUME verdict.rc # "ok", Success PROVE verdict.rc = "err" /\ verdict.reason = "absent"
      <3>1. verdict.reason = "absent"
        BY <2>1, <2>3, ToldFailure
      <3> QED BY <2>1, <2>3, <3>1 DEF Judged
    <2> QED BY <2>1, <2>2, <2>3 DEF Judged
  <1> QED BY <1>2, <1>3

(* tgctl_main goes on after a function, or ends. *)
LEMMA MainRecorded ==
  ASSUME Typed, Placed, Maintained, Recorded, VerdictTyped', Main
  PROVE  Recorded'
  <1>0. UNCHANGED <<cmd, given>> /\ pc = "back"
    BY MainFrame DEF Main, Dispatch, CheckRunning, BackupStarted, RestoreStarted, Worked, Stopped, Placed
  <1>1. \A c \in RestoreCmds : c \in Own /\ c \notin {"backup_create", "credentials", "usage"}
    BY DEF RestoreCmds, Own
  <1>3. CASE Dispatch
    <2>1. phase = "dispatch" /\ monitor' = monitor /\ monitor = given
      BY <1>3 DEF Dispatch, Recorded
    <2>2. CASE cmd = "usage" /\ log' = log /\ pc' = pc /\ phase' = "exit"
      BY <1>0, <1>1, <2>1, <2>2, Exited
    <2>3. CASE cmd = "backup_create" /\ phase' = "checked" /\ pc' = "back" /\ log' = log /\ rc' = rc
      <3>1. OneRecordSet' /\ log = << >>
        BY <2>1, <2>3 DEF Recorded, OneRecordSet
      <3> QED BY <1>0, <1>1, <2>1, <2>3, <3>1 DEF Recorded, RecordTellsExit, Writing, Ending
    <2>4. CASE /\ cmd = "backup_create" /\ phase' = "exit" /\ pc' = "back" /\ rc' = "err"
               /\ tgctl_backup_directory_check
      <3>1. CASE Monitored
        <4>1. "io" \in Reasons /\ MonitorStart \in Seq(Records) /\ Unfinished(MonitorStart)
          BY <3>1, StartRecords DEF MonitorStart, Reasons
        <4>2. verdict'.reason = "io" /\ log' = MonitorFinish(MonitorStart, "io")
          BY <2>4 DEF tgctl_backup_directory_check
        <4>3. Told' /\ OneRecordSet'
          BY <3>1, <4>1, <4>2, Tells
        <4>4. LastRecord' # "success"
          BY <4>2, <4>3 DEF Told
        <4> QED BY <1>0, <1>1, <2>4, <4>3, <4>4 DEF Recorded, RecordTellsExit, Writing
      <3>2. CASE ~Monitored
        <4>1. log' = log /\ ~given
          BY <1>1, <2>1, <2>4, <3>2 DEF tgctl_backup_directory_check, MonitorStart, MonitorFinish, Monitored
        <4> QED BY <1>0, <1>1, <2>4, <4>1, Exited
      <3> QED BY <3>1, <3>2
    <2>5. CASE cmd \in RestoreCmds /\ phase' = "starting" /\ pc' = "start" /\ log' = log
      <3>1. pc' \in Entries
        BY <2>5 DEF Entries
      <3> QED BY <1>0, <1>1, <2>1, <2>5, <3>1, Entered
    <2>6. CASE /\ cmd \notin RestoreCmds \cup {"usage", "backup_create"} /\ phase' = "working" /\ log' = log
               /\ pc' \in {"start", "stop", "kill", "status", "open"}
      <3>1. pc' \in Entries
        BY <2>6 DEF Entries
      <3> QED BY <1>0, <2>1, <2>6, <3>1, Entered
    <2>7. (CASE cmd = "start" -> "start" [] cmd = "shutdown" -> "stop"
             [] cmd = "kill" -> "kill" [] cmd = "status" -> "status"
             [] OTHER -> "open") \in {"start", "stop", "kill", "status", "open"}
      BY SMT
    <2> QED BY <1>0, <1>3, <2>2, <2>3, <2>4, <2>5, <2>6, <2>7 DEF Dispatch, Enter, Exit, Goto
  <1>4. CASE CheckRunning
    <2>1. cmd = "backup_create" /\ monitor = given /\ log = << >> /\ log' = log
      BY <1>4 DEF CheckRunning, Placed, Recorded
    <2>2. \/ phase' = "working" /\ pc' = "open" /\ monitor' = monitor
          \/ phase' = "starting" /\ pc' = "start" /\ monitor' = FALSE
      BY <1>4 DEF CheckRunning, Enter, Goto
    <2>3. pc' \in Entries
      BY <2>2 DEF Entries
    <2> QED BY <1>0, <1>1, <2>1, <2>2, <2>3, Entered
  <1>5. CASE BackupStarted
    <2>1. cmd = "backup_create" /\ log = << >> /\ log' = log
      BY <1>5 DEF BackupStarted, Recorded
    <2>2. \/ phase' = "working" /\ pc' = "open" /\ monitor' = given
          \/ phase' = "exit" /\ pc' = "back" /\ rc' = "err"
      BY <1>0, <1>5 DEF BackupStarted, Enter, Exit, Goto
    <2>3. CASE phase' = "working"
      <3>1. pc' \in Entries
        BY <2>2, <2>3 DEF Entries
      <3> QED BY <1>0, <1>1, <2>1, <2>2, <2>3, <3>1, Entered
    <2>4. CASE phase' = "exit"
      <3>1. ~Success
        BY <2>1 DEF Success, Finished
      <3> QED BY <1>0, <1>1, <2>1, <2>2, <2>4, <3>1, Exited
    <2> QED BY <2>2, <2>3, <2>4
  <1>6. CASE RestoreStarted
    <2>1. cmd \in RestoreCmds /\ log' = log /\ monitor' = monitor /\ monitor = given /\ phase = "starting"
      BY <1>0, <1>1, <1>6 DEF RestoreStarted, Recorded
    <2>2. given /\ verdict.rc # "ok" => ~Success
      <3>1. Monitored <=> given
        BY <2>1 DEF Monitored
      <3>2. ASSUME given, verdict.rc # "ok" PROVE ~Success
        <4>1. verdict.reason # "absent" /\ (verdict.cause # "cancelled" => Told)
          BY <1>0, <1>1, <2>1, <3>1, <3>2 DEF Recorded
        <4>2. verdict.cause # "cancelled"
          BY <1>0, <2>1, <3>2 DEF Recorded
        <4> QED BY <4>1, <4>2, ToldFailure
      <3> QED BY <3>2
    <2>6. cmd = "restore" /\ verdict.rc = "ok" => ended' = "no_argument"
      BY <1>6 DEF RestoreStarted
    <2>3. CASE phase' = "exit" /\ pc' = "back" /\ rc' = "err" /\ (verdict.rc = "ok" => cmd = "restore")
      <3>1. given /\ Success => SaysSuccess'
        BY <1>0, <2>1, <2>2, <2>3, <2>6 DEF SaysSuccess
      <3> QED BY <1>0, <1>1, <2>1, <2>3, <3>1, Exited
    <2>4. CASE phase' = "working" /\ pc' \in {"open", "prompt"}
      <3>1. pc' \in Entries
        BY <2>4 DEF Entries
      <3> QED BY <1>0, <1>1, <2>1, <2>4, <3>1, Entered
    <2>5. CASE phase' = "stopping" /\ pc' = "stop" /\ verdict.rc = "ok" /\ cmd = "restore"
      <3>1. pc' \in Entries /\ ended' \in Early
        BY <2>5, <2>6 DEF Entries, Early
      <3>2. given => Success
        <4>1. phase = "starting" /\ verdict.reason = "absent" /\ verdict.cause # "cancelled"
          BY <1>0, <1>6, <2>5 DEF RestoreStarted, Recorded
        <4>2. given => Monitored
          BY <2>1, <4>1 DEF Monitored
        <4> QED BY <1>0, <1>1, <2>1, <4>1, <4>2 DEF Recorded, Told, Success
      <3> QED BY <1>0, <1>1, <2>1, <2>5, <3>1, <3>2, Entered
    <2> QED BY <1>0, <1>6, <2>3, <2>4, <2>5 DEF RestoreStarted, Enter, Exit, Goto
  <1>7. CASE Worked
    <2>1. phase = "working" /\ UNCHANGED <<log, verdict>>
      BY <1>7 DEF Worked
    <2>2. cmd # "backup_create" => monitor = given
      BY DEF Recorded
    <2>3. ended' = verdict.cause
      BY <1>7 DEF Worked
    <2>4. Excused /\ cmd \notin RestoreCmds => SaysSuccess'
      BY <1>0, <2>1 DEF SaysSuccess, Excused, RestoreCmds
    <2>5. CASE /\ cmd \in RestoreCmds \/ cmd = "backup_create"
               /\ verdict.rc # "throw" /\ rc' = verdict.rc /\ phase' = "stopping" /\ pc' = "stop"
               /\ monitor' = (monitor /\ cmd # "backup_create")
      <3>1. pc' \in Entries
        BY <2>5 DEF Entries
      <3>2. given => (rc' = "ok" => Success) /\ (rc' = "err" /\ Success => cmd \in RestoreCmds /\ ended' \in Early)
        <4>1. cmd \in RestoreCmds /\ Excused => verdict.cause = "bad_file_list"
          BY DEF Excused, RestoreCmds, AltimeterCmds
        <4>2. cmd \notin {"credentials", "usage"}
          BY <1>1, <2>5
        <4> QED BY <1>0, <2>1, <2>3, <2>5, <4>1, <4>2, WorkTold DEF Early
      <3>3. cmd = "backup_create" => ~monitor'
        BY <2>5
      <3>4. cmd # "backup_create" => monitor' = given'
        <4>1. cmd # "backup_create" => (monitor' <=> monitor)
          BY <2>5
        <4>2. monitor \in BOOLEAN /\ monitor' \in BOOLEAN
          BY <2>5 DEF Typed
        <4> QED BY <1>0, <2>2, <4>1, <4>2
      <3> QED BY <1>0, <1>1, <2>1, <2>5, <3>1, <3>2, <3>3, <3>4, Entered
    <2>6. CASE /\ verdict.rc = "throw" \/ cmd \notin RestoreCmds
               /\ rc' = (IF verdict.rc = "ok" THEN "ok" ELSE "err") /\ phase' = "exit" /\ pc' = "back"
               /\ monitor' = monitor
      <3>1. given /\ cmd \notin {"credentials", "usage"} =>
               (rc' = "ok" => Success) /\ (rc' = "err" /\ Success => SaysSuccess')
        BY <1>0, <2>1, <2>4, <2>6, WorkTold
      <3> QED BY <1>0, <2>1, <2>2, <2>6, <3>1, Exited
    <2> QED BY <1>0, <1>7, <2>5, <2>6 DEF Worked, Enter, Exit, Goto
  <1>8. CASE Stopped
    <2>1. phase \in {"stopping", "killing"} /\ UNCHANGED <<log, verdict, monitor, ended>> /\ cmd \in Own
      BY <1>8 DEF Stopped, Placed, Own
    <2>2. /\ phase = "killing" => cmd = "backup_create"
          /\ given => (rc = "ok" => Success) /\ (rc = "err" /\ Success => cmd \in RestoreCmds /\ ended \in Early)
          /\ cmd # "backup_create" => cmd \in RestoreCmds /\ monitor = given
      BY <2>1 DEF Placed, Recorded, Own
    <2>3. CASE phase' = "killing" /\ pc' = "kill" /\ rc' = rc /\ cmd = "backup_create"
      <3>1. pc' \in Entries /\ ~monitor
        BY <2>1, <2>3 DEF Entries, Recorded
      <3> QED BY <1>0, <1>1, <2>1, <2>2, <2>3, <3>1, Entered
    <2>4. CASE phase' = "exit" /\ pc' = "back" /\ rc' = (IF verdict.rc = "throw" THEN "err" ELSE rc)
      <3>1. cmd \in RestoreCmds => verdict.rc # "throw"
        BY <1>0, <1>1, <2>1, <2>2 DEF Recorded
      <3>2. verdict.rc = "throw" => SaysSuccess'
        BY <1>0, <1>1, <2>1, <2>2, <3>1 DEF Recorded, SaysSuccess
      <3>3. cmd \in RestoreCmds /\ ended \in Early => SaysSuccess'
        BY <1>0, <2>1 DEF SaysSuccess, Early
      <3>4. given => (rc' = "ok" => Success) /\ (rc' = "err" /\ Success => SaysSuccess')
        BY <2>2, <2>4, <3>2, <3>3
      <3> QED BY <1>0, <2>1, <2>2, <2>4, <3>4, Exited
    <2> QED BY <1>0, <1>8, <2>3, <2>4 DEF Stopped, Enter, Exit, Goto
  <1> QED BY <1>3, <1>4, <1>5, <1>6, <1>7, <1>8 DEF Main

(* A client command writes what it learns, as long as the file is          *)
(* unfinished.                                                             *)
LEMMA ClientWrites ==
  ASSUME Typed, Placed, Recorded, Client, pc \notin {"prompt", "open", "close", "finish"}
  PROVE  /\ log' = log \/ (Monitored /\ cmd # "credentials" /\ Unfinished(log)')
         /\ Monitored /\ cmd # "credentials" => Unfinished(log)'
  <1>0. phase = "working" /\ cmd \in Asking /\ pc \in ClientPcs
    BY ClientConcludes
  <1>1. Monitored /\ cmd # "credentials" => Unfinished(log)
    <2>1. pc \in Writing
      BY <1>0 DEF ClientPcs, Writing
    <2> QED BY <2>1 DEF Recorded
  <1>2. log' = log \/ (cmd # "credentials" /\ \E k \in {"data", "progress"} : log' = MonitorData(k))
    <2>1. CASE Check
      BY <2>1 DEF Check
    <2>2. CASE Connect \/ Handshake \/ Request \/ NoReply \/ ReplyEnd
      BY <2>2 DEF Connect, Handshake, Request, NoReply, ReplyEnd
    <2>3. CASE Reply
      BY <2>3 DEF Reply, SessionCmds, RequestCmds
    <2>4. CASE Copy
      BY <1>0, <2>4 DEF Copy, Placed
    <2> QED BY <2>1, <2>2, <2>3, <2>4 DEF Client, Prompt, Open, Finish, Close
  <1>3. CASE log' = log
    BY <1>1, <1>3 DEF Unfinished
  <1>4. ASSUME NEW k \in {"data", "progress"}, log' = MonitorData(k), cmd # "credentials", Monitored
        PROVE  Unfinished(log)'
    <2>1. log' = Append(log, k) /\ Unfinished(Append(log, k))
      BY <1>1, <1>4, Shapes DEF MonitorData, Typed
    <2> QED BY <2>1 DEF Unfinished
  <1>5. ASSUME NEW k, log' = MonitorData(k), ~Monitored PROVE log' = log
    BY <1>5 DEF MonitorData
  <1> QED BY <1>2, <1>3, <1>4, <1>5

(* A client command concludes: its verdict is one of those allowed. *)
LEMMA ConcludesJudged ==
  ASSUME Typed, Placed, Recorded, Client, pc \notin Ending, NEW out \in Outs, Conclude(out)
  PROVE  /\ Judged' /\ verdict'.cause # "cancelled" /\ pc' \in {"finish", "close"}
         /\ pc' = "close" => ~(verdict'.rc = "ok" /\ cmd \notin DatastoreCmds)
  <1>0. phase = "working" /\ cmd \in Asking /\ cmd' = cmd
    BY ClientConcludes, ClientFrame
  <1>1. /\ Rules(verdict', out) /\ verdict'.cause = out
        /\ pc' = IF verdict'.rc = "ok" /\ cmd \notin DatastoreCmds THEN "finish" ELSE "close"
    BY <1>0, Concludes
  <1>2. out # "cancelled"
    BY SMT DEF Outs, Checks, Preparing, Replies, Usual
  <1>4. ASSUME verdict'.rc = "err", verdict'.reason = "absent" PROVE Excused'
    <2>1. \/ cmd \in AltimeterCmds
          \/ cmd = "session_shutdown" /\ out = "both_options"
          \/ cmd = "restore_file_list" /\ out = "bad_file_list"
      BY <1>1, <1>4 DEF Rules
    <2> QED BY <1>0, <1>1, <2>1 DEF Excused
  <1>5. Judged'
    BY <1>0, <1>1, <1>4 DEF Judged, Rules
  <1> QED BY <1>1, <1>2, <1>5

(* A client command leaves a file that tells what it ends with. *)
LEMMA ClientRecorded ==
  ASSUME Typed, Placed, Sessioned, Recorded, VerdictTyped', Client
  PROVE  Recorded'
  <1>0. /\ UNCHANGED <<cmd, given, monitor, phase, rc, ended>> /\ phase = "working" /\ cmd \in Asking /\ pc \in ClientPcs
        /\ log \in Seq(Records)
    BY ClientFrame, ClientConcludes DEF Typed
  <1>1. (Monitored <=> monitor) /\ (Monitored' <=> Monitored)
    BY <1>0 DEF Monitored
  <1>2. OneRecordSet
    BY DEF Recorded
  <1>3. CASE Prompt
    <2>1. log' = log /\ cmd \in RestoreCmds /\ OneRecordSet'
      <3>1. log' = log
        BY <1>3, ReturnsBare DEF Prompt
      <3>2. OneRecordSet'
        BY <1>2, <3>1 DEF OneRecordSet
      <3> QED BY <1>0, <1>3, <3>1, <3>2 DEF Prompt, Placed, data
    <2>3. CASE pc' = "open"
      BY <1>0, <2>1, <2>3 DEF Recorded, RecordTellsExit, Writing, Ending
    <2>4. CASE Return(log, [rc |-> "err", reason |-> "none"], "cancelled")
      <3>1. pc' = "back" /\ verdict'.cause = "cancelled" /\ verdict'.rc = "err"
        BY <2>4, Returns, ReturnCodes
      <3> QED BY <1>0, <2>1, <3>1 DEF Recorded, RecordTellsExit, Writing, Ending
    <2> QED BY <1>3, <2>3, <2>4 DEF Prompt, Goto
  <1>4. CASE Open
    <2>1. pc' = "check" /\ verdict' = verdict
      BY <1>4 DEF Open, Goto
    <2>2. CASE Monitored /\ cmd # "credentials"
      <3>1. Unfinished(log)' /\ log' \in Seq(Records)
        <4>1. log' = <<"start">>
          BY <1>4, <2>2 DEF Open, MonitorStart
        <4> QED BY <4>1, StartRecords DEF Unfinished
      <3>2. OneRecordSet'
        BY <3>1, LeftUnfinished
      <3> QED BY <1>0, <1>4, <2>1, <2>2, <3>1, <3>2 DEF Open, Recorded, RecordTellsExit, Ending
    <2>3. CASE ~(Monitored /\ cmd # "credentials")
      <3>1. log' = log
        BY <1>4, <2>3 DEF Open, MonitorStart
      <3>2. OneRecordSet'
        BY <1>2, <3>1 DEF OneRecordSet
      <3> QED BY <1>0, <1>1, <1>4, <2>1, <2>3, <3>1, <3>2 DEF Open, Recorded, RecordTellsExit, Ending
    <2> QED BY <2>2, <2>3
  <1>5. CASE pc \notin {"prompt", "open", "close", "finish"}
    <2>0. pc \notin Ending
      BY <1>0, <1>5 DEF Ending, ClientPcs
    <2>1. /\ Monitored /\ cmd # "credentials" => Unfinished(log)'
          /\ log' = log \/ (cmd # "credentials" /\ Unfinished(log)')
      BY <1>5, ClientWrites
    <2>2. OneRecordSet'
      <3>1. CASE log' = log
        BY <1>2, <3>1 DEF OneRecordSet
      <3>2. CASE Unfinished(log)'
        BY <3>2, LeftUnfinished DEF VerdictTyped
      <3> QED BY <2>1, <3>1, <3>2
    <2>3. cmd = "credentials" => log' = << >>
      BY <2>1 DEF Recorded
    <2>4. cmd # "backup_create" => monitor = given
      BY DEF Recorded
    <2>5. cmd = "backup_create" => monitor = given
      BY <1>0 DEF Recorded
    <2>6. CASE \E out \in Outs : Conclude(out)
      <3>1. /\ Judged' /\ verdict'.cause # "cancelled" /\ pc' \in {"finish", "close"}
            /\ pc' = "close" => ~(verdict'.rc = "ok" /\ cmd \notin DatastoreCmds)
        BY <2>0, <2>6, ConcludesJudged
      <3>2. pc' \in Ending /\ pc' # "back"
        BY <3>1 DEF Ending
      <3> QED BY <1>0, <1>1, <2>1, <2>2, <2>3, <2>4, <2>5, <3>1, <3>2 DEF Recorded, RecordTellsExit
    <2>7. CASE ~(\E out \in Outs : Conclude(out))
      <3>1. pc' \notin Ending
        <4>1. "success" \in Outs
          BY DEF Outs, Replies
        <4> QED BY <1>5, <2>7, <4>1
                DEF Client, Prompt, Open, Check, Connect, Handshake, Request, Reply, NoReply, Copy, ReplyEnd, Finish,
                    Close, Goto, Ending, Outs, Usual
      <3> QED BY <1>0, <1>1, <2>1, <2>2, <2>3, <2>4, <2>5, <3>1 DEF Recorded, RecordTellsExit, Ending
    <2> QED BY <2>6, <2>7
  <1>6. CASE pc \in {"finish", "close"}
    <2>0. UNCHANGED verdict /\ pc \in Ending /\ pc # "back"
      BY <1>6 DEF Client, Prompt, Open, Check, Connect, Handshake, Request, Reply, NoReply, Copy, ReplyEnd, Finish,
                  Close, data, Ending
    <2>1. Judged /\ verdict.cause # "cancelled"
      BY <1>0, <2>0 DEF Recorded
    <2>2. Judged'
      BY <1>0, <2>0, <2>1 DEF Judged, Excused
    <2>3. /\ cmd # "backup_create" => monitor' = given'
          /\ cmd = "backup_create" => monitor' = given'
          /\ cmd = "credentials" => log = << >> /\ verdict.reason = "none"
      BY <1>0, <2>0, <2>1 DEF Recorded, Judged
    <2>4. ASSUME OneRecordSet', pc' \in Ending, cmd = "credentials" => log' = << >>,
                 Monitored /\ cmd # "credentials" =>
                    /\ pc' = "finish" => Unfinished(log)'
                    /\ pc' = "close" => verdict.rc = "ok" /\ cmd \notin DatastoreCmds /\ Told'
                    /\ pc' = "back" => Told'
          PROVE  Recorded'
      <3>1. pc' \in Writing => pc' = "finish"
        BY <2>4 DEF Ending, Writing
      <3> QED BY <1>0, <1>1, <2>0, <2>1, <2>2, <2>3, <2>4, <3>1 DEF Recorded, RecordTellsExit
    <2>5. CASE Finish
      <3>1. /\ pc = "finish" /\ log' = MonitorFinish(log, verdict.reason) /\ pc' \in {"close", "back"}
            /\ pc' = "close" => verdict.rc = "ok" /\ cmd \notin DatastoreCmds
        BY <1>0, <2>5 DEF Finish, Goto, Sessioned
      <3>2. pc' \in Ending /\ pc' # "finish"
        BY <3>1 DEF Ending
      <3>3. CASE Monitored /\ cmd # "credentials"
        <4>1. Unfinished(log) /\ verdict.reason \in Reasons
          BY <3>1, <3>3 DEF Recorded, Writing, Typed
        <4>2. Told' /\ OneRecordSet'
          BY <1>0, <2>0, <3>1, <3>3, <4>1, Tells
        <4> QED BY <2>4, <3>1, <3>2, <3>3, <4>2
      <3>4. CASE ~(Monitored /\ cmd # "credentials")
        <4>1. log' = log
          BY <2>3, <3>1, <3>4 DEF MonitorFinish
        <4>2. OneRecordSet'
          BY <1>2, <4>1 DEF OneRecordSet
        <4> QED BY <2>3, <2>4, <3>2, <3>4, <4>1, <4>2
      <3> QED BY <3>3, <3>4
    <2>6. CASE Close
      <3>1. /\ pc = "close" /\ log' = log
            /\ pc' = IF verdict.rc = "throw" \/ (verdict.rc = "ok" /\ cmd \notin DatastoreCmds)
                     THEN "back" ELSE "finish"
        BY <2>6 DEF Close, Goto
      <3>2. OneRecordSet' /\ (Told' <=> Told) /\ (Unfinished(log)' <=> Unfinished(log)) /\ pc' \in Ending
        BY <1>2, <2>0, <3>1 DEF OneRecordSet, Told, Unfinished, Finished, LastRecord, Ending
      <3>3. Monitored /\ cmd # "credentials" =>
               IF verdict.rc = "ok" /\ cmd \notin DatastoreCmds THEN Told ELSE Unfinished(log)
        BY <3>1 DEF Recorded
      <3>4. verdict.rc = "throw" /\ Unfinished(log) => Told
        BY <2>1 DEF Judged, Told
      <3> QED BY <2>3, <2>4, <3>1, <3>2, <3>3, <3>4
    <2> QED BY <1>6, <2>5, <2>6
            DEF Client, Prompt, Open, Check, Connect, Handshake, Request, Reply, NoReply, Copy, ReplyEnd, Finish, Close
  <1>7. pc = "prompt" => Prompt
    BY DEF Client, Prompt, Open, Check, Connect, Handshake, Request, Reply, NoReply, Copy, ReplyEnd, Finish, Close
  <1>8. pc = "open" => Open
    BY DEF Client, Prompt, Open, Check, Connect, Handshake, Request, Reply, NoReply, Copy, ReplyEnd, Finish, Close
  <1> QED BY <1>3, <1>4, <1>5, <1>6, <1>7, <1>8

(* The monitor file is as it should be after every step. *)
LEMMA RecordedKept ==
  ASSUME Typed, Placed, Maintained, Sessioned, Recorded, [Next]_vars
  PROVE  Recorded'
  <1>1. CASE Environment \/ UNCHANGED vars
    BY <1>1, EnvironmentFrame, RecordsAlone DEF vars, main, data
  <1> QED BY <1>1, Steps, VerdictTypes, StartRecorded, StopRecorded, MainRecorded, ClientRecorded

-----------------------------------------------------------------------------
(* The theorems                                                            *)

(* All holds at first. *)
LEMMA InitIInv ==
  ASSUME Init
  PROVE  IInv
  <1>1. /\ phase = "dispatch" /\ pc = "back" /\ rc = "none" /\ log = << >> /\ monitor = given /\ cmd \in Cmds
        /\ begun = FALSE /\ isRunning = FALSE /\ victims = {} /\ restored = 0 /\ mine = 0 /\ holding = 0
        /\ copied = << >> /\ given \in BOOLEAN /\ boots = server.id
        /\ sess = [state |-> "none", with |-> 0]
        /\ att = 0 /\ ended = "none"
        /\ server \in {[state |-> "none", id |-> 0, asked |-> FALSE], [state |-> "up", id |-> 1, asked |-> FALSE]}
    BY DEF Init
  <1>2. sess \in [state : SessionStates, with : Ids] /\ sess.state = "none" /\ sess.with = 0
    <2>1. "none" \in SessionStates
      BY DEF SessionStates
    <2> QED BY <1>1, <2>1, Bounds
  <1>3. server \in Servers /\ server.id \in {0, 1}
    <2>1. "none" \in ServerStates /\ "up" \in ServerStates
      BY DEF ServerStates
    <2>2. CASE server = [state |-> "none", id |-> 0, asked |-> FALSE]
      BY <2>1, <2>2, Bounds, SMT DEF Servers
    <2>3. CASE server = [state |-> "up", id |-> 1, asked |-> FALSE]
      BY <2>1, <2>3, Bounds, SMT DEF Servers
    <2> QED BY <1>1, <2>2, <2>3
  <1>4. verdict.rc = "none" /\ verdict.reason = "none" /\ "none" \in Reasons
    BY DEF Init, NoVerdict, Reasons
  <1>5. /\ << >> \in Seq(Records) /\ << >> \in Seq(BOOLEAN) /\ Len(<< >>) = 0 /\ 0 <= Files
        /\ \A i \in 1 .. Len(<< >>) : FALSE
    BY Bounds, SMT
  <1>6. /\ server.id \in Ids /\ server.id <= boots /\ mine <= boots /\ sess.with <= boots
        /\ att <= server.id
    BY <1>1, <1>2, <1>3, Bounds, SMT
  <1>7. Typed
    BY <1>1, <1>2, <1>3, <1>4, <1>5, <1>6, Bounds DEF Typed, Phases
  <1>8. Placed
    BY <1>1 DEF Placed
  <1>9. Maintained
    BY <1>1 DEF Maintained, NothingLeft, HandsOff
  <1>10. Backed
    BY <1>1 DEF Backed
  <1>11. Sessioned
    BY <1>1, <1>2 DEF Sessioned
  <1>12. Recorded
    BY <1>1, <1>5 DEF Recorded, OneRecordSet, RecordTellsExit, Writing
  <1> QED BY <1>7, <1>8, <1>9, <1>10, <1>11, <1>12 DEF IInv

(* And it is kept by every step. *)
LEMMA NextIInv ==
  ASSUME IInv, [Next]_vars
  PROVE  IInv'
  <1>1. Typed' /\ Placed'
    BY TypedKept, PlacedKept DEF IInv
  <1>2. Maintained' /\ Backed'
    BY <1>1, MaintainedKept, BackedKept DEF IInv
  <1>3. Sessioned' /\ Recorded'
    BY <1>1, SessionedKept, RecordedKept DEF IInv
  <1> QED BY <1>1, <1>2, <1>3 DEF IInv

(* So it holds always. *)
THEOREM CommandsInv == Spec => []IInv
  <1>1. Init => IInv
    BY InitIInv
  <1>2. IInv /\ [Next]_vars => IInv'
    BY NextIInv
  <1> QED BY <1>1, <1>2, PTL DEF Spec

(* The variables keep their types: every server that tgctl meets has its   *)
(* number, and a backup copies no more files than there are.               *)
THEOREM TypesAreKept == Spec => []TypeOK
  <1>1. IInv => TypeOK
    BY TypedIs DEF IInv
  <1> QED BY <1>1, CommandsInv, PTL

(* The monitor file is well formed at every moment, and the file of a      *)
(* command that has ended tells what its exit code does, but on the paths  *)
(* of SaysSuccess: for every command, and whatever the server does.        *)
THEOREM RecordsTellTheExit == Spec => []RecordTellsExit
  <1>1. IInv => RecordTellsExit
    BY DEF IInv, Recorded
  <1> QED BY <1>1, CommandsInv, PTL

(* A backup that is reported as done has every file, each copied while the *)
(* server held still for it: for any number of files.                      *)
THEOREM BackupsAreCovered == Spec => []BackupCovered
  <1>1. IInv => BackupCovered
    BY DEF IInv, Backed, Covered, BackupCovered
  <1> QED BY <1>1, CommandsInv, PTL

(* backup create and restore stop, kill and restore into no server that    *)
(* was there before their own: for any number of servers.                  *)
THEOREM HandsAreOff == Spec => []HandsOff
  <1>1. IInv => HandsOff
    BY DEF IInv, Maintained, HandsOff, Own
  <1> QED BY <1>1, CommandsInv, PTL

(* A command leaves neither its server nor its session behind, but on the  *)
(* paths of MayLeave.                                                      *)
THEOREM EndsAreClean == Spec => []CleanEnd
  <1>1. IInv => NothingLeft
    BY DEF IInv, Maintained, NothingLeft, Own
  <1>2. IInv => SessionsClosed
    BY DEF IInv, Sessioned, SessionsClosed
  <1>3. IInv => CleanEnd
    BY <1>1, <1>2 DEF CleanEnd
  <1> QED BY <1>3, CommandsInv, PTL
=============================================================================
