------------------------------ MODULE Commands ------------------------------
(***************************************************************************)
(* One run of tgctl: tgctl_main (tgctl/tgctl.cpp), the functions that it   *)
(* calls and the file that --monitor names.                                *)
(*                                                                         *)
(* A command opens the monitor file (which empties it), writes "start",    *)
(* connects, sends a request, writes what it has learnt, and ends with a   *)
(* finish record and a return code.  "backup create" and "restore" boot a  *)
(* maintenance server of their own around the command and stop it again.   *)
(* Meanwhile the server boots, fails, stops or crashes, and other users    *)
(* start and stop servers of the same database.                            *)
(*                                                                         *)
(* How a server boots and stops is ServerLifecycle, how requests travel is *)
(* SessionReceive: here a server is what tgctl can tell of it.  A record   *)
(* of the file is its kind, and of a finish record the reason; "absent" is *)
(* printed as success.                                                     *)
(***************************************************************************)
EXTENDS Integers, Sequences

CONSTANTS
    Cmds,       \* the commands that may be given
    Files,      \* bound: files in the data store
    MaxBoots    \* bound: servers started, one that runs at first included

SessionCmds == {"session_list", "session_show", "session_shutdown", "session_swtch"}
RequestCmds == {"request_list", "request_payload", "request_extract_sql"}
MetricsCmds == {"dbstats_list", "dbstats_show"}
AltimeterCmds == {"set_enabled", "set_log_level", "set_statement_duration", "rotate"}
ProcessCmds == {"start", "shutdown", "kill", "status"}
RestoreCmds == {"restore_backup", "restore_file_list", "restore_tag", "restore"}
DatastoreCmds == {"backup_create", "backup_estimate"} \cup RestoreCmds
ClientCmds == SessionCmds \cup RequestCmds \cup MetricsCmds \cup AltimeterCmds \cup DatastoreCmds
AllCmds == ClientCmds \cup ProcessCmds \cup {"config", "credentials", "usage"}

ASSUME CommandsAssumption ==
    /\ Cmds \subseteq AllCmds
    /\ Files \in Nat
    /\ MaxBoots \in Nat \ {0}

VARIABLES
    cmd,        \* the command
    given,      \* --monitor was given
    monitor,    \* FLAGS_monitor is not empty
    log,        \* the records in the monitor file
    phase,      \* where tgctl_main is
    pc,         \* where the function that it has called is
    verdict,    \* what that function ends with: return code, reason and cause
    rc,         \* the exit code, or "none"
    isRunning,  \* is_running, of backup create
    mine,       \* the server that this tgctl has launched, or 0
    begun,      \* tgctl_start has reported that server as launched
    sess,       \* the session: its state and the server it is with
    copied,     \* of every file copied: whether the server held still for it
    att,        \* the server whose status information tgctl_shutdown has, or 0
    ended,      \* history: what the function of the command itself ended with
    server,     \* the server of the database: where it is, which one, and
                \* whether it was asked to shut down
    holding,    \* the server that is between BackupBegin and BackupEnd, or 0
    boots,      \* the number of servers started
    victims,    \* the servers that this tgctl has asked to stop, or killed
    restored    \* the server that has restored a backup, or 0

main == <<cmd, given, monitor, phase, rc, isRunning, begun, ended>>
data == <<copied, holding, restored, att>>
world == <<server, boots>>
vars == <<main, log, pc, verdict, mine, sess, data, world, victims>>

NoVerdict == [rc |-> "none", reason |-> "none", cause |-> "none"]

Init ==
    /\ cmd \in Cmds
    /\ given \in BOOLEAN
    /\ monitor = given
    /\ log = << >>
    /\ phase = "dispatch"
    /\ pc = "back"
    /\ verdict = NoVerdict
    /\ rc = "none"
    /\ isRunning = FALSE
    /\ mine = 0
    /\ begun = FALSE
    /\ sess = [state |-> "none", with |-> 0]
    /\ copied = << >>
    /\ att = 0
    /\ ended = "none"
    /\ server \in {[state |-> "none", id |-> 0, asked |-> FALSE],
                   [state |-> "up", id |-> 1, asked |-> FALSE]}
    /\ holding = 0
    /\ boots = server.id
    /\ victims = {}
    /\ restored = 0

Goto(where) == pc' = where

-----------------------------------------------------------------------------
(* What a function ends with: return code and reason of the finish record. *)
(* An exception that is no tgctl::runtime_error leaves the function, which *)
(* then has no finish record.                                              *)

Ok == [rc |-> "ok", reason |-> "absent"]
Err(reason) == [rc |-> "err", reason |-> reason]
Escape == [rc |-> "throw", reason |-> "none"]

(* mutant: a reply without a result sets no reason. *)
ByCase_NoReason(out) ==
    CASE out = "success" -> Ok
      [] out = "error" -> Err("server")
      [] out \in {"unset", "nullopt"} -> Err("absent")
      [] out = "no_database_name" -> Err("connection_failure")
      [] out = "exception" -> Escape
      [] OTHER -> Err(out)

(* The switch over result_case of the session and request commands.  What  *)
(* is neither a reply nor missing is the code of a tgctl::runtime_error.   *)
ByCase(out) ==
    CASE out = "success" -> Ok
      [] out = "error" -> Err("server")
      [] out \in {"unset", "nullopt"} -> Err("payload_broken")
      [] out = "no_database_name" -> Err("connection_failure")
      [] out = "exception" -> Escape
      [] OTHER -> Err(out)

(* The handlers that tell which database could not be connected call       *)
(* database_name, which throws once more if the configuration has no name. *)
Naming(out) == IF out = "no_database_name" THEN Escape ELSE ByCase(out)

session_list(out) == IF out = "bad_session_id" THEN Escape ELSE ByCase(out)
session_show(out) == ByCase(out)

session_shutdown(out) == IF out = "both_options" THEN Err("absent") ELSE ByCase(out)
session_swtch(out) == ByCase(out)

request_list(out) == Naming(out)
request_payload(out) == Naming(out)
request_extract_sql(out) ==
    IF out = "other_response" THEN Err("payload_broken") ELSE Naming(out)

(* A response of the metrics service has no result_case, but the format    *)
(* asked for, json unless it is said, has to be one that can be printed.   *)
list(out) ==
    CASE out = "text" -> Ok
      [] out = "bad_format" -> Err("invalid_argument")
      [] OTHER -> Naming(out)
show(out) ==
    IF out \in {"text", "bad_format"} THEN Err("invalid_argument") ELSE Naming(out)

post_processing(out) == ByCase(out).reason

(* Both branches of the last statement of the altimeter commands are err.  *)
AltimeterCode(reason) == IF reason = "absent" THEN "err" ELSE "err"

Altimeter(out) ==
    IF Naming(out) = Escape THEN Escape
    ELSE [rc |-> AltimeterCode(post_processing(out)), reason |-> post_processing(out)]

set_enabled(out) == Altimeter(out)
set_log_level(out) == IF out = "not_a_number" THEN Escape ELSE Altimeter(out)
set_statement_duration(out) == IF out = "not_a_number" THEN Escape ELSE Altimeter(out)
rotate(out) == Altimeter(out)

(* mutant: a missing answer is no error. *)
tgctl_backup_create_Lenient(out) ==
    IF out = "exception" THEN Err("io") ELSE IF out = "nullopt" THEN Ok ELSE ByCase(out)

tgctl_backup_create(out) == IF out = "exception" THEN Err("io") ELSE ByCase(out)

(* The other functions of the data store do not tell an unset result apart. *)
OrServer(out) == IF out = "unset" THEN Err("server") ELSE Naming(out)

tgctl_backup_estimate(out) == OrServer(out)
tgctl_restore_backup(out) == OrServer(out)
tgctl_restore_backup_use_file_list(out) ==
    CASE out = "bad_file_list" -> Err("absent")
      [] out = "no_entries" -> Escape
      [] OTHER -> OrServer(out)
tgctl_restore_tag(out) == OrServer(out)

config(out) == IF out = "bad_ini" THEN [rc |-> "err", reason |-> "none"] ELSE ByCase(out)

(* tgctl credentials writes no monitor file, but lets through what is no   *)
(* std::runtime_error.                                                     *)
credentials(out) == [rc |-> IF out = "success" THEN "ok" ELSE "err", reason |-> "none"]

Verdict(out) ==
    CASE cmd = "session_list" -> session_list(out)
      [] cmd = "session_show" -> session_show(out)
      [] cmd = "session_shutdown" -> session_shutdown(out)
      [] cmd = "session_swtch" -> session_swtch(out)
      [] cmd = "request_list" -> request_list(out)
      [] cmd = "request_payload" -> request_payload(out)
      [] cmd = "request_extract_sql" -> request_extract_sql(out)
      [] cmd = "dbstats_list" -> list(out)
      [] cmd = "dbstats_show" -> show(out)
      [] cmd = "set_enabled" -> set_enabled(out)
      [] cmd = "set_log_level" -> set_log_level(out)
      [] cmd = "set_statement_duration" -> set_statement_duration(out)
      [] cmd = "rotate" -> rotate(out)
      [] cmd = "backup_create" -> tgctl_backup_create(out)
      [] cmd = "backup_estimate" -> tgctl_backup_estimate(out)
      [] cmd = "restore_backup" -> tgctl_restore_backup(out)
      [] cmd = "restore_file_list" -> tgctl_restore_backup_use_file_list(out)
      [] cmd = "restore_tag" -> tgctl_restore_tag(out)
      [] cmd = "config" -> config(out)
      [] cmd = "credentials" -> credentials(out)

-----------------------------------------------------------------------------
(* The monitor: its constructor empties the file, every record is flushed. *)

(* tgctl_shutdown_kill(false, false), of restore, writes no records.       *)
Monitored == monitor /\ ~(cmd \in RestoreCmds /\ phase = "stopping")

MonitorStart == IF Monitored THEN <<"start">> ELSE log

MonitorData(kind) == IF Monitored THEN Append(log, kind) ELSE log

MonitorFinish(records, reason) ==
    IF Monitored /\ reason # "none"
    THEN Append(records, IF reason = "absent" THEN "success" ELSE reason)
    ELSE records

(* The function returns without a session to close. *)
Return(records, v, cause) ==
    /\ verdict' = [rc |-> v.rc, reason |-> v.reason, cause |-> cause]
    /\ log' = MonitorFinish(records, v.reason)
    /\ Goto("back")

(* A function of a client command has its answer, or has failed.  Where it *)
(* returns from inside the try block the finish record is written before   *)
(* the destructor of the transport closes the session, else after it.      *)
Conclude(out) ==
    /\ verdict' = [rc |-> Verdict(out).rc, reason |-> Verdict(out).reason, cause |-> out]
    /\ Goto(IF Verdict(out).rc = "ok" /\ cmd \notin DatastoreCmds THEN "finish" ELSE "close")

Finish ==
    /\ pc = "finish"
    /\ log' = MonitorFinish(log, verdict.reason)
    /\ Goto(IF sess.state = "open" THEN "close" ELSE "back")
    /\ UNCHANGED <<main, verdict, mine, sess, data, world, victims>>

(* close() or the destructor of the transport.  A session whose handshake  *)
(* has ended with a foreign exception has no transport to close it.        *)
Close ==
    /\ pc = "close"
    /\ sess' = [sess EXCEPT !.state = IF @ = "open" THEN "closed" ELSE @]
    /\ Goto(IF verdict.rc = "throw" \/ (verdict.rc = "ok" /\ cmd \notin DatastoreCmds)
            THEN "back" ELSE "finish")
    /\ UNCHANGED <<main, log, verdict, mine, data, world, victims>>

-----------------------------------------------------------------------------
(* A client command: open the file, check the arguments, connect, ask.     *)

Prompt ==
    /\ pc = "prompt"
    /\ \/ Goto("open") /\ UNCHANGED <<log, verdict>>
       \/ Return(log, [rc |-> "err", reason |-> "none"], "cancelled")
    /\ UNCHANGED <<main, mine, sess, data, world, victims>>

Open ==
    /\ pc = "open"
    /\ log' = IF cmd = "credentials" THEN log ELSE MonitorStart
    /\ Goto("check")
    /\ UNCHANGED <<main, verdict, mine, sess, data, world, victims>>

(* What a function finds wrong before it connects. *)
Checks ==
    CASE cmd = "session_shutdown" -> {"both_options"}
      [] cmd = "restore_file_list" -> {"bad_file_list"}
      [] cmd = "config" -> {"not_found", "server", "authentication_failure", "bad_ini"}
      [] cmd = "credentials" -> {"bad_option", "file_exists"}
      [] OTHER -> {}

Check ==
    /\ pc = "check"
    /\ \/ \E out \in Checks : Conclude(out) /\ UNCHANGED log
       \/ cmd # "config" /\ Goto("connect") /\ UNCHANGED <<verdict, log>>
       \/ cmd = "config" /\ log' = MonitorData("data") /\ Conclude("success")
    /\ UNCHANGED <<main, mine, sess, data, world, victims>>

(* The constructor of the transport.  The queue of a server that has       *)
(* crashed is still there, and takes the request.                          *)
Connect ==
    /\ pc = "connect"
    /\ \/ Conclude("no_database_name") /\ UNCHANGED sess
       \/ /\ server.state \in {"none", "boot", "locked", "info", "failed", "deactivated"}
          /\ Conclude("connection_failure") /\ UNCHANGED sess
       \/ server.state = "stop" /\ Conclude("connection") /\ UNCHANGED sess
       \/ /\ server.state \in {"up", "dead"}
          /\ sess' = [state |-> "queued", with |-> server.id]
          /\ Goto("queued") /\ UNCHANGED verdict
    /\ UNCHANGED <<main, log, mine, data, world, victims>>

(* The server accepts, and answers the handshake. *)
Handshake ==
    /\ pc = "queued"
    /\ server.state = "up" /\ server.id = sess.with
    /\ \/ /\ sess' = [sess EXCEPT !.state = "open"]
          /\ Goto("request") /\ UNCHANGED verdict
       \/ /\ sess' = [sess EXCEPT !.state = "closed"]
          /\ \E out \in {"authentication_failure", "connection_failure", "permission",
                         "unknown"} : Conclude(out)
       \/ /\ sess' = [sess EXCEPT !.state = "abandoned"]
          /\ Conclude("exception")
    /\ UNCHANGED <<main, log, mine, data, world, victims>>

(* What goes wrong while the request is put together; tgctl credentials    *)
(* has no request, it only keeps what the handshake has sent.              *)
Preparing ==
    CASE cmd \in {"set_enabled", "rotate"} -> {"internal"}
      [] cmd \in {"set_log_level", "set_statement_duration"} -> {"not_a_number"}
      [] cmd = "restore_file_list" -> {"no_entries"}
      [] cmd = "credentials" -> {"success", "no_credential", "cannot_open"}
      [] OTHER -> {}

Request ==
    /\ pc = "request"
    /\ \/ \E out \in Preparing : Conclude(out)
       \/ cmd # "credentials" /\ Goto("reply") /\ UNCHANGED verdict
    /\ UNCHANGED <<main, log, mine, sess, data, world, victims>>

(* transport::send: a result, no result, or a diagnostic record that it    *)
(* throws; for the data store it takes a diagnostic record for a result.   *)
Replies ==
    {"success", "nullopt"}
        \cup (IF cmd \in MetricsCmds THEN {"text", "bad_format"} ELSE {"error", "unset"})
        \cup (IF cmd \in DatastoreCmds THEN {} ELSE {"permission", "unknown"})
        \cup (IF cmd = "session_list" THEN {"bad_session_id"} ELSE {})
        \cup (IF cmd = "request_extract_sql" THEN {"other_response"} ELSE {})

(* status_provider::is_alive: somebody has the lock. *)
IsAlive == server.state \in {"locked", "info", "failed", "up", "stop", "deactivated"}

Answers == server.id = sess.with /\ server.state \in {"up", "stop"}

Reply ==
    /\ pc = "reply"
    /\ Answers
    /\ \E out \in Replies :
          /\ IF cmd = "backup_create" /\ out = "success"
             THEN holding' = server.id /\ Goto("copy") /\ UNCHANGED verdict
             ELSE Conclude(out) /\ UNCHANGED holding
          /\ restored' = IF cmd \in RestoreCmds /\ out = "success" THEN server.id ELSE restored
          /\ log' = IF cmd \in SessionCmds \cup RequestCmds /\ out \in {"success", "bad_session_id"}
                    THEN MonitorData("data") ELSE log
    /\ UNCHANGED <<main, mine, sess, copied, att, world, victims>>

(* mutant: receive does not ask whether the server is alive. *)
NoReply_Patient ==
    /\ FALSE
    /\ UNCHANGED vars

(* receive throws once nobody has the lock. *)
NoReply ==
    /\ pc \in {"reply", "reply_end"}
    /\ ~IsAlive
    /\ Conclude("connection_timeout")
    /\ UNCHANGED <<main, log, mine, sess, data, world, victims>>

Copy ==
    /\ pc = "copy"
    /\ \/ /\ Len(copied) < Files
          /\ copied' = Append(copied, Answers /\ holding = server.id)
          /\ log' = MonitorData("progress")
          /\ UNCHANGED <<pc, verdict>>
       \/ Len(copied) = Files /\ Goto("reply_end") /\ UNCHANGED <<copied, log, verdict>>
       \/ Conclude("exception") /\ UNCHANGED <<copied, log>>
    /\ UNCHANGED <<main, mine, sess, holding, restored, att, world, victims>>

ReplyEnd ==
    /\ pc = "reply_end"
    /\ Answers
    /\ \E out \in Replies :
          /\ Conclude(out)
          /\ holding' = IF out = "success" THEN 0 ELSE holding
    /\ UNCHANGED <<main, log, mine, sess, copied, restored, att, world, victims>>

Client ==
    \/ Prompt \/ Open \/ Check \/ Connect \/ Handshake \/ Request \/ Reply
    \/ NoReply \/ Copy \/ ReplyEnd \/ Finish \/ Close

-----------------------------------------------------------------------------
(* tgctl_start.  The child takes the lock unless a server has it already;  *)
(* of two that boot at the same time either one may.                       *)

(* FLAGS_timeout is 0, practically for ever, for restore. *)
MayTimeOut == cmd \notin RestoreCmds

tgctl_start ==
    /\ pc = "start"
    /\ \/ log' = MonitorStart /\ Goto("start_check") /\ UNCHANGED verdict
       \/ Return(MonitorStart, Err("not_found"), "no_configuration")
       \/ cmd = "start" /\ log' = MonitorStart /\ Goto("force_pid") /\ UNCHANGED verdict
       \/ cmd = "start" /\ Return(MonitorStart, Err("invalid_argument"), "start_mode")
    /\ UNCHANGED <<main, mine, sess, data, world, victims>>

(* How tgctl_kill ends when it fails: --start-mode=force tells so, tgctl   *)
(* kill sets no reason.                                                    *)
KillFails(cause) ==
    Return(log, Err(IF pc \in {"force_pid", "force_wait"} THEN "initialization" ELSE "absent"), cause)

(* A tgctl::runtime_error of the status information or the lock file.  It  *)
(* sets no reason if FLAGS_quiet is set, and leaves tgctl_start.           *)
Throws(reason) ==
    IF pc \in {"force_pid", "force_wait"}
    THEN Return(log, Escape, "exception")
    ELSE \E r \in {reason, "absent"} :
            Return(log, Err(r), IF r = "absent" THEN "quiet" ELSE "exception")

(* tgctl_kill reads the pid in the lock file.  There may be no such file,  *)
(* or no longer, or no pid in it: it is written late in the boot, and the  *)
(* next server that is launched truncates the file.                        *)
KillPid ==
    /\ pc \in {"kill_pid", "force_pid"}
    /\ \/ server.state \in {"none", "boot"} /\ Throws("invalid_status") /\ UNCHANGED <<server, victims>>
       \/ server.state = "none" /\ Return(log, Escape, "file_vanished") /\ UNCHANGED <<server, victims>>
       \/ server.state # "none" /\ KillFails("no_pid") /\ UNCHANGED <<server, victims>>
       \/ /\ server.state # "none"
          /\ server' = [server EXCEPT !.state = IF IsAlive THEN "dead" ELSE @]
          /\ victims' = IF IsAlive THEN victims \cup {server.id} ELSE victims
          /\ Goto(IF pc = "kill_pid" THEN "kill_wait" ELSE "force_wait")
          /\ UNCHANGED <<log, verdict>>
    /\ UNCHANGED <<main, mine, sess, data, boots>>

(* The loop of tgctl_kill: once nobody has the lock the file is removed,   *)
(* with the status information if there is one.                            *)
KillWait ==
    /\ pc \in {"kill_wait", "force_wait"}
    /\ \/ /\ server.state \in {"dead", "boot"}
          /\ server' = [server EXCEPT !.state = IF @ = "dead" THEN "none" ELSE @]
          /\ \/ pc = "kill_wait" /\ Return(log, Ok, "killed")
             \/ pc = "force_wait" /\ Goto("start_check") /\ UNCHANGED <<log, verdict>>
             \/ Throws("ambiguous")
       \/ MayTimeOut /\ KillFails("timeout") /\ UNCHANGED server
    /\ UNCHANGED <<main, mine, sess, data, boots, victims>>

StartCheck ==
    /\ pc = "start_check"
    /\ \/ /\ server.state \in {"info", "up", "stop"}
          /\ Return(log, Err("another_process"), "running")
       \/ /\ server.state \notin {"info", "up", "stop"}
          /\ \/ Goto("launch") /\ UNCHANGED <<log, verdict>>
             \/ Return(log, [rc |-> "err", reason |-> "none"], "no_base_path")
    /\ UNCHANGED <<main, mine, sess, data, world, victims>>

Launch ==
    /\ pc = "launch"
    /\ \/ /\ boots < MaxBoots
          /\ boots' = boots + 1
          /\ mine' = boots'
          /\ \/ /\ server.state \in {"none", "dead", "boot"}
                /\ server' = [state |-> "boot", id |-> boots', asked |-> FALSE]
             \/ server.state \notin {"none", "dead"} /\ UNCHANGED server
          /\ Goto("wait_lock") /\ UNCHANGED <<log, verdict>>
       \/ Return(log, Escape, "no_executable") /\ UNCHANGED <<mine, world>>
    /\ UNCHANGED <<main, sess, data, victims>>

(* The pid is in the lock file, and the status information there. *)
Known == server.state \in {"info", "up", "failed", "stop", "deactivated"}

(* The loop over the lock file, until it tells whose server has the lock. *)
WaitLock ==
    /\ pc = "wait_lock"
    /\ \/ /\ server.id # mine \/ server.state \in {"none", "dead"}
          /\ Return(log, Err("internal"), "child_gone")
       \/ server.id # mine /\ Known /\ Return(log, Err("another_process"), "lost_race")
       \/ server.id = mine /\ Known /\ Goto("wait_info") /\ UNCHANGED <<log, verdict>>
       \/ server.state = "none" /\ Return(log, Escape, "file_vanished")
       \/ MayTimeOut /\ Return(log, Err("ambiguous"), "timeout")
    /\ UNCHANGED <<main, mine, sess, data, world, victims>>

(* The loop that attaches the status information; it does not ask again    *)
(* whose server that is.                                                   *)
WaitInfo ==
    /\ pc = "wait_info"
    /\ \/ /\ Known \/ server.state = "dead"
          /\ Goto("wait_pid") /\ UNCHANGED <<log, verdict>>
       \/ MayTimeOut /\ Return(log, Err("timeout"), "timeout")
    /\ UNCHANGED <<main, mine, sess, data, world, victims>>

(* The pid in it: of another server only if that has taken over since. *)
WaitPid ==
    /\ pc = "wait_pid"
    /\ \/ Goto("wait_status") /\ UNCHANGED <<log, verdict>>
       \/ server.id # mine /\ Return(log, Err("timeout"), "mismatch")
    /\ UNCHANGED <<main, mine, sess, data, world, victims>>

(* The loop over status_check_internal: what ends it other than by a       *)
(* return is reported as a timeout.                                        *)
WaitStatus ==
    /\ pc = "wait_status"
    /\ \/ server.state = "up" /\ Return(log, Ok, "launched")
       \/ server.state \in {"dead", "failed"} /\ Return(log, Err("ambiguous"), "exited")
       \/ server.state \in {"stop", "deactivated"} /\ Return(log, Err("timeout"), "stopping")
       \/ MayTimeOut /\ Return(log, Err("timeout"), "timeout")
    /\ UNCHANGED <<main, mine, sess, data, world, victims>>

StartSteps ==
    \/ tgctl_start \/ StartCheck \/ Launch \/ WaitLock \/ WaitInfo
    \/ WaitPid \/ WaitStatus

-----------------------------------------------------------------------------
(* tgctl_shutdown_kill and tgctl_status.                                   *)

tgctl_shutdown_kill ==
    /\ pc \in {"stop", "kill"}
    /\ \/ /\ server.state \in {"none", "dead", "boot", "deactivated"}
          /\ Return(MonitorStart, Ok, "not_running")
       \/ /\ server.state \notin {"none", "dead", "boot", "deactivated"}
          /\ log' = MonitorStart
          /\ Goto(IF pc = "kill" THEN "kill_pid" ELSE "attach") /\ UNCHANGED verdict
       \/ /\ cmd \in {"shutdown", "kill"}
          /\ \E r \in {"initialization", "not_found"} :
                 Return(MonitorStart, Err(r), "no_configuration")
    /\ UNCHANGED <<main, mine, sess, data, world, victims>>

(* The lock file is opened, the status information attached and asked for  *)
(* a request (is_shutdown_requested).                                      *)
Attach ==
    /\ pc = "attach"
    /\ \/ server.state \in {"none", "boot"} /\ Throws("invalid_status") /\ UNCHANGED att
       \/ ~Known /\ Throws("ambiguous") /\ UNCHANGED att
       \/ /\ Known \/ server.state = "dead"
          /\ IF server.asked
             THEN Return(log, Err("invalid_status"), "already_requested") /\ UNCHANGED att
             ELSE att' = server.id /\ Goto("request_stop") /\ UNCHANGED <<log, verdict>>
    /\ UNCHANGED <<main, mine, sess, copied, holding, restored, world, victims>>

(* request_shutdown, in the status information attached, whose server may  *)
(* have been asked by another since, or may have gone.                     *)
tgctl_shutdown ==
    /\ pc = "request_stop"
    /\ \/ /\ cmd = "shutdown"
          /\ Return(log, Err("absent"), "both_options")
          /\ UNCHANGED <<server, victims>>
       \/ /\ server.id = att => server.asked
          /\ Return(log, Err("absent"), "outrun")
          /\ UNCHANGED <<server, victims>>
       \/ /\ server.id = att => ~server.asked
          /\ server' = IF server.id = att THEN [server EXCEPT !.asked = TRUE] ELSE server
          /\ victims' = victims \cup {att}
          /\ Goto("wait_stop") /\ UNCHANGED <<log, verdict>>
    /\ UNCHANGED <<main, mine, sess, data, boots>>

WaitStop ==
    /\ pc = "wait_stop"
    /\ \/ server.state \in {"none", "boot"} /\ Return(log, Ok, "stopped")
       \/ MayTimeOut /\ Return(log, Err("absent"), "timeout")
    /\ UNCHANGED <<main, mine, sess, data, world, victims>>

tgctl_status ==
    /\ pc = "status"
    /\ \/ /\ server.state \notin {"locked", "failed"}
          /\ Return(IF Monitored THEN <<"start", "data">> ELSE log, Ok, "success")
       \/ server.state = "locked" /\ Return(MonitorStart, Err("timeout"), "count_over")
       \/ server.state = "failed" /\ Return(MonitorStart, Err("ambiguous"), "boot_error")
       \/ \E r \in {"initialization", "not_found"} :
              Return(MonitorStart, Err(r), "no_configuration")
    /\ UNCHANGED <<main, mine, sess, data, world, victims>>

-----------------------------------------------------------------------------
(* tgctl_main.  main turns an exception that reaches it into an exit code. *)

Enter(where, function) ==
    /\ phase' = where
    /\ Goto(function)

(* mutant: main catches nothing. *)
Exit_Uncaught(code) ==
    /\ phase' = "exit"
    /\ rc' = IF verdict.rc = "throw" THEN "throw" ELSE code
    /\ UNCHANGED pc

Exit(code) ==
    /\ phase' = "exit"
    /\ rc' = code
    /\ UNCHANGED pc

(* The directory is missing or cannot be written to. *)
tgctl_backup_directory_check ==
    /\ verdict' = [rc |-> "err", reason |-> "io", cause |-> "directory"]
    /\ log' = MonitorFinish(MonitorStart, "io")

Dispatch ==
    /\ phase = "dispatch"
    /\ \/ cmd = "usage" /\ Exit("err") /\ UNCHANGED <<log, verdict>>
       \/ /\ cmd = "backup_create"
          /\ \/ Enter("checked", "back") /\ UNCHANGED <<rc, log, verdict>>
             \/ Exit("err") /\ tgctl_backup_directory_check
       \/ /\ cmd \in RestoreCmds
          /\ Enter("starting", "start") /\ UNCHANGED <<rc, log, verdict>>
       \/ /\ cmd \notin RestoreCmds \cup {"usage", "backup_create"}
          /\ Enter("working", CASE cmd = "start" -> "start" [] cmd = "shutdown" -> "stop"
                                 [] cmd = "kill" -> "kill" [] cmd = "status" -> "status"
                                 [] OTHER -> "open")
          /\ UNCHANGED <<rc, log, verdict>>
    /\ UNCHANGED <<cmd, given, monitor, isRunning, begun, ended, mine, sess, data, world, victims>>

(* FLAGS_monitor is emptied while backup create boots and stops its server. *)
CheckRunning ==
    /\ phase = "checked"
    /\ isRunning' = (server.state = "up")
    /\ IF isRunning'
       THEN Enter("working", "open") /\ UNCHANGED monitor
       ELSE Enter("starting", "start") /\ monitor' = FALSE
    /\ UNCHANGED <<cmd, given, rc, begun, ended, log, verdict, mine, sess, data, world, victims>>

(* mutant: is_running is not set when somebody else was faster. *)
BackupStarted_Forgets ==
    /\ phase = "starting" /\ pc = "back" /\ cmd = "backup_create"
    /\ \/ /\ verdict.rc = "ok" \/ (verdict.rc = "err" /\ server.state = "up")
          /\ begun' = (verdict.rc = "ok") /\ monitor' = given
          /\ Enter("working", "open") /\ UNCHANGED <<rc, isRunning>>
       \/ /\ verdict.rc = "throw" \/ (verdict.rc = "err" /\ server.state # "up")
          /\ Exit("err") /\ UNCHANGED <<begun, isRunning, monitor>>
    /\ UNCHANGED <<cmd, given, ended, log, verdict, mine, sess, data, world, victims>>

BackupStarted ==
    /\ phase = "starting" /\ pc = "back" /\ cmd = "backup_create"
    /\ \/ /\ verdict.rc = "ok"
          /\ begun' = TRUE /\ monitor' = given
          /\ Enter("working", "open") /\ UNCHANGED <<rc, isRunning>>
       \/ /\ verdict.rc = "err" /\ server.state = "up"
          /\ isRunning' = TRUE /\ monitor' = given
          /\ Enter("working", "open") /\ UNCHANGED <<rc, begun>>
       \/ /\ verdict.rc = "throw" \/ (verdict.rc = "err" /\ server.state # "up")
          /\ Exit("err") /\ UNCHANGED <<begun, isRunning, monitor>>
    /\ UNCHANGED <<cmd, given, ended, log, verdict, mine, sess, data, world, victims>>

(* Without a subcommand restore returns at once; without its argument it   *)
(* does nothing, and with an unknown one it fails, but stops the server.   *)
RestoreStarted ==
    /\ phase = "starting" /\ pc = "back" /\ cmd \in RestoreCmds
    /\ begun' = (verdict.rc = "ok")
    /\ \/ verdict.rc # "ok" /\ Exit("err")
       \/ /\ verdict.rc = "ok" /\ cmd # "restore"
          /\ Enter("working", IF cmd = "restore_tag" THEN "open" ELSE "prompt")
          /\ UNCHANGED rc
       \/ /\ verdict.rc = "ok" /\ cmd = "restore"
          /\ \/ Exit("err")
             \/ Enter("stopping", "stop") /\ rc' \in {"ok", "err"}
    /\ ended' = IF cmd = "restore" /\ verdict.rc = "ok" THEN "no_argument" ELSE ended
    /\ UNCHANGED <<cmd, given, monitor, isRunning, log, verdict, mine, sess, data, world, victims>>

(* mutant: a backup or restore that failed returns at once. *)
Worked_ReturnsEarly ==
    /\ phase = "working" /\ pc = "back"
    /\ \/ /\ verdict.rc = "ok"
          /\ cmd \in RestoreCmds \/ (cmd = "backup_create" /\ ~isRunning)
          /\ rc' = verdict.rc
          /\ monitor' = (monitor /\ cmd # "backup_create")
          /\ Enter("stopping", "stop")
       \/ /\ verdict.rc # "ok" \/ ~(cmd \in RestoreCmds \/ (cmd = "backup_create" /\ ~isRunning))
          /\ Exit(IF verdict.rc = "ok" THEN "ok" ELSE "err") /\ UNCHANGED monitor
    /\ ended' = verdict.cause
    /\ UNCHANGED <<cmd, given, isRunning, begun, log, verdict, mine, sess, data, world, victims>>

Worked ==
    /\ phase = "working" /\ pc = "back"
    /\ \/ /\ verdict.rc # "throw"
          /\ cmd \in RestoreCmds \/ (cmd = "backup_create" /\ ~isRunning)
          /\ rc' = verdict.rc
          /\ monitor' = (monitor /\ cmd # "backup_create")
          /\ Enter("stopping", "stop")
       \/ /\ verdict.rc = "throw" \/ ~(cmd \in RestoreCmds \/ (cmd = "backup_create" /\ ~isRunning))
          /\ Exit(IF verdict.rc = "ok" THEN "ok" ELSE "err") /\ UNCHANGED monitor
    /\ ended' = verdict.cause
    /\ UNCHANGED <<cmd, given, isRunning, begun, log, verdict, mine, sess, data, world, victims>>

(* The result of the backup or restore is returned however the stop ends.  *)
Stopped ==
    /\ phase \in {"stopping", "killing"} /\ pc = "back"
    /\ IF phase = "stopping" /\ cmd = "backup_create" /\ verdict.rc = "err"
       THEN Enter("killing", "kill") /\ UNCHANGED rc
       ELSE Exit(IF verdict.rc = "throw" THEN "err" ELSE rc)
    /\ UNCHANGED <<cmd, given, monitor, isRunning, begun, ended, log, verdict, mine, sess, data,
                   world, victims>>

Main ==
    \/ Dispatch \/ CheckRunning \/ BackupStarted \/ RestoreStarted \/ Worked \/ Stopped

StopSteps ==
    \/ tgctl_shutdown_kill \/ Attach \/ tgctl_shutdown \/ WaitStop \/ KillPid \/ KillWait
    \/ tgctl_status

Tgctl == Main \/ Client \/ StartSteps \/ StopSteps

-----------------------------------------------------------------------------
(* The server and the other users, as far as this tgctl sees them. *)

Becomes(from, to) ==
    /\ server.state \in from
    /\ server' = [server EXCEPT !.state = to]
    /\ UNCHANGED <<main, log, pc, verdict, mine, sess, data, boots, victims>>

Booting ==
    \/ Becomes({"boot"}, "locked")
    \/ Becomes({"locked"}, "info")
    \/ Becomes({"info"}, "up")

(* exit(1) runs no destructors, so the lock file stays. *)
Failing ==
    \/ Becomes({"boot"}, "none")
    \/ Becomes({"boot", "locked", "info"}, "dead")
    \/ Becomes({"info"}, "failed")

Leaving ==
    \/ server.asked /\ Becomes({"up"}, "stop")
    \/ Becomes({"stop"}, "deactivated")
    \/ Becomes({"deactivated"}, "none")
    \/ Becomes({"failed"}, "dead")

Crash ==
    \/ Becomes({"locked", "info", "failed", "up", "stop", "deactivated"}, "dead")
    \/ Becomes({"boot"}, "none")

OtherStart ==
    /\ boots < MaxBoots
    /\ server.state \in {"none", "dead", "boot"}
    /\ boots' = boots + 1
    /\ server' = [state |-> "boot", id |-> boots', asked |-> FALSE]
    /\ UNCHANGED <<main, log, pc, verdict, mine, sess, data, victims>>

OtherStop ==
    /\ server.state \in {"info", "up", "failed"}
    /\ ~server.asked
    /\ server' = [server EXCEPT !.asked = TRUE]
    /\ UNCHANGED <<main, log, pc, verdict, mine, sess, data, boots, victims>>

Environment == phase # "exit" /\ (Booting \/ Failing \/ Leaving \/ Crash \/ OtherStart \/ OtherStop)

Next == Tgctl \/ Environment

Spec == Init /\ [][Next]_vars

(* A loop of tgctl ends, and a server that boots or stops gets on with it. *)
FairSpec ==
    /\ Spec
    /\ WF_vars(Tgctl)
    /\ WF_vars(phase # "exit" /\ (Booting \/ Failing))
    /\ WF_vars(phase # "exit" /\ Leaving)

-----------------------------------------------------------------------------
Reasons == {"absent", "none", "io", "server", "payload_broken", "connection_failure",
            "connection_timeout", "connection", "permission", "unknown", "internal",
            "authentication_failure", "invalid_argument", "invalid_status", "not_found",
            "another_process", "ambiguous", "timeout", "initialization"}

(* The variables have their types; so the exit code is one of the two that *)
(* main returns, whatever was thrown, and no more files are copied than    *)
(* there are.                                                              *)
TypeOK ==
    /\ cmd \in Cmds
    /\ {given, monitor, isRunning, begun} \subseteq BOOLEAN
    /\ \A i \in 1 .. Len(log) : log[i] \in {"start", "data", "progress", "success"} \cup Reasons
    /\ phase \in {"dispatch", "checked", "starting", "working", "stopping", "killing", "exit"}
    /\ verdict.rc \in {"none", "ok", "err", "throw"} /\ verdict.reason \in Reasons
    /\ rc \in {"none", "ok", "err"}
    /\ mine \in 0 .. MaxBoots
    /\ sess.state \in {"none", "queued", "open", "closed", "abandoned"}
    /\ copied \in Seq(BOOLEAN) /\ Len(copied) <= Files
    /\ server.state \in {"none", "boot", "locked", "info", "up", "failed", "stop", "deactivated", "dead"}
    /\ server.asked \in BOOLEAN
    /\ {server.id, boots, holding, restored, att} \cup victims \subseteq 0 .. MaxBoots

LastRecord == log[Len(log)]
Finished == log # << >> /\ LastRecord \notin {"start", "data", "progress"}

(* The paths on which tgctl fails and the file says success all the same.  *)
(* An altimeter command always fails.  Options that contradict each other  *)
(* set no reason, nor does a shutdown or kill that takes too long, throws  *)
(* with FLAGS_quiet, finds that another shutdown was faster or finds no    *)
(* pid to kill.  A restore that ends before it opens the file leaves the   *)
(* records of the start in it, and a file list that cannot be read sets no *)
(* reason.  The lock file of the server of a backup may go just as tgctl   *)
(* is about to kill that server, and the exception passes main.            *)
SaysSuccess ==
    \/ cmd \in AltimeterCmds
    \/ cmd \in {"session_shutdown", "shutdown"} /\ verdict.cause = "both_options"
    \/ cmd \in {"shutdown", "kill"} /\ verdict.cause \in {"timeout", "quiet"}
    \/ cmd = "shutdown" /\ verdict.cause = "outrun"
    \/ cmd = "kill" /\ verdict.cause = "no_pid"
    \/ cmd \in RestoreCmds /\ ended \in {"no_argument", "cancelled", "bad_file_list"}
    \/ cmd = "backup_create" /\ verdict.cause = "file_vanished"

(* However many functions of one command write to the monitor file in turn *)
(* (restore boots a server, restores, and stops the server), it holds the  *)
(* records of one of them: one start, first, and nothing after the finish. *)
OneRecordSet ==
    \A i \in 1 .. Len(log) :
        /\ log[i] = "start" <=> i = 1
        /\ log[i] \notin {"start", "data", "progress"} => i = Len(log)

(* The monitor file is well formed at every moment, and who reads that of  *)
(* a command that has ended learns what the exit code tells, on every path *)
(* but those of SaysSuccess.                                               *)
RecordTellsExit ==
    /\ OneRecordSet
    /\ phase = "exit" /\ given /\ cmd \notin {"credentials", "usage"} =>
        /\ rc = "ok" => Finished /\ LastRecord = "success"
        /\ rc = "err" /\ Finished /\ LastRecord = "success" => SaysSuccess

(* A backup that tgctl reports as done has every file, and every one was   *)
(* copied while the server that had been told BackupBegin held still for   *)
(* it and was later told BackupEnd, whatever crashed or was restarted.     *)
BackupCovered ==
    cmd = "backup_create" /\ rc = "ok" =>
        copied = [i \in 1 .. Files |-> TRUE] /\ holding = 0

(* backup create and restore boot a server of their own: one that others   *)
(* had running or started before it is never stopped, killed or restored   *)
(* into by them.  A server started after their own has died can be.        *)
HandsOff ==
    cmd = "backup_create" \/ cmd \in RestoreCmds =>
        \A s \in victims \cup ({restored} \ {0}) : begun /\ s >= mine

(* Ends that leave the maintenance server running: its start was given up, *)
(* an exception left tgctl_main, or restore had no subcommand.             *)
MayLeave ==
    \/ ~begun
    \/ verdict.rc = "throw"
    \/ cmd = "restore" /\ rc = "err" /\ victims = {}

(* Otherwise the maintenance server is gone, or was told to go, when tgctl *)
(* exits.                                                                  *)
NothingLeft ==
    phase = "exit" /\ cmd \in {"backup_create"} \cup RestoreCmds /\ mine # 0
    /\ server.id = mine /\ server.state \in {"locked", "info", "up", "failed"} /\ ~server.asked
        => MayLeave

(* A command has closed its session before it asks a server to stop, and   *)
(* when it exits; only a handshake ended by a foreign exception leaves one *)
(* that nobody closes.                                                     *)
SessionsClosed ==
    phase = "exit" \/ victims # {} =>
        \/ sess.state \in {"none", "closed"}
        \/ sess.state = "abandoned" /\ rc # "ok"

(* However it fails, a command leaves neither its server nor its session   *)
(* behind.                                                                 *)
CleanEnd == NothingLeft /\ SessionsClosed

(* What tgctl waits for without a timeout and can no longer happen: the    *)
(* answer to a connection request by a server that has gone, the reply of  *)
(* a server that another one has replaced, and under restore, which has no *)
(* timeout, the launch or the stop of a server that has gone otherwise.    *)
Stuck ==
    \/ pc = "queued" /\ ~(server.state = "up" /\ server.id = sess.with)
    \/ pc \in {"reply", "reply_end"} /\ server.id # sess.with
    \/ /\ cmd \in RestoreCmds
       /\ \/ pc = "wait_info" /\ server.state = "none"
          \/ pc = "wait_status" /\ server.state = "none"
          \/ pc = "wait_stop" /\ (server.state = "dead" \/ server.id \notin victims)

(* Every command ends, whatever the server and other users do, unless it   *)
(* is stuck.                                                               *)
CommandEnds == <>[](phase = "exit" \/ Stuck)
=============================================================================
