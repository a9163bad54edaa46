--------------------------- MODULE ServerLifecycle ---------------------------
(***************************************************************************)
(* The life of a tsurugidb process (server/backend.cpp) and the tgctl      *)
(* commands that control it (process/control.cpp), which meet in           *)
(*   - the pid file, locked with flock by proc_mutex (process/proc_mutex.h)*)
(*     and holding the pid of the server,                                  *)
(*   - the lock file of the database name, shm_mutex, and                  *)
(*   - the shared memory of the status information, found by its name.     *)
(*                                                                         *)
(* A file is a name that refers to an inode; locks and contents belong to  *)
(* the inode, so they survive the removal of the name.  Each system call   *)
(* is a step.  The signals of kill(2) are delivered at once.               *)
(***************************************************************************)
EXTENDS Integers

CONSTANTS
    Servers,        \* the server processes; an element stands for its pid
    Tgctls,         \* the tgctl processes: one runs its commands in sequence
    Commands,       \* the commands they run
    MaxCommands,    \* bound: commands in one behaviour
    BootErrors,     \* TRUE: setup or start of the framework may fail
    MaxCrashes,     \* bound: servers that die by themselves
    Timeouts        \* TRUE: a command may give up waiting

None == "none"
Files == {"pid", "db"}

(* A server opens each file once: <<p, f>> is the inode it creates if there is none. *)
Inodes == Servers \X Files
NoInode == <<None, None>>

CommandNames == {"start", "force", "shutdown", "kill", "status", "pid", "diagnostic"}

ASSUME LifecycleAssumption ==
    /\ Servers \cap Tgctls = {}
    /\ None \notin Servers \cup Tgctls
    /\ Commands \subseteq CommandNames
    /\ MaxCommands \in Nat /\ MaxCrashes \in Nat
    /\ BootErrors \in BOOLEAN /\ Timeouts \in BOOLEAN

VARIABLES
    path,       \* the inode a file name refers to, NoInode: there is no such file
    holder,     \* the process that has the flock of an inode
    content,    \* the pid written in an inode
    shmName,    \* the server whose status segment the name refers to
    seg,        \* the status segment of a server
    stage,      \* where a server is
    sfd,        \* its descriptors
    tg,         \* a tgctl process, see TgctlType
    commands,   \* commands run
    crashes,    \* crashes so far
    served      \* history: servers that were activated

fileVars == <<path, holder, content>>
serverVars == <<stage, sfd, seg, shmName, served, crashes>>
tgctlVars == <<tg, commands>>
vars == <<fileVars, serverVars, tgctlVars>>

Init ==
    /\ path = [f \in Files |-> NoInode]
    /\ holder = [i \in Inodes |-> None]
    /\ content = [i \in Inodes |-> None]
    /\ shmName = None
    /\ seg = [p \in Servers |-> [state |-> "initial", pid |-> None, request |-> FALSE]]
    /\ stage = [p \in Servers |-> "unborn"]
    /\ sfd = [p \in Servers |-> [f \in Files |-> NoInode]]
    /\ tg = [t \in Tgctls |->
                [cmd |-> "status", pc |-> "idle", ret |-> "begin", fd |-> NoInode, res |-> "no_file",
                 child |-> None, att |-> None, out |-> "absent"]]
    /\ commands = 0
    /\ crashes = 0
    /\ served = {}

(***************************************************************************)
(* The server: backend_main                                                *)
(***************************************************************************)
Alive(p) == stage[p] \notin {"unborn", "dead"}
Go(p, from, to) == stage[p] = from /\ stage' = [stage EXCEPT ![p] = to]

(* open(O_RDWR | O_CREAT) in the constructor of proc_mutex *)
Open(p, f) ==
    /\ LET i == IF path[f] = NoInode THEN <<p, f>> ELSE path[f]
       IN  /\ path' = [path EXCEPT ![f] = i]
           /\ sfd' = [sfd EXCEPT ![p][f] = i]
    /\ UNCHANGED <<holder, content>>

(* the kernel closes the descriptors of a process that ends *)
Release(p) == [i \in Inodes |-> IF holder[i] = p THEN None ELSE holder[i]]

OpenPidFile(p) ==
    /\ Go(p, "spawned", "opened")
    /\ Open(p, "pid")
    /\ UNCHANGED <<seg, shmName, served, crashes, tgctlVars>>

(***************************************************************************)
(* proc_mutex::lock truncates the file, then tries to lock it              *)
(***************************************************************************)
Truncate(p) ==
    /\ Go(p, "opened", "truncated")
    /\ content' = [content EXCEPT ![sfd[p]["pid"]] = None]
    /\ UNCHANGED <<path, holder, sfd, seg, shmName, served, crashes, tgctlVars>>

(* mutant: the result of flock is ignored *)
LockPidFile_Ignored(p) ==
    /\ stage[p] = "truncated"
    /\ stage' = [stage EXCEPT ![p] = "locked"]
    /\ holder' = [holder EXCEPT ![sfd[p]["pid"]] = p]
    /\ UNCHANGED <<path, content, sfd, seg, shmName, served, crashes, tgctlVars>>
LockPidFile(p) ==
    /\ stage[p] = "truncated"
    /\ IF holder[sfd[p]["pid"]] = None
       THEN /\ stage' = [stage EXCEPT ![p] = "locked"]
            /\ holder' = [holder EXCEPT ![sfd[p]["pid"]] = p]
       ELSE /\ stage' = [stage EXCEPT ![p] = "dead"]
            /\ UNCHANGED holder
    /\ UNCHANGED <<path, content, sfd, seg, shmName, served, crashes, tgctlVars>>

(* setup() of the framework creates the status segment, in place of an old one *)
CreateStatus(p) ==
    /\ Go(p, "locked", "created")
    /\ shmName' = p
    /\ UNCHANGED <<fileVars, sfd, seg, served, crashes, tgctlVars>>

StorePid(p) ==
    /\ Go(p, "created", "setup")
    /\ seg' = [seg EXCEPT ![p].pid = p]
    /\ UNCHANGED <<fileVars, sfd, shmName, served, crashes, tgctlVars>>

(* mutant: the pid is not written *)
FillContents_Missing(p) ==
    /\ Go(p, "setup", "filled")
    /\ UNCHANGED <<path, holder, content, sfd, seg, shmName, served, crashes, tgctlVars>>
FillContents(p) ==
    /\ Go(p, "setup", "filled")
    /\ content' = [content EXCEPT ![sfd[p]["pid"]] = p]
    /\ UNCHANGED <<path, holder, sfd, seg, shmName, served, crashes, tgctlVars>>

(* the constructor of shm_mutex; the second try of its catch clause has lost
   the file name and fails, too *)
OpenDbFile(p) ==
    /\ Go(p, "filled", "db_opened")
    /\ Open(p, "db")
    /\ UNCHANGED <<seg, shmName, served, crashes, tgctlVars>>

LockDbFile(p) ==
    /\ stage[p] = "db_opened"
    /\ IF holder[sfd[p]["db"]] = None
       THEN /\ stage' = [stage EXCEPT ![p] = "ready"]
            /\ holder' = [holder EXCEPT ![sfd[p]["db"]] = p]
            /\ seg' = [seg EXCEPT ![p].state = "ready"]
       ELSE /\ stage' = [stage EXCEPT ![p] = "failed"]
            /\ seg' = [seg EXCEPT ![p].state = "boot_error"]
            /\ UNCHANGED holder
    /\ UNCHANGED <<path, content, sfd, shmName, served, crashes, tgctlVars>>

(* setup() or start() fails: the state is set, then the process exits *)
BootError(p) ==
    /\ BootErrors
    /\ stage[p] \in {"setup", "ready"}
    /\ stage' = [stage EXCEPT ![p] = "failed"]
    /\ seg' = [seg EXCEPT ![p].state = "boot_error"]
    /\ UNCHANGED <<fileVars, sfd, shmName, served, crashes, tgctlVars>>

(* the altimeter could not be started: the state remains initial *)
AltimeterError(p) ==
    /\ BootErrors
    /\ Go(p, "setup", "failed")
    /\ UNCHANGED <<fileVars, sfd, seg, shmName, served, crashes, tgctlVars>>

Activate(p) ==
    /\ Go(p, "ready", "activated")
    /\ seg' = [seg EXCEPT ![p].state = "activated"]
    /\ served' = served \cup {p}
    /\ UNCHANGED <<fileVars, sfd, shmName, crashes, tgctlVars>>

(* wait_for_shutdown returns *)
Deactivate(p) ==
    /\ seg[p].request
    /\ Go(p, "activated", "deactivating")
    /\ seg' = [seg EXCEPT ![p].state = "deactivating"]
    /\ UNCHANGED <<fileVars, sfd, shmName, served, crashes, tgctlVars>>

Deactivated(p) ==
    /\ Go(p, "deactivating", "deactivated")
    /\ seg' = [seg EXCEPT ![p].state = "deactivated"]
    /\ UNCHANGED <<fileVars, sfd, shmName, served, crashes, tgctlVars>>

(* the destructor of proc_mutex: close, and then unlink *)
Close(p, f) ==
    /\ holder' = [holder EXCEPT ![sfd[p][f]] = None]
    /\ UNCHANGED <<path, content, sfd>>
(* mutant: the file stays *)
Unlink_Missing(f) ==
    UNCHANGED <<path, holder, content, sfd>>
Unlink(f) ==
    /\ path' = [path EXCEPT ![f] = NoInode]
    /\ UNCHANGED <<holder, content, sfd>>

(* backend_main returns: shm_mutex, the framework and the pid file go *)
CloseDbFile(p) ==
    /\ Go(p, "deactivated", "db_closed")
    /\ Close(p, "db")
    /\ UNCHANGED <<seg, shmName, served, crashes, tgctlVars>>
UnlinkDbFile(p) ==
    /\ Go(p, "db_closed", "db_removed")
    /\ Unlink("db")
    /\ UNCHANGED <<seg, shmName, served, crashes, tgctlVars>>
RemoveStatus(p) ==
    /\ Go(p, "db_removed", "removed")
    /\ shmName' = None
    /\ UNCHANGED <<fileVars, sfd, seg, served, crashes, tgctlVars>>
ClosePidFile(p) ==
    /\ Go(p, "removed", "closed")
    /\ Close(p, "pid")
    /\ UNCHANGED <<seg, shmName, served, crashes, tgctlVars>>
UnlinkPidFile(p) ==
    /\ Go(p, "closed", "dead")
    /\ Unlink("pid")
    /\ UNCHANGED <<seg, shmName, served, crashes, tgctlVars>>

(* exit(1) after a boot error: no destructor runs *)
Exit(p) ==
    /\ Go(p, "failed", "dead")
    /\ holder' = Release(p)
    /\ UNCHANGED <<path, content, sfd, seg, shmName, served, crashes, tgctlVars>>

Crash(p) ==
    /\ crashes < MaxCrashes
    /\ Alive(p)
    /\ stage' = [stage EXCEPT ![p] = "dead"]
    /\ holder' = Release(p)
    /\ crashes' = crashes + 1
    /\ UNCHANGED <<path, content, sfd, seg, shmName, served, tgctlVars>>

ServerStep(p) ==
    \/ OpenPidFile(p) \/ Truncate(p) \/ LockPidFile(p) \/ CreateStatus(p) \/ StorePid(p)
    \/ FillContents(p) \/ OpenDbFile(p) \/ LockDbFile(p) \/ Activate(p)
    \/ Deactivate(p) \/ Deactivated(p) \/ CloseDbFile(p) \/ UnlinkDbFile(p)
    \/ RemoveStatus(p) \/ ClosePidFile(p) \/ UnlinkPidFile(p) \/ Exit(p)

(***************************************************************************)
(* tgctl: a process is a record of                                         *)
(*   cmd    its command, pc and ret: where it is, and where it goes when   *)
(*          proc_mutex::check returns                                      *)
(*   fd     its descriptor of the pid file, NoInode: not opened            *)
(*   res    the result of the check                                        *)
(*   child  the server it has spawned, killed or named                     *)
(*   att    the server whose status segment it has attached                *)
(*   out    the outcome of its last command                                *)
(***************************************************************************)
At(t, l) == tg[t].pc = l
Goto(t, l) == tg' = [tg EXCEPT ![t].pc = l]
End(t, o) == tg' = [tg EXCEPT ![t].pc = "idle", ![t].out = o]
Calls(t, l, r) == tg' = [tg EXCEPT ![t].pc = l, ![t].ret = r]

(* the checks made by status_check_internal, which go on to the status *)
StatusChecks == {"begin", "confirm", "killed"}

Command(t) ==
    /\ At(t, "idle")
    /\ commands < MaxCommands
    /\ commands' = commands + 1
    /\ \E c \in Commands :
        /\ c \in {"start", "force"} => \E p \in Servers : stage[p] = "unborn"   \* bound
        /\ tg' = [tg EXCEPT ![t] = [
                 cmd |-> c, ret |-> "begin", fd |-> NoInode, res |-> "no_file",
                 child |-> None, att |-> None, out |-> "absent",
                 pc |-> IF c \in {"pid", "diagnostic", "force"} THEN "open" ELSE "construct"]]
    /\ UNCHANGED <<fileVars, serverVars>>

(***************************************************************************)
(* status_check_internal: construct the proc_mutex, without an exception   *)
(***************************************************************************)
Construct(t) ==
    /\ At(t, "construct")
    /\ tg' = [tg EXCEPT ![t].pc = "exists", ![t].fd = path["pid"]]
    /\ UNCHANGED <<fileVars, serverVars, commands>>

(***************************************************************************)
(* proc_mutex::check looks the name up, opens the file if it has to, tries *)
(* to lock it and unlocks it                                               *)
(***************************************************************************)
CheckExists(t) ==
    /\ At(t, "exists")
    /\ tg' = IF path["pid"] = NoInode
             THEN [tg EXCEPT ![t].pc = tg[t].ret, ![t].res = "no_file"]
             ELSE [tg EXCEPT ![t].pc = IF tg[t].fd = NoInode THEN "reopen" ELSE "trylock"]
    /\ UNCHANGED <<fileVars, serverVars, commands>>

CheckOpens(t) ==
    /\ At(t, "reopen")
    /\ tg' = IF path["pid"] = NoInode
             THEN [tg EXCEPT ![t].pc = tg[t].ret, ![t].res = "error"]
             ELSE [tg EXCEPT ![t].pc = "trylock", ![t].fd = path["pid"]]
    /\ UNCHANGED <<fileVars, serverVars, commands>>

CheckLocks(t) ==
    /\ At(t, "trylock")
    /\ IF holder[tg[t].fd] = None
       THEN /\ holder' = [holder EXCEPT ![tg[t].fd] = t]
            /\ Goto(t, "unlock")
       ELSE /\ tg' = [tg EXCEPT ![t].pc = IF tg[t].ret \in StatusChecks THEN "whole" ELSE tg[t].ret,
                       ![t].res = "locked"]
            /\ UNCHANGED holder
    /\ UNCHANGED <<path, content, serverVars, commands>>

CheckUnlocks(t) ==
    /\ At(t, "unlock")
    /\ holder' = [holder EXCEPT ![tg[t].fd] = None]
    /\ tg' = [tg EXCEPT ![t].pc = tg[t].ret, ![t].res = "not_locked"]
    /\ UNCHANGED <<path, content, serverVars, commands>>

(* attach the status segment and read the state; or fail check_count_status times *)
Whole(t) ==
    /\ At(t, "whole")
    /\ tg' = [tg EXCEPT ![t].pc = tg[t].ret,
               ![t].res = IF shmName = None THEN "count_over" ELSE seg[shmName].state]
    /\ UNCHANGED <<fileVars, serverVars, commands>>

(***************************************************************************)
(* The commands once the status is known                                   *)
(***************************************************************************)
Booting == {"initial", "ready"}

StatusAnswer(r) ==
    CASE r \in {"no_file", "deactivated"}     -> "inactive"
      [] r \in Booting                        -> "booting_up"
      [] r = "activated"                      -> "running"
      [] r = "deactivating"                   -> "shutting_down"
      [] r = "not_locked"                     -> "unknown"
      [] OTHER                                -> "err"

(* tgctl start is refused *)
Refused(r) == r \in Booting \cup {"activated", "deactivating"}

(* tgctl shutdown and kill have nothing to do *)
NotRunning(r) == r \in {"no_file", "not_locked", "deactivated"}

Begin(t) ==
    /\ At(t, "begin")
    /\ LET r == tg[t].res IN
       \/ tg[t].cmd = "status" /\ End(t, StatusAnswer(r))
       \/ tg[t].cmd \in {"start", "force"} /\ IF Refused(r) THEN End(t, "err") ELSE Goto(t, "spawn")
       \/ /\ tg[t].cmd \in {"shutdown", "kill"}
          /\ IF NotRunning(r) THEN End(t, "ok") ELSE Goto(t, "open")
    /\ UNCHANGED <<fileVars, serverVars, commands>>

(* construct the proc_mutex of a file that has to exist *)
OpenExisting(t) ==
    /\ At(t, "open")
    /\ LET next == CASE tg[t].cmd = "shutdown"          -> "attach"
                     [] tg[t].cmd \in {"kill", "force"} -> "victim"
                     [] OTHER                           -> "exists"
       IN  tg' = IF path["pid"] = NoInode
                 THEN [tg EXCEPT ![t].pc = "idle", ![t].out = "err"]
                 ELSE [tg EXCEPT ![t].pc = next, ![t].ret = "getpid", ![t].fd = path["pid"]]
    /\ UNCHANGED <<fileVars, serverVars, commands>>

(***************************************************************************)
(* tgctl_start                                                             *)
(***************************************************************************)
Spawn(t) ==
    /\ At(t, "spawn")
    /\ \E p \in Servers :
        /\ Go(p, "unborn", "spawned")
        /\ tg' = [tg EXCEPT ![t].pc = "alive", ![t].fd = NoInode, ![t].child = p]
    /\ UNCHANGED <<fileVars, sfd, seg, shmName, served, crashes, commands>>

(* kill(child_pid, 0) *)
ChildAlive(t) ==
    /\ At(t, "alive")
    /\ IF Alive(tg[t].child) THEN Goto(t, "mutex") ELSE End(t, "err")
    /\ UNCHANGED <<fileVars, serverVars, commands>>

StartOpens(t) ==
    /\ At(t, "mutex")
    /\ LET f == IF tg[t].fd = NoInode THEN path["pid"] ELSE tg[t].fd
       IN  tg' = [tg EXCEPT ![t].pc = IF f = NoInode THEN "alive" ELSE "exists", ![t].ret = "pidfile", ![t].fd = f]
    /\ UNCHANGED <<fileVars, serverVars, commands>>

(* proc_mutex::pid reads the file by its name; the name may be gone by now *)
PidFile == IF path["pid"] = NoInode THEN None ELSE content[path["pid"]]
PidFileThrows == path["pid"] = NoInode

PidInFile(t) ==
    /\ At(t, "pidfile")
    /\ \/ tg[t].res = "no_file" /\ Goto(t, "alive")
       \/ tg[t].res # "no_file" /\ PidFileThrows /\ End(t, "err")
       \/ /\ tg[t].res # "no_file" /\ ~PidFileThrows
          /\ CASE PidFile = tg[t].child                       -> Goto(t, "attach")
               [] PidFile # tg[t].child /\ PidFile # None /\ Alive(PidFile) -> End(t, "err")
               [] OTHER                                       -> Goto(t, "alive")
    /\ UNCHANGED <<fileVars, serverVars, commands>>

(* start waits for the segment, shutdown fails without it *)
Attach(t) ==
    /\ At(t, "attach")
    /\ \/ /\ shmName # None
          /\ tg' = [tg EXCEPT ![t].pc = IF tg[t].cmd = "shutdown" THEN "request" ELSE "pidstatus",
                              ![t].att = shmName]
       \/ shmName = None /\ tg[t].cmd = "shutdown" /\ End(t, "err")
    /\ UNCHANGED <<fileVars, serverVars, commands>>

PidInStatus(t) ==
    /\ At(t, "pidstatus")
    /\ seg[tg[t].att].pid # None
    /\ IF seg[tg[t].att].pid = tg[t].child THEN Calls(t, "construct", "confirm") ELSE End(t, "err")
    /\ UNCHANGED <<fileVars, serverVars, commands>>

(* mutant: ready is good enough *)
Confirm_Ready(t) ==
    /\ At(t, "confirm")
    /\ LET r == tg[t].res IN
       CASE r \in {"ready", "activated"}                -> End(t, "ok")
         [] r \in {"no_file", "initial", "count_over"}  -> Goto(t, "pidstatus")
         [] OTHER                                       -> End(t, "err")
    /\ UNCHANGED <<fileVars, serverVars, commands>>
Confirm(t) ==
    /\ At(t, "confirm")
    /\ LET r == tg[t].res IN
       CASE r = "activated"                                     -> End(t, "ok")
         [] r \in {"no_file", "initial", "ready", "count_over"} -> Goto(t, "pidstatus")
         [] OTHER                                               -> End(t, "err")
    /\ UNCHANGED <<fileVars, serverVars, commands>>

(***************************************************************************)
(* tgctl_shutdown                                                          *)
(***************************************************************************)
RequestShutdown(t) ==
    /\ At(t, "request")
    /\ LET p == tg[t].att IN
       IF seg[p].request
       THEN End(t, "err") /\ UNCHANGED seg
       ELSE seg' = [seg EXCEPT ![p].request = TRUE] /\ Calls(t, "exists", "gone")
    /\ UNCHANGED <<fileVars, stage, sfd, shmName, served, crashes, commands>>

Gone(t) ==
    /\ At(t, "gone")
    /\ IF tg[t].res = "no_file" THEN End(t, "ok") ELSE Goto(t, "exists")
    /\ UNCHANGED <<fileVars, serverVars, commands>>

(***************************************************************************)
(* tgctl_kill.  A file whose contents cannot be used is an error that it   *)
(* returns; of one that has gone proc_mutex::pid throws, uncaught.         *)
(* Nothing is killed in either case, and "err" stands for both: the        *)
(* ways in which the process then ends are told apart in Commands.         *)
(***************************************************************************)
Kill(t) ==
    /\ At(t, "victim")
    /\ IF PidFile = None
       THEN End(t, "err") /\ UNCHANGED <<stage, holder>>
       ELSE /\ stage' = [stage EXCEPT ![PidFile] = "dead"]
            /\ holder' = Release(PidFile)
            /\ tg' = [tg EXCEPT ![t].pc = "construct", ![t].ret = "killed", ![t].child = PidFile]
    /\ UNCHANGED <<path, content, sfd, seg, shmName, served, crashes, commands>>

(* the loop until the lock is released, then unlink *)
Killed(t) ==
    /\ At(t, "killed")
    /\ IF tg[t].res = "not_locked"
       THEN path' = [path EXCEPT !["pid"] = NoInode] /\ Goto(t, "remains")
       ELSE Goto(t, "construct") /\ UNCHANGED path
    /\ UNCHANGED <<holder, content, serverVars, commands>>

(* the status segment is attached, or this throws *)
AttachRemains(t) ==
    /\ At(t, "remains")
    /\ IF shmName = None THEN End(t, "err") ELSE Goto(t, "delete")
    /\ UNCHANGED <<fileVars, serverVars, commands>>

(* mutant: the segment stays *)
ForceDelete_Kept(t) ==
    /\ At(t, "delete")
    /\ IF tg[t].cmd = "kill" THEN End(t, "ok") ELSE Calls(t, "construct", "begin")
    /\ UNCHANGED <<fileVars, serverVars, commands>>
ForceDelete(t) ==
    /\ At(t, "delete")
    /\ shmName' = None
    /\ IF tg[t].cmd = "kill" THEN End(t, "ok") ELSE Calls(t, "construct", "begin")
    /\ UNCHANGED <<fileVars, stage, sfd, seg, served, crashes, commands>>

(***************************************************************************)
(* get_pid loops until the file is locked and filled; diagnostic then      *)
(* sends SIGHUP, which ends a server that has not installed its handler    *)
(***************************************************************************)
NoHandler == {"filled", "db_opened", "ready", "failed"}

GetPid(t) ==
    /\ At(t, "getpid")
    /\ \/ tg[t].res # "locked" /\ Goto(t, "exists") /\ UNCHANGED <<stage, holder>>
       \/ tg[t].res = "locked" /\ PidFileThrows /\ End(t, "err") /\ UNCHANGED <<stage, holder>>
       \/ /\ tg[t].res = "locked" /\ ~PidFileThrows /\ PidFile = None
          /\ Goto(t, "exists") /\ UNCHANGED <<stage, holder>>
       \/ /\ tg[t].res = "locked" /\ PidFile # None
          /\ tg' = [tg EXCEPT ![t].pc = "idle", ![t].out = "ok", ![t].child = PidFile]
          /\ IF tg[t].cmd = "diagnostic" /\ stage[PidFile] \in NoHandler
             THEN stage' = [stage EXCEPT ![PidFile] = "dead"] /\ holder' = Release(PidFile)
             ELSE UNCHANGED <<stage, holder>>
    /\ UNCHANGED <<path, content, sfd, seg, shmName, served, crashes, commands>>

(* check_count is used up *)
GiveUp(t) ==
    /\ Timeouts
    /\ \/ tg[t].pc \in {"alive", "pidstatus"}
       \/ At(t, "attach") /\ tg[t].cmd # "shutdown"
       \/ At(t, "exists") /\ tg[t].ret = "gone"
       \/ At(t, "construct") /\ tg[t].ret = "killed"
    /\ End(t, "err")
    /\ UNCHANGED <<fileVars, serverVars, commands>>

TgctlStep(t) ==
    \/ Construct(t) \/ CheckExists(t) \/ CheckOpens(t) \/ CheckLocks(t) \/ CheckUnlocks(t)
    \/ Whole(t) \/ Begin(t) \/ OpenExisting(t)
    \/ Spawn(t) \/ ChildAlive(t) \/ StartOpens(t) \/ PidInFile(t) \/ Attach(t) \/ PidInStatus(t) \/ Confirm(t)
    \/ RequestShutdown(t) \/ Gone(t)
    \/ Kill(t) \/ Killed(t) \/ AttachRemains(t) \/ ForceDelete(t)
    \/ GetPid(t)

Next ==
    \/ \E p \in Servers : ServerStep(p) \/ BootError(p) \/ AltimeterError(p) \/ Crash(p)
    \/ \E t \in Tgctls : Command(t) \/ TgctlStep(t) \/ GiveUp(t)

Spec == Init /\ [][Next]_vars

(* the processes are scheduled; whether a boot fails or a process crashes is open *)
Fairness ==
    /\ \A p \in Servers : WF_vars(ServerStep(p))
    /\ \A t \in Tgctls : WF_vars(TgctlStep(t))

FairSpec == Spec /\ Fairness

-----------------------------------------------------------------------------
Stages == {"unborn", "spawned", "opened", "truncated", "locked", "created", "setup", "filled",
           "db_opened", "ready", "activated", "deactivating", "deactivated", "db_closed",
           "db_removed", "removed", "closed", "failed", "dead"}
States == {"initial", "ready", "activated", "deactivating", "deactivated", "boot_error"}
TgctlPcs ==
    {"idle", "construct", "exists", "reopen", "trylock", "unlock", "whole", "begin", "open",
     "spawn", "alive", "mutex", "pidfile", "attach", "pidstatus", "confirm", "request",
     "gone", "victim", "killed", "remains", "delete", "getpid"}
TgctlRets == {"begin", "confirm", "killed", "pidfile", "gone", "getpid"}
TgctlResults == States \cup {"no_file", "not_locked", "locked", "error", "count_over"}
TgctlOuts == {"absent", "ok", "err", "inactive", "booting_up", "running", "shutting_down", "unknown"}
TgctlType ==
    [cmd : CommandNames, pc : TgctlPcs, ret : TgctlRets, fd : Inodes \cup {NoInode}, res : TgctlResults,
     child : Servers \cup {None}, att : Servers \cup {None}, out : TgctlOuts]

(* The variables have their types. *)
TypeOK ==
    /\ path \in [Files -> Inodes \cup {NoInode}]
    /\ holder \in [Inodes -> Servers \cup Tgctls \cup {None}]
    /\ content \in [Inodes -> Servers \cup {None}]
    /\ shmName \in Servers \cup {None}
    /\ seg \in [Servers -> [state : States, pid : Servers \cup {None}, request : BOOLEAN]]
    /\ stage \in [Servers -> Stages]
    /\ sfd \in [Servers -> [Files -> Inodes \cup {NoInode}]]
    /\ tg \in [Tgctls -> TgctlType]
    /\ commands \in 0 .. MaxCommands
    /\ crashes \in 0 .. MaxCrashes
    /\ served \subseteq Servers

(* a tgctl has just ended command c with outcome o *)
Ended(t, c, o) == At(t, "idle") /\ tg[t].cmd = c /\ tg[t].out = o
Running(p) == stage[p] = "activated"

(***************************************************************************)
(* When tgctl start prints "successfully launched tsurugidb", the server   *)
(* it has spawned has been activated, not merely some other server.        *)
(***************************************************************************)
StartTruth ==
    \A t \in Tgctls, c \in {"start", "force"} : Ended(t, c, "ok") => tg[t].child \in served

(***************************************************************************)
(* When tgctl shutdown returns ok, whether it has waited for the pid file  *)
(* to go or found that no server was running, no server serves or is on    *)
(* its way to: what is left of one has only its destructors to run.        *)
(***************************************************************************)
Ending == {"deactivated", "db_closed", "db_removed", "removed", "closed", "failed"}
ShutdownTruth ==
    \A t \in Tgctls : Ended(t, "shutdown", "ok") => \A p \in Servers : Alive(p) => stage[p] \in Ending

(***************************************************************************)
(* When tgctl kill has killed a server and returns ok, the server is dead, *)
(* and neither its pid file nor its status segment is left behind.         *)
(***************************************************************************)
KillTruth ==
    \A t \in Tgctls : Ended(t, "kill", "ok") /\ tg[t].child # None =>
        /\ ~Alive(tg[t].child)
        /\ path["pid"] = NoInode
        /\ shmName = None

(***************************************************************************)
(* tgctl status never calls a running server INACTIVE or UNKNOWN: while a  *)
(* server serves, its name, its lock and its segment can be found.         *)
(***************************************************************************)
StatusTruth ==
    \A t \in Tgctls, o \in {"inactive", "unknown"} : Ended(t, "status", o) => \A p \in Servers : ~Running(p)

(***************************************************************************)
(* What a command of one administrator reports is true, whichever commands *)
(* went before it and whatever a crashed server has left behind.           *)
(***************************************************************************)
ReportTruth == StartTruth /\ ShutdownTruth /\ KillTruth /\ StatusTruth

(***************************************************************************)
(* A server that serves can be found: the name of the pid file refers to   *)
(* the file it has locked, its pid is in there, and the name of the status *)
(* segment refers to its own.  Every command starts from these, and there  *)
(* is at most one such server.                                             *)
(***************************************************************************)
Findable ==
    \A p \in Servers : Running(p) =>
        path["pid"] = sfd[p]["pid"] /\ PidFile = p /\ shmName = p

(***************************************************************************)
(* A server has the lock of its pid file from proc_mutex::lock until the   *)
(* destructor, and that of the database name while it is ready or serves,  *)
(* whatever tgctl processes lock and unlock in between to look at it.      *)
(***************************************************************************)
Ready == {"ready", "activated", "deactivating", "deactivated"}
Locked == Ready \cup {"locked", "created", "setup", "filled", "db_opened", "db_closed", "db_removed", "removed"}
LocksKept ==
    \A p \in Servers :
        /\ stage[p] \in Locked => holder[sfd[p]["pid"]] = p
        /\ stage[p] \in Ready => holder[sfd[p]["db"]] = p

(***************************************************************************)
(* RUNNING and "successfully launched" are never made up: some server has  *)
(* been activated by then, even if the answer is about another one.        *)
(***************************************************************************)
AnswerGrounded ==
    \A t \in Tgctls :
        \/ Ended(t, "status", "running") \/ Ended(t, "start", "ok") \/ Ended(t, "force", "ok")
        => served # {}

(***************************************************************************)
(* tgctl kill finds the pid of a server that is running: while one is, the *)
(* pid file that tgctl_kill is about to read is not empty.                 *)
(***************************************************************************)
KillWorks ==
    \A t \in Tgctls : At(t, "victim") /\ PidFile = None => \A p \in Servers : ~Running(p)

(***************************************************************************)
(* Every command returns, even if no timeout is set, as long as no server  *)
(* dies under it; only pid and diagnostic poll until there is a server.    *)
(***************************************************************************)
CommandReturns ==
    \A t \in Tgctls :
        tg[t].pc # "idle" /\ tg[t].cmd \notin {"pid", "diagnostic"} ~> tg[t].pc = "idle" \/ crashes > 0
=============================================================================
