------------------------ MODULE ServerLifecycleProofs ------------------------
(***************************************************************************)
(* Proofs about ServerLifecycle, for any number of servers, tgctl          *)
(* processes, commands and crashes, with and without boot errors and       *)
(* timeouts: the types, the locks of the servers, and that an answer of    *)
(* tgctl that a server runs is never made up.                              *)
(***************************************************************************)
EXTENDS ServerLifecycle, TLAPS

(* The prover of the leaves that do not name one. *)
USE Zenon

USE DEF None, Files, States, Stages

(***************************************************************************)
(* Type correctness                                                        *)
(***************************************************************************)

(* A new inode is an inode. *)
LEMMA InodeOf == ASSUME NEW p \in Servers, NEW f \in Files PROVE <<p, f>> \in Inodes
  BY DEF Inodes

(* The status segments stay what they are when a state is stored. *)
SegType == [Servers -> [state : States, pid : Servers \cup {None}, request : BOOLEAN]]

(* Storing a state keeps the type of the segments.                         *)
LEMMA StoreState ==
  ASSUME NEW g \in SegType, NEW p \in Servers, NEW st \in States
  PROVE  [g EXCEPT ![p].state = st] \in SegType
  BY DEF SegType

(* So does raising the shutdown request.                                   *)
LEMMA StoreRequest ==
  ASSUME NEW g \in SegType, NEW p \in Servers
  PROVE  [g EXCEPT ![p].request = TRUE] \in SegType
  BY DEF SegType

(* A step of a server keeps the types. *)
LEMMA ServerTypes ==
  ASSUME TypeOK, NEW p \in Servers,
         ServerStep(p) \/ BootError(p) \/ AltimeterError(p) \/ Crash(p)
  PROVE  TypeOK'
  <1> USE LifecycleAssumption DEF TypeOK, fileVars, tgctlVars, Go
  <1>1. CASE OpenPidFile(p)
    BY <1>1, InodeOf DEF OpenPidFile, Open
  <1>2. CASE Truncate(p)
    BY <1>2 DEF Truncate
  <1>3. CASE LockPidFile(p)
    <2>1. PICK to \in Stages : stage' = [stage EXCEPT ![p] = to]
      BY <1>3 DEF LockPidFile
    <2>2. holder' = holder \/ holder' = [holder EXCEPT ![sfd[p]["pid"]] = p]
      BY <1>3 DEF LockPidFile
    <2>3. stage' \in [Servers -> Stages] /\ holder' \in [Inodes -> Servers \cup Tgctls \cup {None}]
      BY <2>1, <2>2, SMT
    <2>4. UNCHANGED <<path, content, sfd, seg, shmName, served, crashes, tgctlVars>>
      BY <1>3 DEF LockPidFile
    <2> QED BY <2>3, <2>4
  <1>4. CASE CreateStatus(p)
    BY <1>4 DEF CreateStatus
  <1>5. CASE StorePid(p)
    BY <1>5, SMT DEF StorePid
  <1>6. CASE FillContents(p)
    BY <1>6 DEF FillContents
  <1>7. CASE OpenDbFile(p)
    BY <1>7, InodeOf DEF OpenDbFile, Open
  <1>8. CASE LockDbFile(p)
    <2>1. PICK st \in States : seg' = [seg EXCEPT ![p].state = st]
      BY <1>8 DEF LockDbFile
    <2>2. seg' \in SegType
      BY <2>1, StoreState DEF SegType
    <2>3. PICK to \in {"ready", "failed"} : stage' = [stage EXCEPT ![p] = to]
      BY <1>8 DEF LockDbFile
    <2>4. holder' = holder \/ holder' = [holder EXCEPT ![sfd[p]["db"]] = p]
      BY <1>8 DEF LockDbFile
    <2>5. stage' \in [Servers -> Stages] /\ holder' \in [Inodes -> Servers \cup Tgctls \cup {None}]
      BY <2>3, <2>4, SMT
    <2> QED BY <1>8, <2>2, <2>5 DEF LockDbFile, SegType
  <1>9. CASE Activate(p)
    <2>1. seg' \in SegType
      BY <1>9, StoreState DEF Activate, SegType
    <2> QED BY <1>9, <2>1 DEF Activate, SegType
  <1>10. CASE Deactivate(p)
    <2>1. seg' \in SegType
      BY <1>10, StoreState DEF Deactivate, SegType
    <2> QED BY <1>10, <2>1 DEF Deactivate, SegType
  <1>11. CASE Deactivated(p)
    <2>1. seg' \in SegType
      BY <1>11, StoreState DEF Deactivated, SegType
    <2> QED BY <1>11, <2>1 DEF Deactivated, SegType
  <1>12. CASE CloseDbFile(p) \/ ClosePidFile(p)
    BY <1>12 DEF CloseDbFile, ClosePidFile, Close
  <1>13. CASE UnlinkDbFile(p) \/ UnlinkPidFile(p)
    <2>1. PICK f \in Files : path' = [path EXCEPT ![f] = NoInode]
      BY <1>13 DEF UnlinkDbFile, UnlinkPidFile, Unlink
    <2>2. PICK to \in Stages : stage' = [stage EXCEPT ![p] = to]
      BY <1>13 DEF UnlinkDbFile, UnlinkPidFile
    <2>3. path' \in [Files -> Inodes \cup {NoInode}] /\ stage' \in [Servers -> Stages]
      BY <2>1, <2>2
    <2>4. UNCHANGED <<holder, content, sfd, seg, shmName, served, crashes, tgctlVars>>
      BY <1>13 DEF UnlinkDbFile, UnlinkPidFile, Unlink
    <2> QED BY <2>3, <2>4
  <1>14. CASE RemoveStatus(p)
    BY <1>14 DEF RemoveStatus
  <1>15. CASE Exit(p)
    BY <1>15 DEF Exit, Release
  <1>16. CASE BootError(p)
    BY <1>16, SMT DEF BootError
  <1>17. CASE AltimeterError(p)
    BY <1>17 DEF AltimeterError
  <1>18. CASE Crash(p)
    BY <1>18, SMT DEF Crash, Release
  <1> QED BY <1>1, <1>2, <1>3, <1>4, <1>5, <1>6, <1>7, <1>8, <1>9, <1>10, <1>11, <1>12,
             <1>13, <1>14, <1>15, <1>16, <1>17, <1>18 DEF ServerStep

(***************************************************************************)
(* A tgctl process stays what it is when some of its fields are stored.    *)
(***************************************************************************)
TgType == [Tgctls -> TgctlType]

(* Storing a value of its type into a field of one tgctl keeps the type of *)
(* tg: where it is,                                                        *)
LEMMA Store_pc ==
  ASSUME NEW g \in TgType, NEW t \in Tgctls, NEW x \in TgctlPcs
  PROVE  [g EXCEPT ![t].pc = x] \in TgType
  BY DEF TgType, TgctlType

(* where it returns to,                                                    *)
LEMMA Store_ret ==
  ASSUME NEW g \in TgType, NEW t \in Tgctls, NEW x \in TgctlRets
  PROVE  [g EXCEPT ![t].ret = x] \in TgType
  BY DEF TgType, TgctlType

(* the lock file that it has open,                                         *)
LEMMA Store_fd ==
  ASSUME NEW g \in TgType, NEW t \in Tgctls, NEW x \in Inodes \cup {NoInode}
  PROVE  [g EXCEPT ![t].fd = x] \in TgType
  BY DEF TgType, TgctlType

(* the lock result,                                                        *)
LEMMA Store_res ==
  ASSUME NEW g \in TgType, NEW t \in Tgctls, NEW x \in TgctlResults
  PROVE  [g EXCEPT ![t].res = x] \in TgType
  BY DEF TgType, TgctlType

(* the server that it has launched,                                        *)
LEMMA Store_child ==
  ASSUME NEW g \in TgType, NEW t \in Tgctls, NEW x \in Servers \cup {None}
  PROVE  [g EXCEPT ![t].child = x] \in TgType
  BY DEF TgType, TgctlType

(* the segment that it has attached,                                       *)
LEMMA Store_att ==
  ASSUME NEW g \in TgType, NEW t \in Tgctls, NEW x \in Servers \cup {None}
  PROVE  [g EXCEPT ![t].att = x] \in TgType
  BY DEF TgType, TgctlType

(* and its outcome.                                                        *)
LEMMA Store_out ==
  ASSUME NEW g \in TgType, NEW t \in Tgctls, NEW x \in TgctlOuts
  PROVE  [g EXCEPT ![t].out = x] \in TgType
  BY DEF TgType, TgctlType

(* The same of the combinations of fields that the actions of a tgctl      *)
(* store: its place,                                                       *)
LEMMA Stores_pc ==
  ASSUME tg \in TgType, NEW t \in Tgctls, NEW pc \in TgctlPcs,
         tg' = [tg EXCEPT ![t].pc = pc]
  PROVE  tg' \in TgType
  BY Store_pc

(* a call,                                                                 *)
LEMMA Stores_pc_ret ==
  ASSUME tg \in TgType, NEW t \in Tgctls, NEW pc \in TgctlPcs, NEW ret \in TgctlRets,
         tg' = [tg EXCEPT ![t].pc = pc, ![t].ret = ret]
  PROVE  tg' \in TgType
  <1>1. PICK g1 \in TgType : g1 = [tg EXCEPT ![t].pc = pc]
    BY Store_pc
  <1>2. PICK g2 \in TgType : g2 = [g1 EXCEPT ![t].ret = ret]
    BY Store_ret
  <1> QED BY <1>1, <1>2

(* a call with a file,                                                     *)
LEMMA Stores_pc_ret_fd ==
  ASSUME tg \in TgType, NEW t \in Tgctls, NEW pc \in TgctlPcs, NEW ret \in TgctlRets, NEW fd \in Inodes \cup {NoInode},
         tg' = [tg EXCEPT ![t].pc = pc, ![t].ret = ret, ![t].fd = fd]
  PROVE  tg' \in TgType
  <1>1. PICK g1 \in TgType : g1 = [tg EXCEPT ![t].pc = pc]
    BY Store_pc
  <1>2. PICK g2 \in TgType : g2 = [g1 EXCEPT ![t].ret = ret]
    BY Store_ret
  <1>3. PICK g3 \in TgType : g3 = [g2 EXCEPT ![t].fd = fd]
    BY Store_fd
  <1> QED BY <1>1, <1>2, <1>3

(* a call with a child,                                                    *)
LEMMA Stores_pc_ret_child ==
  ASSUME tg \in TgType, NEW t \in Tgctls, NEW pc \in TgctlPcs, NEW ret \in TgctlRets, NEW child \in Servers \cup {None},
         tg' = [tg EXCEPT ![t].pc = pc, ![t].ret = ret, ![t].child = child]
  PROVE  tg' \in TgType
  <1>1. PICK g1 \in TgType : g1 = [tg EXCEPT ![t].pc = pc]
    BY Store_pc
  <1>2. PICK g2 \in TgType : g2 = [g1 EXCEPT ![t].ret = ret]
    BY Store_ret
  <1>3. PICK g3 \in TgType : g3 = [g2 EXCEPT ![t].child = child]
    BY Store_child
  <1> QED BY <1>1, <1>2, <1>3

(* a file opened or closed,                                                *)
LEMMA Stores_pc_fd ==
  ASSUME tg \in TgType, NEW t \in Tgctls, NEW pc \in TgctlPcs, NEW fd \in Inodes \cup {NoInode},
         tg' = [tg EXCEPT ![t].pc = pc, ![t].fd = fd]
  PROVE  tg' \in TgType
  <1>1. PICK g1 \in TgType : g1 = [tg EXCEPT ![t].pc = pc]
    BY Store_pc
  <1>2. PICK g2 \in TgType : g2 = [g1 EXCEPT ![t].fd = fd]
    BY Store_fd
  <1> QED BY <1>1, <1>2

(* a file and a child,                                                     *)
LEMMA Stores_pc_fd_child ==
  ASSUME tg \in TgType, NEW t \in Tgctls, NEW pc \in TgctlPcs, NEW fd \in Inodes \cup {NoInode}, NEW child \in Servers \cup {None},
         tg' = [tg EXCEPT ![t].pc = pc, ![t].fd = fd, ![t].child = child]
  PROVE  tg' \in TgType
  <1>1. PICK g1 \in TgType : g1 = [tg EXCEPT ![t].pc = pc]
    BY Store_pc
  <1>2. PICK g2 \in TgType : g2 = [g1 EXCEPT ![t].fd = fd]
    BY Store_fd
  <1>3. PICK g3 \in TgType : g3 = [g2 EXCEPT ![t].child = child]
    BY Store_child
  <1> QED BY <1>1, <1>2, <1>3

(* a lock result,                                                          *)
LEMMA Stores_pc_res ==
  ASSUME tg \in TgType, NEW t \in Tgctls, NEW pc \in TgctlPcs, NEW res \in TgctlResults,
         tg' = [tg EXCEPT ![t].pc = pc, ![t].res = res]
  PROVE  tg' \in TgType
  <1>1. PICK g1 \in TgType : g1 = [tg EXCEPT ![t].pc = pc]
    BY Store_pc
  <1>2. PICK g2 \in TgType : g2 = [g1 EXCEPT ![t].res = res]
    BY Store_res
  <1> QED BY <1>1, <1>2

(* a segment attached or let go,                                           *)
LEMMA Stores_pc_att ==
  ASSUME tg \in TgType, NEW t \in Tgctls, NEW pc \in TgctlPcs, NEW att \in Servers \cup {None},
         tg' = [tg EXCEPT ![t].pc = pc, ![t].att = att]
  PROVE  tg' \in TgType
  <1>1. PICK g1 \in TgType : g1 = [tg EXCEPT ![t].pc = pc]
    BY Store_pc
  <1>2. PICK g2 \in TgType : g2 = [g1 EXCEPT ![t].att = att]
    BY Store_att
  <1> QED BY <1>1, <1>2

(* an outcome,                                                             *)
LEMMA Stores_pc_out ==
  ASSUME tg \in TgType, NEW t \in Tgctls, NEW pc \in TgctlPcs, NEW out \in TgctlOuts,
         tg' = [tg EXCEPT ![t].pc = pc, ![t].out = out]
  PROVE  tg' \in TgType
  <1>1. PICK g1 \in TgType : g1 = [tg EXCEPT ![t].pc = pc]
    BY Store_pc
  <1>2. PICK g2 \in TgType : g2 = [g1 EXCEPT ![t].out = out]
    BY Store_out
  <1> QED BY <1>1, <1>2

(* an outcome and the child given up.                                      *)
LEMMA Stores_pc_out_child ==
  ASSUME tg \in TgType, NEW t \in Tgctls, NEW pc \in TgctlPcs, NEW out \in TgctlOuts, NEW child \in Servers \cup {None},
         tg' = [tg EXCEPT ![t].pc = pc, ![t].out = out, ![t].child = child]
  PROVE  tg' \in TgType
  <1>1. PICK g1 \in TgType : g1 = [tg EXCEPT ![t].pc = pc]
    BY Store_pc
  <1>2. PICK g2 \in TgType : g2 = [g1 EXCEPT ![t].out = out]
    BY Store_out
  <1>3. PICK g3 \in TgType : g3 = [g2 EXCEPT ![t].child = child]
    BY Store_child
  <1> QED BY <1>1, <1>2, <1>3

(* What proc_mutex::pid reads is a pid or nothing. *)
LEMMA PidFileType == ASSUME TypeOK PROVE PidFile \in Servers \cup {None}
  BY DEF TypeOK, PidFile

(* A step of tgctl keeps the type of its own state. *)
LEMMA TgctlState ==
  ASSUME TypeOK, NEW t \in Tgctls, Command(t) \/ TgctlStep(t) \/ GiveUp(t)
  PROVE  tg' \in TgType
  <1>0. /\ tg \in TgType /\ path["pid"] \in Inodes \cup {NoInode} /\ shmName \in Servers \cup {None}
        /\ \A p \in Servers : seg[p].state \in States
    BY DEF TypeOK, TgType
  <1>1. /\ tg[t].cmd \in CommandNames /\ tg[t].pc \in TgctlPcs /\ tg[t].ret \in TgctlRets
        /\ tg[t].fd \in Inodes \cup {NoInode} /\ tg[t].res \in TgctlResults
    BY <1>0 DEF TgType, TgctlType
  <1>2. TgctlRets \subseteq TgctlPcs /\ NoInode \in Inodes \cup {NoInode}
    BY DEF TgctlRets, TgctlPcs
  <1>3. \A l \in TgctlPcs : Goto(t, l) => tg' \in TgType
    BY <1>0, Stores_pc DEF Goto
  <1>4. \A o \in TgctlOuts : End(t, o) => tg' \in TgType
    BY <1>0, Stores_pc_out DEF End, TgctlPcs
  <1>5. \A l \in TgctlPcs, r \in TgctlRets : Calls(t, l, r) => tg' \in TgType
    BY <1>0, Stores_pc_ret DEF Calls
  <1>6. CASE Command(t)
    <2>1. PICK c \in CommandNames, l \in {"open", "construct"} :
              tg' = [tg EXCEPT ![t] = [cmd |-> c, ret |-> "begin", fd |-> NoInode, res |-> "no_file",
                                       child |-> None, att |-> None, out |-> "absent", pc |-> l]]
      BY <1>6, LifecycleAssumption DEF Command
    <2>2. /\ l \in TgctlPcs /\ "begin" \in TgctlRets /\ "no_file" \in TgctlResults
          /\ "absent" \in TgctlOuts /\ None \in Servers \cup {None}
      BY DEF TgctlPcs, TgctlRets, TgctlResults, TgctlOuts
    <2>3. [cmd |-> c, ret |-> "begin", fd |-> NoInode, res |-> "no_file",
           child |-> None, att |-> None, out |-> "absent", pc |-> l] \in TgctlType
      BY <1>2, <2>2 DEF TgctlType
    <2> QED BY <1>0, <2>1, <2>3 DEF TgType
  <1>7. CASE Construct(t)
    BY <1>7, <1>0, Stores_pc_fd DEF Construct, TgctlPcs
  <1>8. CASE CheckExists(t)
    <2>1. PICK l \in TgctlPcs : tg' = [tg EXCEPT ![t].pc = l, ![t].res = "no_file"] \/ Goto(t, l)
      BY <1>8, <1>1, <1>2 DEF CheckExists, Goto, TgctlPcs
    <2> QED BY <1>0, <1>3, <2>1, Stores_pc_res DEF TgctlResults
  <1>9. CASE CheckOpens(t)
    <2>1. PICK l \in TgctlPcs : \/ tg' = [tg EXCEPT ![t].pc = l, ![t].res = "error"]
                                \/ tg' = [tg EXCEPT ![t].pc = l, ![t].fd = path["pid"]]
      BY <1>9, <1>1, <1>2 DEF CheckOpens, TgctlPcs
    <2> QED BY <1>0, <2>1, Stores_pc_res, Stores_pc_fd DEF TgctlResults
  <1>10. CASE CheckLocks(t)
    <2>1. PICK l \in TgctlPcs : tg' = [tg EXCEPT ![t].pc = l, ![t].res = "locked"] \/ Goto(t, l)
      BY <1>10, <1>1, <1>2 DEF CheckLocks, TgctlPcs
    <2> QED BY <1>0, <1>3, <2>1, Stores_pc_res DEF TgctlResults
  <1>11. CASE CheckUnlocks(t)
    BY <1>11, <1>0, <1>1, <1>2, Stores_pc_res DEF CheckUnlocks, TgctlResults
  <1>12. CASE Whole(t)
    <2>1. PICK r \in TgctlResults : tg' = [tg EXCEPT ![t].pc = tg[t].ret, ![t].res = r]
      BY <1>12, <1>0 DEF Whole, TgctlResults
    <2> QED BY <1>0, <1>1, <1>2, <2>1, Stores_pc_res
  <1>13. CASE Begin(t)
    <2>1. StatusAnswer(tg[t].res) \in TgctlOuts
      BY <1>1 DEF StatusAnswer, Booting, TgctlOuts, TgctlResults
    <2> QED BY <1>13, <1>3, <1>4, <2>1 DEF Begin, TgctlPcs, TgctlOuts
  <1>14. CASE OpenExisting(t)
    <2>1. \/ tg' = [tg EXCEPT ![t].pc = "idle", ![t].out = "err"]
          \/ \E l \in TgctlPcs : tg' = [tg EXCEPT ![t].pc = l, ![t].ret = "getpid", ![t].fd = path["pid"]]
      BY <1>14 DEF OpenExisting, TgctlPcs
    <2>2. "idle" \in TgctlPcs /\ "err" \in TgctlOuts /\ "getpid" \in TgctlRets
      BY DEF TgctlPcs, TgctlRets, TgctlOuts
    <2> QED BY <1>0, <2>1, <2>2, Stores_pc_out, Stores_pc_ret_fd
  <1>15. CASE Spawn(t)
    <2>1. PICK p \in Servers : tg' = [tg EXCEPT ![t].pc = "alive", ![t].fd = NoInode, ![t].child = p]
      BY <1>15 DEF Spawn
    <2> QED BY <1>0, <1>2, <2>1, Stores_pc_fd_child DEF TgctlPcs
  <1>16. CASE StartOpens(t)
    <2>1. PICK l \in TgctlPcs, f \in Inodes \cup {NoInode} :
              tg' = [tg EXCEPT ![t].pc = l, ![t].ret = "pidfile", ![t].fd = f]
      BY <1>16, <1>0, <1>1 DEF StartOpens, TgctlPcs
    <2> QED BY <1>0, <2>1, Stores_pc_ret_fd DEF TgctlRets
  <1>17. CASE ChildAlive(t) \/ PidInFile(t) \/ Confirm(t) \/ Gone(t) \/ Killed(t) \/ AttachRemains(t) \/ GiveUp(t)
    <2>1. (\E l \in TgctlPcs : Goto(t, l)) \/ (\E o \in TgctlOuts : End(t, o))
      BY <1>17 DEF ChildAlive, PidInFile, Confirm, Gone, Killed, AttachRemains, GiveUp, TgctlPcs, TgctlOuts
    <2> QED BY <1>3, <1>4, <2>1
  <1>18. CASE Attach(t)
    <2>1. End(t, "err") \/ \E l \in TgctlPcs : tg' = [tg EXCEPT ![t].pc = l, ![t].att = shmName]
      BY <1>18 DEF Attach, TgctlPcs
    <2> QED BY <1>0, <1>4, <2>1, Stores_pc_att DEF TgctlOuts
  <1>19. CASE PidInStatus(t) \/ RequestShutdown(t) \/ ForceDelete(t)
    <2>1. \/ \E o \in TgctlOuts : End(t, o)
          \/ \E l \in TgctlPcs, r \in TgctlRets : Calls(t, l, r)
      BY <1>19 DEF PidInStatus, RequestShutdown, ForceDelete, TgctlPcs, TgctlOuts, TgctlRets
    <2> QED BY <1>4, <1>5, <2>1
  <1>20. CASE Kill(t)
    <2>1. \/ End(t, "err")
          \/ tg' = [tg EXCEPT ![t].pc = "construct", ![t].ret = "killed", ![t].child = PidFile]
      BY <1>20 DEF Kill
    <2> QED BY <1>0, <1>4, <2>1, PidFileType, Stores_pc_ret_child DEF TgctlPcs, TgctlRets, TgctlOuts
  <1>21. CASE GetPid(t)
    <2>1. \/ Goto(t, "exists") \/ End(t, "err")
          \/ tg' = [tg EXCEPT ![t].pc = "idle", ![t].out = "ok", ![t].child = PidFile]
      BY <1>21 DEF GetPid
    <2> QED BY <1>0, <1>3, <1>4, <2>1, PidFileType, Stores_pc_out_child DEF TgctlPcs, TgctlOuts
  <1> QED BY <1>6, <1>7, <1>8, <1>9, <1>10, <1>11, <1>12, <1>13, <1>14, <1>15, <1>16, <1>17, <1>18,
             <1>19, <1>20, <1>21 DEF TgctlStep

(* A step of tgctl keeps the types. *)
LEMMA TgctlTypes ==
  ASSUME TypeOK, NEW t \in Tgctls, Command(t) \/ TgctlStep(t) \/ GiveUp(t)
  PROVE  TypeOK'
  <1>0. tg' \in [Tgctls -> TgctlType]
    BY TgctlState DEF TgType
  <1> DEFINE Others == /\ path' \in [Files -> Inodes \cup {NoInode}]
                       /\ holder' \in [Inodes -> Servers \cup Tgctls \cup {None}]
                       /\ shmName' \in Servers \cup {None}
                       /\ seg' \in SegType
                       /\ stage' \in [Servers -> Stages]
                       /\ commands' \in 0 .. MaxCommands
                       /\ UNCHANGED <<content, sfd, crashes, served>>
  <1> USE LifecycleAssumption DEF fileVars, serverVars
  <1>1. ASSUME Command(t) PROVE Others
    <2>1. commands \in 0 .. MaxCommands /\ commands < MaxCommands /\ commands' = commands + 1
      BY <1>1 DEF Command, TypeOK
    <2>2. commands' \in 0 .. MaxCommands
      BY <2>1, SMT
    <2>3. UNCHANGED <<fileVars, serverVars>>
      BY <1>1 DEF Command
    <2> QED BY <2>2, <2>3 DEF TypeOK, SegType
  <1>2. ASSUME UNCHANGED <<fileVars, serverVars, commands>> PROVE Others
    BY <1>2 DEF TypeOK, SegType
  <1>3. ASSUME CheckLocks(t) \/ CheckUnlocks(t) PROVE Others
    <2>1. PICK v \in Tgctls \cup {None} : holder' = holder \/ holder' = [holder EXCEPT ![tg[t].fd] = v]
      BY <1>3 DEF CheckLocks, CheckUnlocks
    <2>2. holder' \in [Inodes -> Servers \cup Tgctls \cup {None}]
      BY <2>1, SMT DEF TypeOK
    <2>3. UNCHANGED <<path, content, serverVars, commands>>
      BY <1>3 DEF CheckLocks, CheckUnlocks
    <2> QED BY <2>2, <2>3 DEF TypeOK, SegType
  <1>4. ASSUME Spawn(t) PROVE Others
    <2>1. PICK p \in Servers : stage' = [stage EXCEPT ![p] = "spawned"]
      BY <1>4 DEF Spawn, Go
    <2>2. UNCHANGED <<fileVars, sfd, seg, shmName, served, crashes, commands>>
      BY <1>4 DEF Spawn
    <2> QED BY <2>1, <2>2 DEF TypeOK, SegType
  <1>5. ASSUME RequestShutdown(t) PROVE Others
    <2>1. seg' = seg \/ seg' = [seg EXCEPT ![tg[t].att].request = TRUE]
      BY <1>5 DEF RequestShutdown
    <2>2. seg' \in SegType
      <3>1. seg \in SegType
        BY DEF TypeOK, SegType
      <3>2. CASE tg[t].att \in Servers
        BY <2>1, <3>1, <3>2, StoreRequest
      <3>3. CASE tg[t].att \notin Servers
        BY <2>1, <3>1, <3>3 DEF SegType
      <3> QED BY <3>2, <3>3
    <2>3. UNCHANGED <<fileVars, stage, sfd, shmName, served, crashes, commands>>
      BY <1>5 DEF RequestShutdown
    <2> QED BY <2>2, <2>3 DEF TypeOK
  <1>6. ASSUME Kill(t) \/ GetPid(t) PROVE Others
    <2>1. \/ UNCHANGED <<stage, holder>>
          \/ stage' = [stage EXCEPT ![PidFile] = "dead"] /\ holder' = Release(PidFile)
      BY <1>6 DEF Kill, GetPid
    <2>2. stage' \in [Servers -> Stages]
      BY <2>1 DEF TypeOK
    <2>3. holder' \in [Inodes -> Servers \cup Tgctls \cup {None}]
      BY <2>1 DEF TypeOK, Release
    <2>4. UNCHANGED <<path, content, sfd, seg, shmName, served, crashes, commands>>
      BY <1>6 DEF Kill, GetPid
    <2> QED BY <2>2, <2>3, <2>4 DEF TypeOK, SegType
  <1>7. ASSUME Killed(t) PROVE Others
    <2>1. path' = path \/ path' = [path EXCEPT !["pid"] = NoInode]
      BY <1>7 DEF Killed
    <2>2. path' \in [Files -> Inodes \cup {NoInode}]
      BY <2>1, SMT DEF TypeOK
    <2>3. UNCHANGED <<holder, content, serverVars, commands>>
      BY <1>7 DEF Killed
    <2> QED BY <2>2, <2>3 DEF TypeOK, SegType
  <1>8. ASSUME ForceDelete(t) PROVE Others
    <2>1. shmName' = None /\ UNCHANGED <<fileVars, stage, sfd, seg, served, crashes, commands>>
      BY <1>8 DEF ForceDelete
    <2> QED BY <2>1 DEF TypeOK, SegType
  <1>9. Others
    BY <1>1, <1>2, <1>3, <1>4, <1>5, <1>6, <1>7, <1>8
       DEF TgctlStep, Construct, CheckExists, CheckOpens, Whole, Begin, OpenExisting, ChildAlive, StartOpens,
           PidInFile, Attach, PidInStatus, Confirm, Gone, AttachRemains, GiveUp
  <1> QED BY ONLY TypeOK, <1>0, <1>9 DEF TypeOK, SegType

(* The initial state has the types. *)
LEMMA InitTypes == Init => TypeOK
  <1> SUFFICES ASSUME Init PROVE TypeOK
    OBVIOUS
  <1> USE LifecycleAssumption
  <1>1. tg \in [Tgctls -> TgctlType]
    BY DEF Init, TgctlType, TgctlPcs, TgctlRets, TgctlResults, TgctlOuts, CommandNames
  <1> QED BY <1>1, SMT DEF Init, TypeOK

(* The types are invariant. *)
THEOREM Types == Spec => []TypeOK
  <1>1. TypeOK /\ [Next]_vars => TypeOK'
    <2> SUFFICES ASSUME TypeOK, [Next]_vars PROVE TypeOK'
      OBVIOUS
    <2>1. CASE UNCHANGED vars
      BY <2>1 DEF TypeOK, vars, fileVars, serverVars, tgctlVars
    <2> QED BY <2>1, ServerTypes, TgctlTypes DEF Next
  <1> QED BY <1>1, InitTypes, PTL DEF Spec

(***************************************************************************)
(* LocksKept                                                               *)
(*                                                                         *)
(* The inductive invariant adds what a descriptor refers to.  Once a server*)
(* has opened one of its files, the descriptor is that of an inode created *)
(* for this name: the pid file and the file of the database name never     *)
(* share an inode, so closing the one keeps the lock of the other.  And a  *)
(* tgctl process about to unlock has the lock: proc_mutex::check gives back*)
(* its own lock only, never that of a server.                              *)
(***************************************************************************)
PidOpened == Locked \cup {"opened", "truncated"}
DbOpened == Ready \cup {"db_opened"}

PathsOwn == \A f \in Files : path[f] \in (Servers \X {f}) \cup {NoInode}

Opened(p) ==
  /\ stage[p] \in PidOpened => sfd[p]["pid"] \in Servers \X {"pid"}
  /\ stage[p] \in DbOpened => sfd[p]["db"] \in Servers \X {"db"}

Keeps(p) ==
  /\ stage[p] \in Locked => holder[sfd[p]["pid"]] = p
  /\ stage[p] \in Ready => holder[sfd[p]["db"]] = p

Checks(t) ==
  /\ At(t, "trylock") => tg[t].fd \in Inodes
  /\ At(t, "unlock") => tg[t].fd \in Inodes /\ holder[tg[t].fd] = t

LInv ==
  /\ TypeOK
  /\ PathsOwn
  /\ \A p \in Servers : Opened(p) /\ Keeps(p)
  /\ \A t \in Tgctls : Checks(t)

(* Only the process o takes or gives back locks. *)
OnlyLocksOf(o) == \A i \in Inodes : holder[i] \notin {None, o} => holder'[i] = holder[i]

(* A step of one server leaves what the invariant says of the others. *)
LEMMA OtherServers ==
  ASSUME LInv, NEW p \in Servers, NEW q \in Servers, q # p,
         stage'[q] = stage[q], sfd'[q] = sfd[q], OnlyLocksOf(p)
  PROVE  Opened(q)' /\ Keeps(q)'
  <1>1. Opened(q) /\ Keeps(q) /\ q # None
    BY LifecycleAssumption DEF LInv
  <1>2. Opened(q)'
    BY <1>1 DEF Opened
  <1>3. stage[q] \in Locked => sfd[q]["pid"] \in Inodes
    BY <1>1 DEF Opened, PidOpened, Inodes
  <1>4. stage[q] \in Ready => sfd[q]["db"] \in Inodes
    BY <1>1 DEF Opened, DbOpened, Inodes
  <1> QED BY <1>1, <1>2, <1>3, <1>4 DEF Keeps, OnlyLocksOf

(* A step of one process leaves the lock of a tgctl process alone. *)
LEMMA OtherTgctls ==
  ASSUME LInv, NEW o, NEW t \in Tgctls, t # o, tg'[t] = tg[t], OnlyLocksOf(o)
  PROVE  Checks(t)'
  <1>1. Checks(t) /\ t # None
    BY LifecycleAssumption DEF LInv
  <1> QED BY <1>1 DEF Checks, At, OnlyLocksOf

(* A step of a server that touches no file. *)
LEMMA ServerMoves ==
  ASSUME LInv, NEW p \in Servers, UNCHANGED <<path, holder, sfd>>,
         NEW to, stage' = [stage EXCEPT ![p] = to],
         to \in PidOpened => stage[p] \in PidOpened,
         to \in DbOpened => stage[p] \in DbOpened,
         to \in Locked => stage[p] \in Locked,
         to \in Ready => stage[p] \in Ready
  PROVE  PathsOwn' /\ OnlyLocksOf(p) /\ Opened(p)' /\ Keeps(p)'
  <1>1. Opened(p) /\ Keeps(p) /\ PathsOwn
    BY DEF LInv
  <1>2. stage'[p] = to
    BY DEF LInv, TypeOK
  <1> QED BY <1>1, <1>2 DEF PathsOwn, OnlyLocksOf, Opened, Keeps

(* A server that ends loses its locks and no other. *)
LEMMA ServerEnds ==
  ASSUME LInv, NEW p \in Servers, UNCHANGED <<path, sfd>>, holder' = Release(p),
         stage' = [stage EXCEPT ![p] = "dead"]
  PROVE  PathsOwn' /\ OnlyLocksOf(p) /\ Opened(p)' /\ Keeps(p)'
  <1>1. stage'[p] = "dead" /\ "dead" \notin PidOpened \cup DbOpened \cup Locked \cup Ready
    BY DEF LInv, TypeOK, PidOpened, DbOpened, Locked, Ready
  <1>2. OnlyLocksOf(p)
    BY DEF OnlyLocksOf, Release
  <1> QED BY <1>1, <1>2 DEF LInv, PathsOwn, Opened, Keeps

(* What a step of a server does to its own locks. *)
LEMMA ServerLocks ==
  ASSUME LInv, NEW p \in Servers,
         ServerStep(p) \/ BootError(p) \/ AltimeterError(p) \/ Crash(p)
  PROVE  PathsOwn' /\ OnlyLocksOf(p) /\ Opened(p)' /\ Keeps(p)'
  <1>0. /\ TypeOK /\ PathsOwn /\ Opened(p) /\ Keeps(p) /\ p # None
    BY LifecycleAssumption DEF LInv
  <1>1. ASSUME NEW f \in Files, Open(p, f)
        PROVE  /\ PathsOwn'
               /\ OnlyLocksOf(p)
               /\ sfd'[p][f] \in Servers \X {f}
               /\ \A g \in Files : g # f => sfd'[p][g] = sfd[p][g]
    <2>1. PICK i : i = IF path[f] = NoInode THEN <<p, f>> ELSE path[f]
      OBVIOUS
    <2>2. i \in Servers \X {f}
      BY <1>0, <2>1 DEF PathsOwn
    <2>3. path' = [path EXCEPT ![f] = i] /\ sfd' = [sfd EXCEPT ![p][f] = i] /\ holder' = holder
      BY <1>1, <2>1 DEF Open
    <2>4. PathsOwn'
      BY <1>0, <2>2, <2>3 DEF PathsOwn, TypeOK
    <2>5. sfd'[p][f] = i /\ \A g \in Files : g # f => sfd'[p][g] = sfd[p][g]
      BY <1>0, <2>3 DEF TypeOK
    <2> QED BY <2>2, <2>3, <2>4, <2>5 DEF OnlyLocksOf
  <1>2. CASE OpenPidFile(p)
    <2>1. stage'[p] = "opened"
      BY <1>0, <1>2 DEF OpenPidFile, Go, TypeOK
    <2>2. stage'[p] \notin DbOpened \cup Locked \cup Ready
      BY <2>1 DEF DbOpened, Locked, Ready
    <2> QED BY <1>1, <1>2, <2>2 DEF OpenPidFile, Opened, Keeps
  <1>3. CASE OpenDbFile(p)
    <2>1. stage[p] = "filled" /\ stage'[p] = "db_opened" /\ holder' = holder
      BY <1>0, <1>3 DEF OpenDbFile, Open, Go, TypeOK
    <2>2. stage[p] \in PidOpened /\ stage[p] \in Locked /\ stage'[p] \notin Ready
      BY <2>1 DEF PidOpened, Locked, Ready
    <2>3. PathsOwn' /\ OnlyLocksOf(p) /\ sfd'[p]["db"] \in Servers \X {"db"} /\ sfd'[p]["pid"] = sfd[p]["pid"]
      BY <1>1, <1>3 DEF OpenDbFile
    <2> QED BY <1>0, <2>1, <2>2, <2>3 DEF Opened, Keeps
  <1>4. CASE LockPidFile(p)
    <2>1. CASE holder[sfd[p]["pid"]] = None
      <3>1. sfd[p]["pid"] \in Servers \X {"pid"} /\ sfd[p]["pid"] \in Inodes
        BY <1>0, <1>4 DEF LockPidFile, Opened, PidOpened, Inodes
      <3>2. PICK i \in Inodes : i = sfd[p]["pid"]
        BY <3>1
      <3>3. /\ stage'[p] = "locked" /\ holder' = [holder EXCEPT ![i] = p]
            /\ path' = path /\ sfd' = sfd /\ holder[i] = None
        BY <1>0, <1>4, <2>1, <3>2 DEF LockPidFile, TypeOK
      <3>4. holder'[i] = p /\ OnlyLocksOf(p)
        BY <1>0, <3>3 DEF OnlyLocksOf, TypeOK
      <3>5. stage'[p] \notin DbOpened \cup Ready
        BY <3>3 DEF DbOpened, Ready
      <3> QED BY <1>0, <3>1, <3>2, <3>3, <3>4, <3>5 DEF PathsOwn, Opened, Keeps
    <2>2. CASE holder[sfd[p]["pid"]] # None
      <3>1. stage' = [stage EXCEPT ![p] = "dead"] /\ UNCHANGED <<path, holder, sfd>>
        BY <1>4, <2>2 DEF LockPidFile
      <3>2. "dead" \notin PidOpened \cup DbOpened \cup Locked \cup Ready
        BY DEF PidOpened, DbOpened, Locked, Ready
      <3> QED BY <3>1, <3>2, ServerMoves
    <2> QED BY <2>1, <2>2
  <1>5. CASE LockDbFile(p)
    <2>1. CASE holder[sfd[p]["db"]] = None
      <3>1. sfd[p]["db"] \in Servers \X {"db"} /\ sfd[p]["db"] \in Inodes
        BY <1>0, <1>5 DEF LockDbFile, Opened, DbOpened, Inodes
      <3>2. PICK i \in Inodes : i = sfd[p]["db"]
        BY <3>1
      <3>3. /\ stage[p] = "db_opened" /\ stage'[p] = "ready" /\ holder' = [holder EXCEPT ![i] = p]
            /\ path' = path /\ sfd' = sfd /\ holder[i] = None
        BY <1>0, <1>5, <2>1, <3>2 DEF LockDbFile, TypeOK
      <3>4. holder'[i] = p /\ OnlyLocksOf(p)
        BY <1>0, <3>3 DEF OnlyLocksOf, TypeOK
      <3>5. stage[p] \in PidOpened /\ stage[p] \in Locked
        BY <3>3 DEF PidOpened, Locked
      <3>6. sfd[p]["pid"] \in Servers \X {"pid"} /\ holder[sfd[p]["pid"]] = p
        BY <1>0, <3>5 DEF Opened, Keeps
      <3>7. holder'[sfd[p]["pid"]] = p
        BY <1>0, <3>3, <3>6 DEF TypeOK, Inodes
      <3> QED BY <1>0, <3>1, <3>2, <3>3, <3>4, <3>6, <3>7 DEF PathsOwn, Opened, Keeps
    <2>2. CASE holder[sfd[p]["db"]] # None
      <3>1. stage' = [stage EXCEPT ![p] = "failed"] /\ UNCHANGED <<path, holder, sfd>>
        BY <1>5, <2>2 DEF LockDbFile
      <3>2. "failed" \notin PidOpened \cup DbOpened \cup Locked \cup Ready
        BY DEF PidOpened, DbOpened, Locked, Ready
      <3> QED BY <3>1, <3>2, ServerMoves
    <2> QED BY <2>1, <2>2
  <1>6. CASE CloseDbFile(p)
    <2>1. /\ stage[p] = "deactivated" /\ stage'[p] = "db_closed" /\ path' = path /\ sfd' = sfd
          /\ holder' = [holder EXCEPT ![sfd[p]["db"]] = None]
      BY <1>0, <1>6 DEF CloseDbFile, Close, Go, TypeOK
    <2>2. /\ stage[p] \in DbOpened /\ stage[p] \in Ready /\ stage[p] \in PidOpened /\ stage[p] \in Locked
          /\ stage'[p] \notin DbOpened \cup Ready
      BY <2>1 DEF DbOpened, Ready, PidOpened, Locked
    <2>3. /\ sfd[p]["pid"] \in Servers \X {"pid"} /\ holder[sfd[p]["pid"]] = p
          /\ sfd[p]["db"] \in Servers \X {"db"} /\ holder[sfd[p]["db"]] = p
      BY <1>0, <2>2 DEF Opened, Keeps
    <2>4. holder'[sfd[p]["pid"]] = p
      BY <1>0, <2>1, <2>3 DEF TypeOK, Inodes
    <2>5. OnlyLocksOf(p)
      BY <1>0, <2>1, <2>3 DEF TypeOK, OnlyLocksOf
    <2> QED BY <1>0, <2>1, <2>2, <2>3, <2>4, <2>5 DEF PathsOwn, Opened, Keeps
  <1>7. CASE ClosePidFile(p)
    <2>1. /\ stage[p] = "removed" /\ stage'[p] = "closed" /\ path' = path /\ sfd' = sfd
          /\ holder' = [holder EXCEPT ![sfd[p]["pid"]] = None]
      BY <1>0, <1>7 DEF ClosePidFile, Close, Go, TypeOK
    <2>2. stage[p] \in Locked /\ stage'[p] \notin PidOpened \cup DbOpened \cup Locked \cup Ready
      BY <2>1 DEF DbOpened, Ready, PidOpened, Locked
    <2>3. holder[sfd[p]["pid"]] = p
      BY <1>0, <2>2 DEF Keeps
    <2>4. OnlyLocksOf(p)
      BY <1>0, <2>1, <2>3 DEF TypeOK, OnlyLocksOf
    <2> QED BY <1>0, <2>1, <2>2, <2>4 DEF PathsOwn, Opened, Keeps
  <1>8. CASE UnlinkDbFile(p) \/ UnlinkPidFile(p)
    <2>1. PICK f \in Files : path' = [path EXCEPT ![f] = NoInode] /\ UNCHANGED <<holder, sfd>>
      BY <1>8 DEF UnlinkDbFile, UnlinkPidFile, Unlink
    <2>2. PathsOwn' /\ OnlyLocksOf(p)
      BY <1>0, <2>1 DEF PathsOwn, TypeOK, OnlyLocksOf
    <2>3. \/ stage[p] = "db_closed" /\ stage'[p] = "db_removed"
          \/ stage'[p] = "dead"
      BY <1>0, <1>8 DEF UnlinkDbFile, UnlinkPidFile, Go, TypeOK
    <2>4. /\ stage'[p] \in PidOpened => stage[p] \in PidOpened
          /\ stage'[p] \in Locked => stage[p] \in Locked
          /\ stage'[p] \notin DbOpened \cup Ready
      BY <2>3 DEF PidOpened, Locked, DbOpened, Ready
    <2> QED BY <1>0, <2>1, <2>2, <2>4 DEF Opened, Keeps
  <1>9. CASE Exit(p) \/ Crash(p)
    BY <1>9, ServerEnds DEF Exit, Crash, Go
  <1>10. CASE \/ Truncate(p) \/ CreateStatus(p) \/ StorePid(p) \/ FillContents(p) \/ Activate(p) \/ Deactivate(p)
              \/ Deactivated(p) \/ RemoveStatus(p) \/ BootError(p) \/ AltimeterError(p)
    <2>1. PICK to : /\ stage' = [stage EXCEPT ![p] = to]
                    /\ UNCHANGED <<path, holder, sfd>>
                    /\ <<stage[p], to>> \in
                          {<<"opened", "truncated">>, <<"locked", "created">>, <<"created", "setup">>,
                           <<"setup", "filled">>, <<"ready", "activated">>, <<"activated", "deactivating">>,
                           <<"deactivating", "deactivated">>, <<"db_removed", "removed">>,
                           <<"setup", "failed">>, <<"ready", "failed">>}
      BY <1>10 DEF Truncate, CreateStatus, StorePid, FillContents, Activate, Deactivate, Deactivated,
                   RemoveStatus, BootError, AltimeterError, Go, fileVars
    <2>2. /\ to \in PidOpened => stage[p] \in PidOpened
          /\ to \in DbOpened => stage[p] \in DbOpened
          /\ to \in Locked => stage[p] \in Locked
          /\ to \in Ready => stage[p] \in Ready
      BY <2>1 DEF PidOpened, DbOpened, Locked, Ready
    <2> QED BY <2>1, <2>2, ServerMoves
  <1> QED BY <1>2, <1>3, <1>4, <1>5, <1>6, <1>7, <1>8, <1>9, <1>10 DEF ServerStep

(* A step of a tgctl process changes no other, and keeps what the invariant says of itself. *)
LEMMA TgctlChecks ==
  ASSUME LInv, NEW t \in Tgctls, Command(t) \/ TgctlStep(t) \/ GiveUp(t)
  PROVE  Checks(t)' /\ \A u \in Tgctls : u # t => tg'[u] = tg[u]
  <1>0. /\ TypeOK /\ Checks(t) /\ tg \in [Tgctls -> TgctlType] /\ tg[t] \in TgctlType /\ t # None
        /\ tg[t].ret \in TgctlRets /\ tg[t].fd \in Inodes \cup {NoInode}
        /\ path["pid"] \in Inodes \cup {NoInode}
    BY LifecycleAssumption DEF LInv, TypeOK, TgctlType
  <1> DEFINE Same == \A u \in Tgctls : u # t => tg'[u] = tg[u]
  <1>1. ASSUME tg'[t].pc \notin {"trylock", "unlock"} PROVE Checks(t)'
    BY <1>1 DEF Checks, At
  <1>2. tg[t].ret \notin {"trylock", "unlock"}
    BY <1>0 DEF TgctlRets
  <1>3. CASE CheckExists(t)
    <2>1. CASE tg'[t].pc \notin {"trylock", "unlock"} /\ Same
      BY <1>1, <2>1
    <2>2. CASE tg[t].fd # NoInode /\ tg' = [tg EXCEPT ![t].pc = "trylock"]
      <3>1. tg'[t].pc = "trylock" /\ tg'[t].fd = tg[t].fd /\ Same
        BY <1>0, <2>2 DEF TgctlType
      <3> QED BY <1>0, <2>2, <3>1 DEF Checks, At
    <2>3. CASE tg' = [tg EXCEPT ![t].pc = tg[t].ret, ![t].res = "no_file"]
      BY <1>0, <1>2, <2>1, <2>3 DEF TgctlType
    <2>4. CASE tg' = [tg EXCEPT ![t].pc = "reopen"]
      BY <1>0, <2>1, <2>4 DEF TgctlType
    <2> QED BY <1>3, <2>2, <2>3, <2>4 DEF CheckExists
  <1>4. CASE CheckOpens(t)
    <2>1. CASE path["pid"] = NoInode
      <3>1. tg' = [tg EXCEPT ![t].pc = tg[t].ret, ![t].res = "error"]
        BY <1>4, <2>1 DEF CheckOpens
      <3>2. tg'[t].pc \notin {"trylock", "unlock"} /\ Same
        BY <1>0, <1>2, <3>1 DEF TgctlType
      <3> QED BY <1>1, <3>2
    <2>2. CASE path["pid"] # NoInode
      <3>1. tg' = [tg EXCEPT ![t].pc = "trylock", ![t].fd = path["pid"]]
        BY <1>4, <2>2 DEF CheckOpens
      <3>2. tg'[t].pc = "trylock" /\ tg'[t].fd = path["pid"] /\ Same
        BY <1>0, <3>1 DEF TgctlType
      <3> QED BY <1>0, <2>2, <3>2 DEF Checks, At
    <2> QED BY <2>1, <2>2
  <1>5. CASE CheckLocks(t)
    <2>1. CASE holder[tg[t].fd] = None
      <3>1. tg[t].fd \in Inodes
        BY <1>0, <1>5 DEF CheckLocks, Checks
      <3>2. holder' = [holder EXCEPT ![tg[t].fd] = t] /\ tg' = [tg EXCEPT ![t].pc = "unlock"]
        BY <1>5, <2>1 DEF CheckLocks, Goto
      <3>3. tg'[t].pc = "unlock" /\ tg'[t].fd = tg[t].fd /\ Same
        BY <1>0, <3>2 DEF TgctlType
      <3>4. holder'[tg[t].fd] = t
        BY <1>0, <3>1, <3>2 DEF TypeOK
      <3> QED BY <3>1, <3>3, <3>4 DEF Checks, At
    <2>2. CASE holder[tg[t].fd] # None
      <3>1. PICK l \in {"whole", tg[t].ret} : tg' = [tg EXCEPT ![t].pc = l, ![t].res = "locked"]
        BY <1>5, <2>2 DEF CheckLocks
      <3>2. tg'[t].pc \notin {"trylock", "unlock"} /\ Same
        BY <1>0, <1>2, <3>1 DEF TgctlType
      <3> QED BY <1>1, <3>2
    <2> QED BY <2>1, <2>2
  <1>6. CASE CheckUnlocks(t) \/ Whole(t)
    <2>1. PICK r : tg' = [tg EXCEPT ![t].pc = tg[t].ret, ![t].res = r]
      BY <1>6 DEF CheckUnlocks, Whole
    <2>2. tg'[t].pc \notin {"trylock", "unlock"} /\ Same
      BY <1>0, <1>2, <2>1 DEF TgctlType
    <2> QED BY <1>1, <2>2
  <1>7. CASE Command(t)
    <2>1. PICK c \in Commands, l \in {"open", "construct"} :
              tg' = [tg EXCEPT ![t] = [cmd |-> c, ret |-> "begin", fd |-> NoInode, res |-> "no_file",
                                       child |-> None, att |-> None, out |-> "absent", pc |-> l]]
      BY <1>7 DEF Command
    <2>2. tg'[t].pc = l /\ Same
      BY <1>0, <2>1
    <2> QED BY <1>1, <2>2
  <1> DEFINE Quiet == TgctlPcs \ {"trylock", "unlock"}
  <1>8. ASSUME NEW l \in Quiet, Goto(t, l) PROVE Checks(t)' /\ Same
    <2>1. tg'[t].pc = l /\ Same
      BY <1>0, <1>8 DEF TgctlType, Goto
    <2> QED BY <1>1, <2>1
  <1>9. ASSUME NEW o, End(t, o) PROVE Checks(t)' /\ Same
    <2>1. tg'[t].pc = "idle" /\ Same
      BY <1>0, <1>9 DEF TgctlType, End
    <2> QED BY <1>1, <2>1
  <1>10. ASSUME NEW l \in Quiet, NEW r, Calls(t, l, r) PROVE Checks(t)' /\ Same
    <2>1. tg'[t].pc = l /\ Same
      BY <1>0, <1>10 DEF TgctlType, Calls
    <2> QED BY <1>1, <2>1
  <1>11. CASE Construct(t)
    <2>1. tg'[t].pc = "exists" /\ Same
      BY <1>0, <1>11 DEF TgctlType, Construct
    <2> QED BY <1>1, <2>1
  <1>12. CASE Begin(t)
    BY <1>12, <1>8, <1>9 DEF Begin, TgctlPcs
  <1>13. CASE OpenExisting(t)
    <2>1. \/ End(t, "err")
          \/ \E l \in Quiet : tg' = [tg EXCEPT ![t].pc = l, ![t].ret = "getpid", ![t].fd = path["pid"]]
      BY <1>13 DEF OpenExisting, End, TgctlPcs
    <2>2. ASSUME NEW l \in Quiet, tg' = [tg EXCEPT ![t].pc = l, ![t].ret = "getpid", ![t].fd = path["pid"]]
          PROVE  Checks(t)' /\ Same
      <3>1. tg'[t].pc = l /\ Same
        BY <1>0, <2>2 DEF TgctlType
      <3> QED BY <1>1, <3>1
    <2> QED BY <1>9, <2>1, <2>2
  <1>14. CASE Spawn(t)
    <2>1. PICK p \in Servers : tg' = [tg EXCEPT ![t].pc = "alive", ![t].fd = NoInode, ![t].child = p]
      BY <1>14 DEF Spawn
    <2>2. tg'[t].pc = "alive" /\ Same
      BY <1>0, <2>1 DEF TgctlType
    <2> QED BY <1>1, <2>2
  <1>15. CASE StartOpens(t)
    <2>1. PICK l \in {"alive", "exists"}, f \in Inodes \cup {NoInode} :
              tg' = [tg EXCEPT ![t].pc = l, ![t].ret = "pidfile", ![t].fd = f]
      BY <1>0, <1>15 DEF StartOpens
    <2>2. tg'[t].pc = l /\ Same
      BY <1>0, <2>1 DEF TgctlType
    <2> QED BY <1>1, <2>2
  <1>16. CASE ChildAlive(t) \/ PidInFile(t) \/ Confirm(t) \/ Gone(t) \/ Killed(t) \/ AttachRemains(t) \/ GiveUp(t)
    <2>1. (\E l \in Quiet : Goto(t, l)) \/ (\E o \in TgctlOuts : End(t, o))
      BY <1>16 DEF ChildAlive, PidInFile, Confirm, Gone, Killed, AttachRemains, GiveUp, TgctlPcs, TgctlOuts
    <2> QED BY <1>8, <1>9, <2>1
  <1>17. CASE Attach(t)
    <2>1. End(t, "err") \/ \E l \in Quiet : tg' = [tg EXCEPT ![t].pc = l, ![t].att = shmName]
      BY <1>17 DEF Attach, TgctlPcs
    <2>2. ASSUME NEW l \in Quiet, tg' = [tg EXCEPT ![t].pc = l, ![t].att = shmName] PROVE Checks(t)' /\ Same
      <3>1. tg'[t].pc = l /\ Same
        BY <1>0, <2>2 DEF TgctlType
      <3> QED BY <1>1, <3>1
    <2> QED BY <1>9, <2>1, <2>2
  <1>18. CASE PidInStatus(t) \/ RequestShutdown(t) \/ ForceDelete(t)
    <2>1. \/ \E o \in TgctlOuts : End(t, o)
          \/ \E l \in Quiet, r \in TgctlRets : Calls(t, l, r)
      BY <1>18 DEF PidInStatus, RequestShutdown, ForceDelete, TgctlPcs, TgctlOuts, TgctlRets
    <2> QED BY <1>9, <1>10, <2>1
  <1>19. CASE Kill(t)
    <2>1. \/ End(t, "err")
          \/ tg' = [tg EXCEPT ![t].pc = "construct", ![t].ret = "killed", ![t].child = PidFile]
      BY <1>19 DEF Kill
    <2>2. ASSUME tg' = [tg EXCEPT ![t].pc = "construct", ![t].ret = "killed", ![t].child = PidFile]
          PROVE  Checks(t)' /\ Same
      <3>1. tg'[t].pc = "construct" /\ Same
        BY <1>0, <2>2 DEF TgctlType
      <3> QED BY <1>1, <3>1
    <2> QED BY <1>9, <2>1, <2>2
  <1>20. CASE GetPid(t)
    <2>1. \/ Goto(t, "exists") \/ End(t, "err")
          \/ tg' = [tg EXCEPT ![t].pc = "idle", ![t].out = "ok", ![t].child = PidFile]
      BY <1>20 DEF GetPid
    <2>2. ASSUME tg' = [tg EXCEPT ![t].pc = "idle", ![t].out = "ok", ![t].child = PidFile]
          PROVE  Checks(t)' /\ Same
      <3>1. tg'[t].pc = "idle" /\ Same
        BY <1>0, <2>2 DEF TgctlType
      <3> QED BY <1>1, <3>1
    <2> QED BY <1>8, <1>9, <2>1, <2>2 DEF TgctlPcs
  <1> QED BY <1>3, <1>4, <1>5, <1>6, <1>7, <1>11, <1>12, <1>13, <1>14, <1>15, <1>16, <1>17, <1>18,
             <1>19, <1>20 DEF TgctlStep

(* What a step of a tgctl process does to the servers: it takes and gives back its own lock, or ends a server. *)
LEMMA TgctlLocks ==
  ASSUME LInv, NEW t \in Tgctls, Command(t) \/ TgctlStep(t) \/ GiveUp(t)
  PROVE  /\ PathsOwn'
         /\ \A p \in Servers : Opened(p)' /\ Keeps(p)'
         /\ \A u \in Tgctls : u # t => Checks(u)'
  <1>0. TypeOK /\ PathsOwn /\ Checks(t) /\ t # None /\ t \notin Servers
    BY LifecycleAssumption DEF LInv
  <1>1. \A u \in Tgctls : u # t => tg'[u] = tg[u]
    BY TgctlChecks
  <1> USE DEF fileVars, serverVars
  <1>2. ASSUME UNCHANGED <<sfd, stage>>, OnlyLocksOf(t),
               path' = path \/ path' = [path EXCEPT !["pid"] = NoInode]
        PROVE  /\ PathsOwn'
               /\ \A p \in Servers : Opened(p)' /\ Keeps(p)'
               /\ \A u \in Tgctls : u # t => Checks(u)'
    <2>1. PathsOwn'
      BY <1>0, <1>2 DEF PathsOwn, TypeOK
    <2>2. ASSUME NEW p \in Servers PROVE Opened(p)' /\ Keeps(p)'
      <3>1. Opened(p) /\ Keeps(p) /\ p # None /\ p # t
        BY <1>0, LifecycleAssumption DEF LInv
      <3>2. Opened(p)'
        BY <1>2, <3>1 DEF Opened
      <3>3. stage[p] \in Locked => sfd[p]["pid"] \in Inodes
        BY <3>1 DEF Opened, PidOpened, Inodes
      <3>4. stage[p] \in Ready => sfd[p]["db"] \in Inodes
        BY <3>1 DEF Opened, DbOpened, Inodes
      <3> QED BY <1>2, <3>1, <3>2, <3>3, <3>4 DEF Keeps, OnlyLocksOf
    <2> QED BY <1>1, <1>2, <2>1, <2>2, OtherTgctls
  <1>3. CASE UNCHANGED <<path, holder, stage, sfd>>
    BY <1>2, <1>3 DEF OnlyLocksOf
  <1>4. CASE Killed(t)
    BY <1>2, <1>4 DEF Killed, OnlyLocksOf
  <1>5. CASE CheckLocks(t)
    <2>1. OnlyLocksOf(t)
      BY <1>0, <1>5 DEF CheckLocks, OnlyLocksOf, TypeOK
    <2> QED BY <1>2, <1>5, <2>1 DEF CheckLocks
  <1>6. CASE CheckUnlocks(t)
    <2>1. holder[tg[t].fd] = t
      BY <1>0, <1>6 DEF CheckUnlocks, Checks
    <2>2. OnlyLocksOf(t)
      BY <1>0, <1>6, <2>1 DEF CheckUnlocks, OnlyLocksOf, TypeOK
    <2> QED BY <1>2, <1>6, <2>2 DEF CheckUnlocks
  <1>7. ASSUME NEW q \in Servers, UNCHANGED <<path, sfd>>, NEW h, stage' = [stage EXCEPT ![q] = h],
               OnlyLocksOf(q), Opened(q)', Keeps(q)'
        PROVE  /\ PathsOwn'
               /\ \A p \in Servers : Opened(p)' /\ Keeps(p)'
               /\ \A u \in Tgctls : u # t => Checks(u)'
    <2>1. ASSUME NEW p \in Servers, p # q PROVE Opened(p)' /\ Keeps(p)'
      <3>1. stage'[p] = stage[p] /\ sfd'[p] = sfd[p]
        BY <1>0, <1>7, <2>1 DEF TypeOK
      <3> QED BY <1>7, <2>1, <3>1, OtherServers
    <2>2. ASSUME NEW u \in Tgctls, u # t PROVE Checks(u)'
      <3>1. u # q
        BY LifecycleAssumption
      <3> QED BY <1>1, <1>7, <2>2, <3>1, OtherTgctls
    <2>3. PathsOwn'
      BY <1>0, <1>7 DEF PathsOwn
    <2> QED BY <1>7, <2>1, <2>2, <2>3
  <1>8. CASE Spawn(t)
    <2>1. PICK q \in Servers : /\ stage' = [stage EXCEPT ![q] = "spawned"]
                               /\ UNCHANGED <<path, holder, sfd>>
      BY <1>8 DEF Spawn, Go
    <2>2. "spawned" \notin PidOpened \cup DbOpened \cup Locked \cup Ready
      BY DEF PidOpened, DbOpened, Locked, Ready
    <2>3. OnlyLocksOf(q) /\ Opened(q)' /\ Keeps(q)'
      BY <2>1, <2>2, ServerMoves
    <2> QED BY <1>7, <2>1, <2>3
  <1>9. CASE Kill(t) \/ GetPid(t)
    <2>1. \/ UNCHANGED <<path, holder, stage, sfd>>
          \/ /\ stage' = [stage EXCEPT ![PidFile] = "dead"] /\ holder' = Release(PidFile)
             /\ UNCHANGED <<path, sfd>> /\ PidFile # None
      BY <1>9 DEF Kill, GetPid
    <2>2. ASSUME stage' = [stage EXCEPT ![PidFile] = "dead"], holder' = Release(PidFile),
                 UNCHANGED <<path, sfd>>, PidFile # None
          PROVE  /\ PathsOwn'
                 /\ \A p \in Servers : Opened(p)' /\ Keeps(p)'
                 /\ \A u \in Tgctls : u # t => Checks(u)'
      <3>1. PICK q \in Servers : q = PidFile
        BY <1>0, <2>2, PidFileType
      <3>2. OnlyLocksOf(q) /\ Opened(q)' /\ Keeps(q)'
        BY <2>2, <3>1, ServerEnds
      <3> QED BY <1>7, <2>2, <3>1, <3>2
    <2> QED BY <1>3, <2>1, <2>2
  <1> QED
    <2>1. \/ UNCHANGED <<path, holder, stage, sfd>>
          \/ Killed(t) \/ CheckLocks(t) \/ CheckUnlocks(t) \/ Spawn(t) \/ Kill(t) \/ GetPid(t)
      BY DEF TgctlStep, Command, Construct, CheckExists, CheckOpens, Whole, Begin, OpenExisting, ChildAlive,
             StartOpens, PidInFile, Attach, PidInStatus, Confirm, RequestShutdown, Gone, AttachRemains,
             ForceDelete, GiveUp
    <2> QED BY <1>3, <1>4, <1>5, <1>6, <1>8, <1>9, <2>1

(* The initial state has the invariant. *)
LEMMA LocksInit == Init => LInv
  <1> SUFFICES ASSUME Init PROVE LInv
    OBVIOUS
  <1>1. TypeOK
    BY InitTypes
  <1>2. PathsOwn
    BY DEF Init, PathsOwn
  <1>3. ASSUME NEW p \in Servers PROVE Opened(p) /\ Keeps(p)
    <2>1. stage[p] = "unborn" /\ "unborn" \notin PidOpened \cup DbOpened \cup Locked \cup Ready
      BY DEF Init, PidOpened, DbOpened, Locked, Ready
    <2> QED BY <2>1 DEF Opened, Keeps
  <1>4. ASSUME NEW t \in Tgctls PROVE Checks(t)
    BY DEF Init, Checks, At
  <1> QED BY <1>1, <1>2, <1>3, <1>4 DEF LInv

(* Every step keeps it. *)
LEMMA LocksStep == LInv /\ [Next]_vars => LInv'
  <1> SUFFICES ASSUME LInv, [Next]_vars PROVE LInv'
    OBVIOUS
  <1>0. TypeOK
    BY DEF LInv
  <1>1. ASSUME NEW p \in Servers, ServerStep(p) \/ BootError(p) \/ AltimeterError(p) \/ Crash(p)
        PROVE  LInv'
    <2>1. PathsOwn' /\ OnlyLocksOf(p) /\ Opened(p)' /\ Keeps(p)'
      BY <1>1, ServerLocks
    <2>2. TypeOK'
      BY <1>0, <1>1, ServerTypes
    <2>3. tg' = tg /\ \A q \in Servers : q # p => stage'[q] = stage[q] /\ sfd'[q] = sfd[q]
      <3>1. tg' = tg /\ \E to : stage' = [stage EXCEPT ![p] = to]
        BY <1>1 DEF ServerStep, OpenPidFile, Truncate, LockPidFile, CreateStatus, StorePid, FillContents,
                    OpenDbFile, LockDbFile, Activate, Deactivate, Deactivated, CloseDbFile, UnlinkDbFile,
                    RemoveStatus, ClosePidFile, UnlinkPidFile, Exit, BootError, AltimeterError, Crash, Go,
                    tgctlVars
      <3>2. sfd' = sfd \/ \E f \in Files : \E i : sfd' = [sfd EXCEPT ![p][f] = i]
        BY <1>1 DEF ServerStep, OpenPidFile, Truncate, LockPidFile, CreateStatus, StorePid, FillContents,
                    OpenDbFile, LockDbFile, Activate, Deactivate, Deactivated, CloseDbFile, UnlinkDbFile,
                    RemoveStatus, ClosePidFile, UnlinkPidFile, Exit, BootError, AltimeterError, Crash,
                    Open, Close, Unlink
      <3> QED BY <1>0, <3>1, <3>2 DEF TypeOK
    <2>4. \A q \in Servers : Opened(q)' /\ Keeps(q)'
      BY <2>1, <2>3, OtherServers
    <2>5. \A t \in Tgctls : Checks(t)'
      BY <2>1, <2>3, OtherTgctls, LifecycleAssumption
    <2> QED BY <2>1, <2>2, <2>4, <2>5 DEF LInv
  <1>2. ASSUME NEW t \in Tgctls, Command(t) \/ TgctlStep(t) \/ GiveUp(t)
        PROVE  LInv'
    BY <1>0, <1>2, TgctlTypes, TgctlChecks, TgctlLocks DEF LInv
  <1>3. CASE UNCHANGED vars
    <2>1. TypeOK'
      BY <1>0, <1>3 DEF TypeOK, vars, fileVars, serverVars, tgctlVars
    <2>2. UNCHANGED <<path, holder, sfd, stage, tg>>
      BY <1>3 DEF vars, fileVars, serverVars, tgctlVars
    <2> QED BY <2>1, <2>2 DEF LInv, PathsOwn, Opened, Keeps, Checks, At
  <1> QED BY <1>1, <1>2, <1>3 DEF Next

(***************************************************************************)
(* The locks of a server are its own from proc_mutex::lock to its          *)
(* destructor, and that of the database name while it is ready or serves:  *)
(* for any number of servers and tgctl processes, whatever commands they   *)
(* run, whichever server is killed, crashes or fails to boot.              *)
(***************************************************************************)
THEOREM ServersKeepTheirLocks == Spec => []LocksKept
  <1>1. LInv => LocksKept
    BY DEF LInv, Keeps, LocksKept
  <1> QED BY <1>1, LocksInit, LocksStep, PTL DEF Spec
-----------------------------------------------------------------------------

(***************************************************************************)
(* The control flow of tgctl                                               *)
(***************************************************************************)

(* Within proc_mutex::check and status_check_internal a tgctl process is   *)
(* where it will return to.                                                *)
Checking == {"construct", "exists", "reopen", "trylock", "unlock", "whole"}
Place(t) == IF tg[t].pc \in Checking THEN tg[t].ret ELSE tg[t].pc

(* The commands that come to a place. *)
Starts == {"start", "force"}
Kills == {"kill", "force"}
Runs(l) ==
  CASE l = "idle" -> CommandNames
    [] l = "begin" -> {"start", "force", "shutdown", "kill", "status"}
    [] l = "open" -> {"force", "shutdown", "kill", "pid", "diagnostic"}
    [] l \in {"spawn", "alive", "mutex", "pidfile", "pidstatus", "confirm"} -> Starts
    [] l = "attach" -> Starts \cup {"shutdown"}
    [] l \in {"request", "gone"} -> {"shutdown"}
    [] l \in {"victim", "killed", "remains", "delete"} -> Kills
    [] OTHER -> {"pid", "diagnostic"}

Flow(t) ==
  /\ tg[t].cmd \in Runs(Place(t))
  /\ tg[t].pc \in {"construct", "whole"} => tg[t].ret \in StatusChecks
  /\ tg[t].pc \in TgctlRets => tg[t].ret = tg[t].pc

(* The step of t gives it these fields, and leaves the other tgctl         *)
(* processes alone.                                                        *)
Becomes(t, pc, ret, fd, res, child, att, out) ==
  /\ tg'[t].pc = pc /\ tg'[t].ret = ret /\ tg'[t].fd = fd /\ tg'[t].res = res
  /\ tg'[t].child = child /\ tg'[t].att = att /\ tg'[t].out = out
  /\ tg'[t].cmd = tg[t].cmd
  /\ \A u \in Tgctls : u # t => tg'[u] = tg[u]

(* The steps by the fields that they store. *)
LEMMA Effects ==
  ASSUME TypeOK, NEW t \in Tgctls
  PROVE  LET s == tg[t] IN
         /\ \A l : Goto(t, l) => Becomes(t, l, s.ret, s.fd, s.res, s.child, s.att, s.out)
         /\ \A o : End(t, o) => Becomes(t, "idle", s.ret, s.fd, s.res, s.child, s.att, o)
         /\ \A l, r : Calls(t, l, r) => Becomes(t, l, r, s.fd, s.res, s.child, s.att, s.out)
         /\ \A l, r : tg' = [tg EXCEPT ![t].pc = l, ![t].res = r] =>
                         Becomes(t, l, s.ret, s.fd, r, s.child, s.att, s.out)
         /\ \A l, f : tg' = [tg EXCEPT ![t].pc = l, ![t].fd = f] =>
                         Becomes(t, l, s.ret, f, s.res, s.child, s.att, s.out)
         /\ \A l, r, f : tg' = [tg EXCEPT ![t].pc = l, ![t].ret = r, ![t].fd = f] =>
                         Becomes(t, l, r, f, s.res, s.child, s.att, s.out)
         /\ \A l, r, c : tg' = [tg EXCEPT ![t].pc = l, ![t].ret = r, ![t].child = c] =>
                         Becomes(t, l, r, s.fd, s.res, c, s.att, s.out)
         /\ \A l, f, c : tg' = [tg EXCEPT ![t].pc = l, ![t].fd = f, ![t].child = c] =>
                         Becomes(t, l, s.ret, f, s.res, c, s.att, s.out)
         /\ \A l, a : tg' = [tg EXCEPT ![t].pc = l, ![t].att = a] =>
                         Becomes(t, l, s.ret, s.fd, s.res, s.child, a, s.out)
         /\ \A l, o, c : tg' = [tg EXCEPT ![t].pc = l, ![t].out = o, ![t].child = c] =>
                         Becomes(t, l, s.ret, s.fd, s.res, c, s.att, o)
  <1>0. tg \in [Tgctls -> TgctlType] /\ tg[t] \in TgctlType
    BY DEF TypeOK
  <1> USE <1>0 DEF TgctlType, Becomes
  <1>1. \A l : Goto(t, l) => Becomes(t, l, tg[t].ret, tg[t].fd, tg[t].res, tg[t].child, tg[t].att, tg[t].out)
    BY SMT DEF Goto
  <1>2. \A o : End(t, o) => Becomes(t, "idle", tg[t].ret, tg[t].fd, tg[t].res, tg[t].child, tg[t].att, o)
    BY SMT DEF End
  <1>3. \A l, r : Calls(t, l, r) => Becomes(t, l, r, tg[t].fd, tg[t].res, tg[t].child, tg[t].att, tg[t].out)
    BY SMT DEF Calls
  <1>4. ASSUME NEW l, NEW r, tg' = [tg EXCEPT ![t].pc = l, ![t].res = r]
        PROVE  Becomes(t, l, tg[t].ret, tg[t].fd, r, tg[t].child, tg[t].att, tg[t].out)
    BY <1>4
  <1>5. ASSUME NEW l, NEW f, tg' = [tg EXCEPT ![t].pc = l, ![t].fd = f]
        PROVE  Becomes(t, l, tg[t].ret, f, tg[t].res, tg[t].child, tg[t].att, tg[t].out)
    BY <1>5
  <1>6. ASSUME NEW l, NEW r, NEW f, tg' = [tg EXCEPT ![t].pc = l, ![t].ret = r, ![t].fd = f]
        PROVE  Becomes(t, l, r, f, tg[t].res, tg[t].child, tg[t].att, tg[t].out)
    BY <1>6
  <1>7. ASSUME NEW l, NEW r, NEW c, tg' = [tg EXCEPT ![t].pc = l, ![t].ret = r, ![t].child = c]
        PROVE  Becomes(t, l, r, tg[t].fd, tg[t].res, c, tg[t].att, tg[t].out)
    BY <1>7
  <1>8. ASSUME NEW l, NEW f, NEW c, tg' = [tg EXCEPT ![t].pc = l, ![t].fd = f, ![t].child = c]
        PROVE  Becomes(t, l, tg[t].ret, f, tg[t].res, c, tg[t].att, tg[t].out)
    BY <1>8
  <1>9. ASSUME NEW l, NEW a, tg' = [tg EXCEPT ![t].pc = l, ![t].att = a]
        PROVE  Becomes(t, l, tg[t].ret, tg[t].fd, tg[t].res, tg[t].child, a, tg[t].out)
    BY <1>9
  <1>10. ASSUME NEW l, NEW o, NEW c, tg' = [tg EXCEPT ![t].pc = l, ![t].out = o, ![t].child = c]
         PROVE  Becomes(t, l, tg[t].ret, tg[t].fd, tg[t].res, c, tg[t].att, o)
    BY <1>10
  <1> QED BY ONLY <1>1, <1>2, <1>3, <1>4, <1>5, <1>6, <1>7, <1>8, <1>9, <1>10

(***************************************************************************)
(* AnswerGrounded                                                          *)
(*                                                                         *)
(* The inductive invariant adds where "activated" comes from: a status     *)
(* segment in that state is that of a server that was activated, and the   *)
(* result of a check is read from such a segment.  And it adds the control *)
(* flow: which command an "ok" is the outcome of depends on the way there. *)
(***************************************************************************)
Grounded(t) ==
  /\ tg[t].res = "activated" => served # {}
  /\ Ended(t, "status", "running") \/ Ended(t, "start", "ok") \/ Ended(t, "force", "ok") => served # {}

GInv ==
  /\ LInv
  /\ \A p \in Servers : seg[p].state = "activated" => p \in served
  /\ \A t \in Tgctls : Flow(t) /\ Grounded(t)

(* A step of tgctl keeps what the invariant says of itself. *)
LEMMA TgctlGrounded ==
  ASSUME GInv, NEW t \in Tgctls, Command(t) \/ TgctlStep(t) \/ GiveUp(t)
  PROVE  Flow(t)' /\ Grounded(t)'
  <1>0. TypeOK /\ Flow(t) /\ Grounded(t) /\ tg \in [Tgctls -> TgctlType]
    BY DEF GInv, LInv, TypeOK
  <1>1. /\ tg[t].cmd \in CommandNames /\ tg[t].pc \in TgctlPcs /\ tg[t].ret \in TgctlRets
        /\ tg[t].res \in TgctlResults
    BY <1>0 DEF TgctlType
  <1>2. served' = served
    BY DEF Command, TgctlStep, Construct, CheckExists, CheckOpens, CheckLocks, CheckUnlocks, Whole, Begin,
           OpenExisting, Spawn, ChildAlive, StartOpens, PidInFile, Attach, PidInStatus, Confirm,
           RequestShutdown, Gone, Kill, Killed, AttachRemains, ForceDelete, GetPid, GiveUp, serverVars
  <1> DEFINE s == tg[t]
  <1>3. ASSUME NEW l, NEW f, Becomes(t, l, s.ret, f, s.res, s.child, s.att, s.out),
               <<s.pc, l>> \in {<<"construct", "exists">>, <<"exists", "reopen">>, <<"exists", "trylock">>,
                               <<"reopen", "trylock">>, <<"trylock", "unlock">>}
        PROVE  Flow(t)' /\ Grounded(t)'
    BY <1>0, <1>1, <1>2, <1>3
       DEF Becomes, Flow, Grounded, Place, Runs, Checking, Starts, Kills, StatusChecks, TgctlRets, Ended, At
  <1>4. ASSUME NEW r, Becomes(t, s.ret, s.ret, s.fd, r, s.child, s.att, s.out),
               s.pc \in Checking, r = "activated" => served # {}
        PROVE  Flow(t)' /\ Grounded(t)'
    BY <1>0, <1>1, <1>2, <1>4
       DEF Becomes, Flow, Grounded, Place, Runs, Checking, Starts, Kills, StatusChecks, TgctlRets, Ended, At
  <1>5. CASE Construct(t)
    <2>1. Becomes(t, "exists", s.ret, path["pid"], s.res, s.child, s.att, s.out)
      BY <1>0, <1>5, Effects DEF Construct
    <2> QED BY <1>3, <1>5, <2>1 DEF Construct, At
  <1>6. CASE CheckExists(t)
    <2>1. \/ Becomes(t, s.ret, s.ret, s.fd, "no_file", s.child, s.att, s.out)
          \/ \E l \in {"reopen", "trylock"} : Becomes(t, l, s.ret, s.fd, s.res, s.child, s.att, s.out)
      BY <1>0, <1>6, Effects DEF CheckExists, Goto
    <2> QED BY <1>3, <1>4, <1>6, <2>1, SMT DEF CheckExists, At, Checking
  <1>7. CASE CheckOpens(t)
    <2>1. \/ Becomes(t, s.ret, s.ret, s.fd, "error", s.child, s.att, s.out)
          \/ Becomes(t, "trylock", s.ret, path["pid"], s.res, s.child, s.att, s.out)
      BY <1>0, <1>7, Effects DEF CheckOpens
    <2> QED BY <1>3, <1>4, <1>7, <2>1, SMT DEF CheckOpens, At, Checking
  <1>8. CASE CheckLocks(t)
    <2>1. CASE holder[tg[t].fd] = None
      BY <1>0, <1>3, <1>8, <2>1, Effects DEF CheckLocks, At
    <2>2. CASE holder[tg[t].fd] # None /\ s.ret \notin StatusChecks
      <3>1. Becomes(t, s.ret, s.ret, s.fd, "locked", s.child, s.att, s.out)
        BY <1>0, <1>8, <2>2, Effects DEF CheckLocks
      <3> QED BY <1>4, <1>8, <3>1, SMT DEF CheckLocks, At, Checking
    <2>3. CASE holder[tg[t].fd] # None /\ s.ret \in StatusChecks
      <3>1. Becomes(t, "whole", s.ret, s.fd, "locked", s.child, s.att, s.out)
        BY <1>0, <1>8, <2>3, Effects DEF CheckLocks
      <3> QED
        BY <1>0, <1>1, <1>2, <1>8, <2>3, <3>1
           DEF CheckLocks, Becomes, Flow, Grounded, Place, Checking, StatusChecks, TgctlRets, Ended, At
    <2> QED BY <2>1, <2>2, <2>3
  <1>9. CASE CheckUnlocks(t)
    <2>1. Becomes(t, s.ret, s.ret, s.fd, "not_locked", s.child, s.att, s.out)
      BY <1>0, <1>9, Effects DEF CheckUnlocks
    <2> QED BY <1>4, <1>9, <2>1, SMT DEF CheckUnlocks, At, Checking
  <1>10. CASE Whole(t)
    <2>1. PICK r : /\ r = IF shmName = None THEN "count_over" ELSE seg[shmName].state
                   /\ Becomes(t, s.ret, s.ret, s.fd, r, s.child, s.att, s.out)
      BY <1>0, <1>10, Effects DEF Whole
    <2>2. r = "activated" => served # {}
      BY <1>0, <2>1 DEF GInv, TypeOK
    <2> QED BY <1>4, <1>10, <2>1, <2>2 DEF Whole, At, Checking
  <1>11. CASE Command(t)
    <2>1. PICK c \in Commands :
              tg' = [tg EXCEPT ![t] = [
                 cmd |-> c, ret |-> "begin", fd |-> NoInode, res |-> "no_file",
                 child |-> None, att |-> None, out |-> "absent",
                 pc |-> IF c \in {"pid", "diagnostic", "force"} THEN "open" ELSE "construct"]]
      BY <1>11 DEF Command
    <2>2. /\ tg'[t].cmd = c /\ tg'[t].ret = "begin" /\ tg'[t].res = "no_file" /\ tg'[t].out = "absent"
          /\ tg'[t].pc = IF c \in {"pid", "diagnostic", "force"} THEN "open" ELSE "construct"
      BY <1>0, <2>1
    <2>3. c \in CommandNames
      BY LifecycleAssumption
    <2> QED
      BY <1>0, <1>2, <2>2, <2>3
         DEF Flow, Grounded, Place, Runs, Checking, Starts, Kills, StatusChecks, TgctlRets, Ended, At, CommandNames
  <1>12. ASSUME NEW l, NEW r, NEW f, NEW c, NEW a, Becomes(t, l, r, f, s.res, c, a, s.out),
                l \in TgctlPcs \ ({"idle"} \cup Checking \cup TgctlRets), s.cmd \in Runs(l)
         PROVE  Flow(t)' /\ Grounded(t)'
    BY <1>0, <1>1, <1>2, <1>12
       DEF Becomes, Flow, Grounded, Place, Checking, TgctlRets, TgctlPcs, Ended, At
  <1>13. ASSUME NEW o, NEW c, Becomes(t, "idle", s.ret, s.fd, s.res, c, s.att, o),
                o = "running" /\ s.cmd = "status" => served # {},
                o = "ok" /\ s.cmd \in Starts => served # {}
         PROVE  Flow(t)' /\ Grounded(t)'
    BY <1>0, <1>1, <1>2, <1>13
       DEF Becomes, Flow, Grounded, Place, Runs, Checking, Starts, TgctlRets, Ended, At
  <1>14. ASSUME NEW l, NEW r, NEW f, NEW c, Becomes(t, l, r, f, s.res, c, s.att, s.out),
                l \in {"construct", "exists"}, s.cmd \in Runs(r), l = "construct" => r \in StatusChecks
         PROVE  Flow(t)' /\ Grounded(t)'
    BY <1>0, <1>1, <1>2, <1>14
       DEF Becomes, Flow, Grounded, Place, Checking, TgctlRets, Ended, At
  <1>15. ASSUME s.pc \notin Checking PROVE s.cmd \in Runs(s.pc)
    BY <1>0, <1>15 DEF Flow, Place
  <1>16. CASE Begin(t)
    <2>1. s.cmd \in Runs("begin")
      BY <1>15, <1>16 DEF Begin, At, Checking
    <2>2. s.res = "activated" => served # {}
      BY <1>0 DEF Grounded
    <2>3. CASE s.cmd = "status"
      <3>1. Becomes(t, "idle", s.ret, s.fd, s.res, s.child, s.att, StatusAnswer(s.res))
        BY <1>0, <1>16, <2>3, Effects DEF Begin
      <3>2. StatusAnswer(s.res) = "running" => s.res = "activated"
        BY <1>1 DEF StatusAnswer, Booting, TgctlResults
      <3> QED BY <1>13, <2>2, <2>3, <3>1, <3>2 DEF Starts
    <2>4. CASE s.cmd \in {"start", "force"}
      <3>1. \/ Becomes(t, "idle", s.ret, s.fd, s.res, s.child, s.att, "err")
            \/ Becomes(t, "spawn", s.ret, s.fd, s.res, s.child, s.att, s.out)
        BY <1>0, <1>16, <2>4, Effects DEF Begin
      <3> QED BY <1>12, <1>13, <2>4, <3>1, SMT DEF Runs, Starts, TgctlPcs, Checking, TgctlRets
    <2>5. CASE s.cmd \in {"shutdown", "kill"}
      <3>1. \/ Becomes(t, "idle", s.ret, s.fd, s.res, s.child, s.att, "ok")
            \/ Becomes(t, "open", s.ret, s.fd, s.res, s.child, s.att, s.out)
        BY <1>0, <1>16, <2>5, Effects DEF Begin
      <3> QED BY <1>12, <1>13, <2>5, <3>1 DEF Runs, Starts, TgctlPcs, Checking, TgctlRets
    <2> QED BY <2>1, <2>3, <2>4, <2>5 DEF Runs
  <1>17. CASE OpenExisting(t)
    <2>1. s.cmd \in Runs("open")
      BY <1>15, <1>17 DEF OpenExisting, At, Checking
    <2>2. PICK l : /\ l = CASE s.cmd = "shutdown"          -> "attach"
                            [] s.cmd \in {"kill", "force"} -> "victim"
                            [] OTHER                       -> "exists"
                   /\ \/ Becomes(t, "idle", s.ret, s.fd, s.res, s.child, s.att, "err")
                      \/ Becomes(t, l, "getpid", path["pid"], s.res, s.child, s.att, s.out)
      BY <1>0, <1>17, Effects DEF OpenExisting, End
    <2> QED BY <1>12, <1>13, <1>14, <2>1, <2>2, SMT DEF Runs, Starts, Kills, TgctlPcs, Checking, TgctlRets
  <1>18. CASE Spawn(t)
    <2>1. \E c : Becomes(t, "alive", s.ret, NoInode, s.res, c, s.att, s.out)
      BY <1>0, <1>18, Effects DEF Spawn
    <2>2. s.cmd \in Runs("spawn")
      BY <1>15, <1>18 DEF Spawn, At, Checking
    <2> QED BY <1>12, <2>1, <2>2 DEF Runs, TgctlPcs, Checking, TgctlRets
  <1>19. CASE ChildAlive(t)
    <2>1. \/ Becomes(t, "mutex", s.ret, s.fd, s.res, s.child, s.att, s.out)
          \/ Becomes(t, "idle", s.ret, s.fd, s.res, s.child, s.att, "err")
      BY <1>0, <1>19, Effects DEF ChildAlive
    <2>2. s.cmd \in Runs("alive")
      BY <1>15, <1>19 DEF ChildAlive, At, Checking
    <2> QED BY <1>12, <1>13, <2>1, <2>2, SMT DEF Runs, TgctlPcs, Checking, TgctlRets
  <1>20. CASE StartOpens(t)
    <2>1. \E f : \E l \in {"alive", "exists"} : Becomes(t, l, "pidfile", f, s.res, s.child, s.att, s.out)
      BY <1>0, <1>20, Effects DEF StartOpens
    <2>2. s.cmd \in Runs("mutex")
      BY <1>15, <1>20 DEF StartOpens, At, Checking
    <2> QED BY <1>12, <1>14, <2>1, <2>2 DEF Runs, TgctlPcs, Checking, TgctlRets
  <1>21. CASE PidInFile(t)
    <2>1. \/ \E l \in {"alive", "attach"} : Becomes(t, l, s.ret, s.fd, s.res, s.child, s.att, s.out)
          \/ Becomes(t, "idle", s.ret, s.fd, s.res, s.child, s.att, "err")
      BY <1>0, <1>21, Effects DEF PidInFile
    <2>2. s.cmd \in Runs("pidfile")
      BY <1>15, <1>21 DEF PidInFile, At, Checking
    <2> QED BY <1>12, <1>13, <2>1, <2>2, SMT DEF Runs, TgctlPcs, Checking, TgctlRets
  <1>22. CASE Attach(t)
    <2>1. \/ /\ s.cmd = "shutdown"
             /\ \E a : Becomes(t, "request", s.ret, s.fd, s.res, s.child, a, s.out)
          \/ /\ s.cmd # "shutdown"
             /\ \E a : Becomes(t, "pidstatus", s.ret, s.fd, s.res, s.child, a, s.out)
          \/ Becomes(t, "idle", s.ret, s.fd, s.res, s.child, s.att, "err")
      BY <1>0, <1>22, Effects DEF Attach
    <2>2. s.cmd \in Runs("attach")
      BY <1>15, <1>22 DEF Attach, At, Checking
    <2> QED BY <1>12, <1>13, <2>1, <2>2, SMT DEF Runs, TgctlPcs, Checking, TgctlRets
  <1>23. CASE PidInStatus(t)
    <2>1. \/ Becomes(t, "construct", "confirm", s.fd, s.res, s.child, s.att, s.out)
          \/ Becomes(t, "idle", s.ret, s.fd, s.res, s.child, s.att, "err")
      BY <1>0, <1>23, Effects DEF PidInStatus
    <2>2. s.cmd \in Runs("pidstatus")
      BY <1>15, <1>23 DEF PidInStatus, At, Checking
    <2> QED BY <1>13, <1>14, <2>1, <2>2, SMT DEF Runs, StatusChecks
  <1>24. CASE Confirm(t)
    <2>1. \/ /\ s.res = "activated"
             /\ Becomes(t, "idle", s.ret, s.fd, s.res, s.child, s.att, "ok")
          \/ Becomes(t, "pidstatus", s.ret, s.fd, s.res, s.child, s.att, s.out)
          \/ Becomes(t, "idle", s.ret, s.fd, s.res, s.child, s.att, "err")
      BY <1>0, <1>24, Effects DEF Confirm
    <2>2. s.cmd \in Runs("confirm")
      BY <1>15, <1>24 DEF Confirm, At, Checking
    <2>3. s.res = "activated" => served # {}
      BY <1>0 DEF Grounded
    <2> QED BY <1>12, <1>13, <2>1, <2>2, <2>3 DEF Runs, TgctlPcs, Checking, TgctlRets
  <1>25. CASE RequestShutdown(t)
    <2>1. \/ Becomes(t, "idle", s.ret, s.fd, s.res, s.child, s.att, "err")
          \/ Becomes(t, "exists", "gone", s.fd, s.res, s.child, s.att, s.out)
      BY <1>0, <1>25, Effects DEF RequestShutdown
    <2>2. s.cmd \in Runs("request")
      BY <1>15, <1>25 DEF RequestShutdown, At, Checking
    <2> QED BY <1>13, <1>14, <2>1, <2>2, SMT DEF Runs
  <1>26. CASE Gone(t)
    <2>1. \/ Becomes(t, "idle", s.ret, s.fd, s.res, s.child, s.att, "ok")
          \/ Becomes(t, "exists", s.ret, s.fd, s.res, s.child, s.att, s.out)
      BY <1>0, <1>26, Effects DEF Gone
    <2>2. s.cmd \in Runs("gone") /\ s.ret = "gone"
      BY <1>0, <1>15, <1>26 DEF Gone, At, Checking, Flow, TgctlRets
    <2> QED BY <1>13, <1>14, <2>1, <2>2 DEF Runs, Starts
  <1>27. CASE Kill(t)
    <2>1. \/ Becomes(t, "idle", s.ret, s.fd, s.res, s.child, s.att, "err")
          \/ \E c : Becomes(t, "construct", "killed", s.fd, s.res, c, s.att, s.out)
      BY <1>0, <1>27, Effects DEF Kill
    <2>2. s.cmd \in Runs("victim")
      BY <1>15, <1>27 DEF Kill, At, Checking
    <2> QED BY <1>13, <1>14, <2>1, <2>2, SMT DEF Runs, StatusChecks
  <1>28. CASE Killed(t)
    <2>1. \/ Becomes(t, "remains", s.ret, s.fd, s.res, s.child, s.att, s.out)
          \/ Becomes(t, "construct", s.ret, s.fd, s.res, s.child, s.att, s.out)
      BY <1>0, <1>28, Effects DEF Killed
    <2>2. s.cmd \in Runs("killed") /\ s.ret = "killed"
      BY <1>0, <1>15, <1>28 DEF Killed, At, Checking, Flow, TgctlRets
    <2> QED BY <1>12, <1>14, <2>1, <2>2 DEF Runs, StatusChecks, TgctlPcs, Checking, TgctlRets
  <1>29. CASE AttachRemains(t)
    <2>1. \/ Becomes(t, "delete", s.ret, s.fd, s.res, s.child, s.att, s.out)
          \/ Becomes(t, "idle", s.ret, s.fd, s.res, s.child, s.att, "err")
      BY <1>0, <1>29, Effects DEF AttachRemains
    <2>2. s.cmd \in Runs("remains")
      BY <1>15, <1>29 DEF AttachRemains, At, Checking
    <2> QED BY <1>12, <1>13, <2>1, <2>2, SMT DEF Runs, TgctlPcs, Checking, TgctlRets
  <1>30. CASE ForceDelete(t)
    <2>1. \/ s.cmd = "kill" /\ Becomes(t, "idle", s.ret, s.fd, s.res, s.child, s.att, "ok")
          \/ Becomes(t, "construct", "begin", s.fd, s.res, s.child, s.att, s.out)
      BY <1>0, <1>30, Effects DEF ForceDelete
    <2>2. s.cmd \in Runs("delete")
      BY <1>15, <1>30 DEF ForceDelete, At, Checking
    <2> QED BY <1>13, <1>14, <2>1, <2>2 DEF Runs, StatusChecks, Starts, Kills
  <1>31. CASE GetPid(t)
    <2>1. \/ Becomes(t, "exists", s.ret, s.fd, s.res, s.child, s.att, s.out)
          \/ \E c : \E o \in {"ok", "err"} : Becomes(t, "idle", s.ret, s.fd, s.res, c, s.att, o)
      BY <1>0, <1>31, Effects DEF GetPid
    <2>2. s.cmd \in Runs("getpid") /\ s.ret = "getpid"
      BY <1>0, <1>15, <1>31 DEF GetPid, At, Checking, Flow, TgctlRets
    <2> QED BY <1>13, <1>14, <2>1, <2>2 DEF Runs, Starts
  <1>32. CASE GiveUp(t)
    <2>1. Becomes(t, "idle", s.ret, s.fd, s.res, s.child, s.att, "err")
      BY <1>0, <1>32, Effects DEF GiveUp
    <2> QED BY <1>13, <2>1, SMT
  <1> QED
    BY <1>5, <1>6, <1>7, <1>8, <1>9, <1>10, <1>11, <1>16, <1>17, <1>18, <1>19, <1>20, <1>21, <1>22,
       <1>23, <1>24, <1>25, <1>26, <1>27, <1>28, <1>29, <1>30, <1>31, <1>32 DEF TgctlStep

(* Every step keeps the invariant. *)
LEMMA GroundedStep == GInv /\ [Next]_vars => GInv'
  <1> SUFFICES ASSUME GInv, [Next]_vars PROVE GInv'
    OBVIOUS
  <1>0. LInv /\ LInv' /\ TypeOK
    BY LocksStep DEF GInv, LInv
  <1>1. ASSUME NEW p \in Servers, ServerStep(p) \/ BootError(p) \/ AltimeterError(p) \/ Crash(p)
        PROVE  GInv'
    <2>1. tg' = tg /\ served \subseteq served'
      BY <1>1 DEF ServerStep, OpenPidFile, Truncate, LockPidFile, CreateStatus, StorePid, FillContents,
                  OpenDbFile, LockDbFile, Activate, Deactivate, Deactivated, CloseDbFile, UnlinkDbFile,
                  RemoveStatus, ClosePidFile, UnlinkPidFile, Exit, BootError, AltimeterError, Crash,
                  tgctlVars
    <2>2. \A q \in Servers : seg'[q].state = "activated" => seg[q].state = "activated" \/ q \in served'
      <3>1. CASE Activate(p)
        BY <1>0, <3>1 DEF Activate, TypeOK
      <3>2. CASE StorePid(p)
        BY <1>0, <3>2, SMT DEF StorePid, TypeOK
      <3>3. CASE LockDbFile(p) \/ BootError(p) \/ Deactivate(p) \/ Deactivated(p)
        <4>1. PICK st \in {"ready", "boot_error", "deactivating", "deactivated"} :
                  seg' = [seg EXCEPT ![p].state = st]
          BY <3>3 DEF LockDbFile, BootError, Deactivate, Deactivated
        <4> QED BY <1>0, <4>1, SMT DEF TypeOK
      <3>4. CASE seg' = seg
        BY <3>4
      <3> QED
        BY <1>1, <3>1, <3>2, <3>3, <3>4
           DEF ServerStep, OpenPidFile, Truncate, LockPidFile, CreateStatus, FillContents,
               OpenDbFile, CloseDbFile, UnlinkDbFile, RemoveStatus, ClosePidFile, UnlinkPidFile, Exit,
               AltimeterError, Crash
    <2>3. \A t \in Tgctls : Flow(t)' /\ Grounded(t)'
      BY <2>1 DEF GInv, Flow, Grounded, Place, Ended, At
    <2> QED BY <1>0, <2>1, <2>2, <2>3 DEF GInv
  <1>2. ASSUME NEW t \in Tgctls, Command(t) \/ TgctlStep(t) \/ GiveUp(t)
        PROVE  GInv'
    <2>1. served' = served /\ \A u \in Tgctls : u # t => tg'[u] = tg[u]
      <3>1. served' = served
        BY <1>2 DEF Command, TgctlStep, Construct, CheckExists, CheckOpens, CheckLocks, CheckUnlocks, Whole,
           Begin, OpenExisting, Spawn, ChildAlive, StartOpens, PidInFile, Attach, PidInStatus, Confirm,
           RequestShutdown, Gone, Kill, Killed, AttachRemains, ForceDelete, GetPid, GiveUp, serverVars
      <3> QED BY <1>0, <1>2, <3>1, TgctlChecks
    <2>2. \A q \in Servers : seg'[q].state = seg[q].state
      <3>1. seg' = seg \/ seg' = [seg EXCEPT ![tg[t].att].request = TRUE]
        BY <1>2 DEF Command, TgctlStep, Construct, CheckExists, CheckOpens, CheckLocks, CheckUnlocks, Whole,
           Begin, OpenExisting, Spawn, ChildAlive, StartOpens, PidInFile, Attach, PidInStatus, Confirm,
           RequestShutdown, Gone, Kill, Killed, AttachRemains, ForceDelete, GetPid, GiveUp, serverVars
      <3> QED BY <1>0, <3>1, SMT DEF TypeOK
    <2>3. \A u \in Tgctls : u # t => Flow(u)' /\ Grounded(u)'
      BY <2>1 DEF GInv, Flow, Grounded, Place, Ended, At
    <2> QED BY <1>0, <1>2, <2>1, <2>2, <2>3, TgctlGrounded DEF GInv
  <1>3. CASE UNCHANGED vars
    <2>1. UNCHANGED <<tg, served, seg>>
      BY <1>3 DEF vars, serverVars, tgctlVars
    <2> QED BY <1>0, <2>1 DEF GInv, Flow, Grounded, Place, Ended, At
  <1> QED BY <1>1, <1>2, <1>3 DEF Next

(* Nothing has been answered at the start. *)
LEMMA GroundedInit == Init => GInv
  <1> SUFFICES ASSUME Init PROVE GInv
    OBVIOUS
  <1>1. LInv
    BY LocksInit
  <1>2. \A p \in Servers : seg[p].state # "activated"
    BY DEF Init
  <1>3. ASSUME NEW t \in Tgctls PROVE Flow(t) /\ Grounded(t)
    BY DEF Init, Flow, Grounded, Place, Runs, Checking, TgctlRets, Ended, At, CommandNames
  <1> QED BY <1>1, <1>2, <1>3 DEF GInv

(***************************************************************************)
(* When tgctl status says RUNNING, or tgctl start that it has launched a   *)
(* server, some server has been activated by then: for any number of tgctl *)
(* processes that run any commands, and whatever fails or dies under them. *)
(***************************************************************************)
THEOREM NoAnswerIsMadeUp == Spec => []AnswerGrounded
  <1>1. GInv => AnswerGrounded
    BY DEF GInv, Grounded, AnswerGrounded
  <1> QED BY <1>1, GroundedInit, GroundedStep, PTL DEF Spec

=============================================================================
