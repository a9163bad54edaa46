---------------------------- MODULE SerialProofs ----------------------------
(***************************************************************************)
(* Proofs about ServerLifecycle with one administrator, who waits for each *)
(* command to return before the next: the invariant SInv, that the steps   *)
(* of the servers and of tgctl keep it, and that therefore a server that   *)
(* serves is found and every report is true.                               *)
(***************************************************************************)
EXTENDS ServerLifecycleProofs

(* The prover of the leaves that do not name one. *)
USE Zenon

USE DEF None, Files, States, Stages

OneAdministrator == (\A t, u \in Tgctls : t = u) /\ ~Timeouts /\ ~BootErrors

Deserted == \A p \in Servers : ~Alive(p)

(* The stages from the one at which something is there to its removal. *)
Unseen == {"unborn", "spawned"}
Early == {"opened", "truncated", "locked", "created", "setup"}
Filled == {"filled", "db_opened", "ready", "activated"}
Leaving == {"deactivating", "deactivated", "db_closed", "db_removed", "removed", "closed"}
Named == Early \cup Filled \cup Leaving
Visible == {"created", "setup"} \cup Filled \cup {"deactivating", "deactivated", "db_closed", "db_removed"}

(* What a server has left where the others look for it. *)
Standing(p) ==
  /\ stage[p] # "failed"
  /\ stage[p] \in Named => path["pid"] = sfd[p]["pid"] /\ path["pid"] # NoInode
  /\ stage[p] \in Filled => content[sfd[p]["pid"]] = p
  /\ stage[p] \in Visible => shmName = p
  /\ stage[p] = "unborn" => shmName # p
  /\ stage[p] \in Unseen \cup Early => (\A i \in Inodes : content[i] # p) /\ ~seg[p].request
  /\ stage[p] \in Unseen \cup Early \cup Filled =>
        seg[p].state = IF stage[p] \in {"ready", "activated"} THEN stage[p] ELSE "initial"
  /\ seg[p].pid \in {p, None}

Alone == \A p, q \in Servers : Alive(p) /\ Alive(q) => p = q

(* Who has a lock. *)
Holders ==
  /\ \A i \in Inodes, p \in Servers : holder[i] = p =>
        \/ stage[p] \in Locked /\ i = sfd[p]["pid"]
        \/ stage[p] \in Ready /\ i = sfd[p]["db"]
  /\ \A p \in Servers, t \in Tgctls : holder[<<p, "db">>] # t
  /\ \A t \in Tgctls : tg[t].fd \in (Servers \X {"pid"}) \cup {NoInode}

(* What the only tgctl process knows of the servers. *)
Serving == \A p \in Servers : Alive(p) => Running(p) /\ ~seg[p].request

Starting(t) ==
  LET c == tg[t].child IN
  /\ c \in Servers /\ stage[c] # "unborn" /\ stage[c] \notin Leaving /\ ~seg[c].request
  /\ \A p \in Servers : Alive(p) => p = c
  /\ (\E i \in Inodes : content[i] = c) => shmName = c
  /\ tg[t].fd # NoInode => path["pid"] # NoInode
  /\ Place(t) = "pidfile" => tg[t].fd # NoInode
  /\ Place(t) \in {"attach", "pidstatus", "confirm"} =>
        shmName = c /\ stage[c] \in Filled \cup {"dead"}
  /\ Place(t) \in {"pidstatus", "confirm"} => tg[t].att = c
  /\ At(t, "confirm") => /\ Alive(c) => tg[t].res \in {"initial", "ready", "activated"}
                         /\ tg[t].res = "activated" => c \in served /\ stage[c] \in {"activated", "dead"}

(* Places from which a server has been spawned and is waited for. *)
Awaits(t) ==
  \/ Place(t) \in {"alive", "mutex", "pidfile", "pidstatus", "confirm"}
  \/ Place(t) = "attach" /\ tg[t].cmd # "shutdown"

(* Places at which nothing has been done about the servers. *)
Looks(t) ==
  \/ Place(t) \in {"idle", "begin", "open", "victim", "request", "getpid"}
  \/ Place(t) = "attach" /\ tg[t].cmd = "shutdown"

Situation(t) ==
  /\ Looks(t) => Serving
  /\ Awaits(t) => Starting(t)
  /\ Place(t) \in {"spawn", "killed", "remains", "delete"} => Deserted
  /\ Place(t) = "gone" => \A p \in Servers : Alive(p) => stage[p] \in {"activated"} \cup Leaving
  /\ tg[t].pc \in {"exists", "reopen", "trylock", "unlock"} /\ Place(t) \in {"begin", "confirm"} =>
        Deserted \/ tg[t].fd = path["pid"]
  /\ At(t, "begin") => Deserted \/ tg[t].res = "activated"
  /\ At(t, "gone") /\ tg[t].res = "no_file" => Deserted
  /\ Place(t) \in {"remains", "delete"} => path["pid"] = NoInode
  /\ Place(t) = "request" => tg[t].att \in Servers /\ stage[tg[t].att] # "unborn"

Reports(t) ==
  /\ \A c \in Starts : Ended(t, c, "ok") => tg[t].child \in served
  /\ Ended(t, "shutdown", "ok") => Deserted
  /\ tg[t].cmd = "kill" /\ Place(t) \in {"begin", "open", "victim"} => tg[t].child = None
  /\ Ended(t, "kill", "ok") /\ tg[t].child # None => Deserted /\ path["pid"] = NoInode /\ shmName = None
  /\ \A o \in {"inactive", "unknown"} : Ended(t, "status", o) => Deserted

SInv ==
  /\ GInv /\ Alone /\ Holders
  /\ \A p \in Servers : Standing(p)
  /\ \A t \in Tgctls : Situation(t) /\ Reports(t)

-----------------------------------------------------------------------------
(* Steps of a server                                                       *)

(* What every step of a server leaves alone. *)
Frame(p) ==
  /\ tg' = tg /\ served \subseteq served'
  /\ \A q \in Servers : q # p => stage'[q] = stage[q] /\ sfd'[q] = sfd[q] /\ seg'[q] = seg[q]
  /\ \A q \in Servers, i \in Inodes : q # p /\ content'[i] = q => content[i] = q
  /\ seg'[p].request = seg[p].request
  /\ shmName' \in {shmName, p, None}

(* A step of a server is one. *)
LEMMA ServerFrame ==
  ASSUME TypeOK, NEW p \in Servers, ServerStep(p) \/ Crash(p)
  PROVE  Frame(p)
  <1>1. tg' = tg /\ served \subseteq served' /\ \E to : stage' = [stage EXCEPT ![p] = to]
    BY DEF ServerStep, OpenPidFile, Truncate, LockPidFile, CreateStatus, StorePid, FillContents,
           OpenDbFile, LockDbFile, Activate, Deactivate, Deactivated, CloseDbFile, UnlinkDbFile,
           RemoveStatus, ClosePidFile, UnlinkPidFile, Exit, Crash, Go, tgctlVars
  <1>2. sfd' = sfd \/ \E f \in Files : \E i : sfd' = [sfd EXCEPT ![p][f] = i]
    BY DEF ServerStep, OpenPidFile, Truncate, LockPidFile, CreateStatus, StorePid, FillContents,
           OpenDbFile, LockDbFile, Activate, Deactivate, Deactivated, CloseDbFile, UnlinkDbFile,
           RemoveStatus, ClosePidFile, UnlinkPidFile, Exit, Crash, Open, Close, Unlink
  <1>3. seg' = seg \/ seg' = [seg EXCEPT ![p].pid = p] \/ \E st : seg' = [seg EXCEPT ![p].state = st]
    BY DEF ServerStep, OpenPidFile, Truncate, LockPidFile, CreateStatus, StorePid, FillContents,
           OpenDbFile, LockDbFile, Activate, Deactivate, Deactivated, CloseDbFile, UnlinkDbFile,
           RemoveStatus, ClosePidFile, UnlinkPidFile, Exit, Crash
  <1>4. content' = content \/ \E i : \E v \in {None, p} : content' = [content EXCEPT ![i] = v]
    BY DEF ServerStep, OpenPidFile, Truncate, LockPidFile, CreateStatus, StorePid, FillContents,
           OpenDbFile, LockDbFile, Activate, Deactivate, Deactivated, CloseDbFile, UnlinkDbFile,
           RemoveStatus, ClosePidFile, UnlinkPidFile, Exit, Crash, Open, Close, Unlink, fileVars
  <1>5. \A q \in Servers : q # p => stage'[q] = stage[q] /\ sfd'[q] = sfd[q]
    BY <1>1, <1>2 DEF TypeOK
  <1>6. seg'[p].request = seg[p].request /\ \A q \in Servers : q # p => seg'[q] = seg[q]
    BY <1>3, SMT DEF TypeOK
  <1>7. \A q \in Servers, i \in Inodes : q # p /\ content'[i] = q => content[i] = q
    BY <1>4, LifecycleAssumption DEF TypeOK
  <1>8. shmName' \in {shmName, p, None}
    BY DEF ServerStep, OpenPidFile, Truncate, LockPidFile, CreateStatus, StorePid, FillContents,
           OpenDbFile, LockDbFile, Activate, Deactivate, Deactivated, CloseDbFile, UnlinkDbFile,
           RemoveStatus, ClosePidFile, UnlinkPidFile, Exit, Crash
  <1> QED BY <1>1, <1>5, <1>6, <1>7, <1>8 DEF Frame

(* Where a step takes a server that is alone, and what it does to what     *)
(* others see of it.                                                       *)
Same(p) == path'["pid"] = path["pid"] /\ sfd'[p]["pid"] = sfd[p]["pid"]
SameView(p) == Same(p) /\ content' = content /\ shmName' = shmName
SameSeg(p) == seg'[p] = seg[p]
Kept(p) == SameView(p) /\ SameSeg(p)

Steps(p) ==
  LET from == stage[p]
      to == stage'[p]
  IN
  \/ /\ from = "spawned" /\ to = "opened" /\ SameSeg(p) /\ content' = content /\ shmName' = shmName
     /\ path'["pid"] = sfd'[p]["pid"] /\ path'["pid"] # NoInode
     /\ path["pid"] # NoInode => path'["pid"] = path["pid"]
  \/ /\ from = "opened" /\ to = "truncated" /\ SameSeg(p) /\ Same(p) /\ shmName' = shmName
     /\ \A i \in Inodes : content'[i] \in {content[i], None}
  \/ from = "locked" /\ to = "created" /\ SameSeg(p) /\ Same(p) /\ content' = content /\ shmName' = p
  \/ /\ from = "created" /\ to = "setup" /\ SameView(p)
     /\ seg'[p].state = seg[p].state /\ seg'[p].pid = p
  \/ /\ from = "setup" /\ to = "filled" /\ SameSeg(p) /\ Same(p) /\ shmName' = shmName
     /\ content'[sfd[p]["pid"]] = p
     /\ \A i \in Inodes : content'[i] \in {content[i], p}
  \/ <<from, to>> \in {<<"truncated", "locked">>, <<"filled", "db_opened">>} /\ Kept(p)
  \/ /\ <<from, to>> \in {<<"db_opened", "ready">>, <<"ready", "activated">>}
     /\ SameView(p) /\ seg'[p].state = to /\ seg'[p].pid = seg[p].pid
     /\ to = "activated" => p \in served'
  \/ /\ from = "activated" /\ to = "deactivating" /\ seg[p].request
     /\ SameView(p) /\ seg'[p].pid = seg[p].pid
  \/ from = "deactivating" /\ to = "deactivated" /\ SameView(p) /\ seg'[p].pid = seg[p].pid
  \/ /\ <<from, to>> \in {<<"deactivated", "db_closed">>, <<"db_closed", "db_removed">>, <<"removed", "closed">>}
     /\ Kept(p)
  \/ from = "db_removed" /\ to = "removed" /\ SameSeg(p) /\ Same(p) /\ content' = content
  \/ from = "closed" /\ to = "dead" /\ SameSeg(p)
  \/ from \notin {"unborn", "dead"} /\ to = "dead" /\ Kept(p)

(* Every step of a server is one of those. *)
LEMMA ServerDoes ==
  ASSUME SInv, OneAdministrator, NEW p \in Servers, ServerStep(p) \/ Crash(p)
  PROVE  Steps(p)
  <1>0. TypeOK /\ Opened(p) /\ PathsOwn /\ Keeps(p) /\ Standing(p) /\ p # None
    BY LifecycleAssumption DEF SInv, GInv, LInv
  <1>1. /\ stage \in [Servers -> Stages] /\ content \in [Inodes -> Servers \cup {None}]
        /\ seg \in [Servers -> [state : States, pid : Servers \cup {None}, request : BOOLEAN]]
        /\ sfd \in [Servers -> [Files -> Inodes \cup {NoInode}]]
        /\ path \in [Files -> Inodes \cup {NoInode}]
    BY <1>0 DEF TypeOK
  <1> USE DEF Same, SameView, SameSeg, Kept, Go, fileVars
  <1>2. NoInode \notin Inodes
    BY LifecycleAssumption DEF NoInode, Inodes
  <1>3. CASE OpenPidFile(p)
    <2>1. PICK i : /\ i = IF path["pid"] = NoInode THEN <<p, "pid">> ELSE path["pid"]
                   /\ path' = [path EXCEPT !["pid"] = i] /\ sfd' = [sfd EXCEPT ![p]["pid"] = i]
      BY <1>3 DEF OpenPidFile, Open
    <2>2. i \in Inodes
      BY <1>1, <2>1, InodeOf
    <2>3. path'["pid"] = i /\ sfd'[p]["pid"] = i
      BY <1>1, <2>1
    <2>4. /\ stage[p] = "spawned" /\ stage'[p] = "opened" /\ seg' = seg /\ content' = content
          /\ shmName' = shmName
      BY <1>1, <1>3 DEF OpenPidFile, Open
    <2> QED BY <1>2, <2>1, <2>2, <2>3, <2>4 DEF Steps
  <1>4. CASE Truncate(p)
    BY <1>1, <1>4 DEF Truncate, Steps
  <1>5. CASE LockPidFile(p)
    BY <1>1, <1>5 DEF LockPidFile, Steps
  <1>6. CASE CreateStatus(p)
    BY <1>1, <1>6 DEF CreateStatus, Steps
  <1>7. CASE StorePid(p)
    BY <1>1, <1>7, SMT DEF StorePid, Steps
  <1>8. CASE FillContents(p)
    <2>1. sfd[p]["pid"] \in Inodes
      BY <1>0, <1>8 DEF FillContents, Opened, PidOpened, Locked, Inodes
    <2>2. content' = [content EXCEPT ![sfd[p]["pid"]] = p]
      BY <1>8 DEF FillContents
    <2>3. content'[sfd[p]["pid"]] = p /\ \A i \in Inodes : content'[i] \in {content[i], p}
      BY <1>1, <2>1, <2>2
    <2>4. /\ stage[p] = "setup" /\ stage'[p] = "filled" /\ seg' = seg /\ path' = path /\ sfd' = sfd
          /\ shmName' = shmName
      BY <1>1, <1>8 DEF FillContents
    <2> QED BY <2>3, <2>4 DEF Steps
  <1>9. CASE OpenDbFile(p)
    <2>1. PICK i : path' = [path EXCEPT !["db"] = i] /\ sfd' = [sfd EXCEPT ![p]["db"] = i]
      BY <1>9 DEF OpenDbFile, Open
    <2>2. path'["pid"] = path["pid"] /\ sfd'[p]["pid"] = sfd[p]["pid"]
      BY <1>1, <2>1
    <2>3. /\ stage[p] = "filled" /\ stage'[p] = "db_opened" /\ seg' = seg /\ content' = content
          /\ shmName' = shmName
      BY <1>1, <1>9 DEF OpenDbFile, Open
    <2> QED BY <2>2, <2>3 DEF Steps
  <1>10. CASE LockDbFile(p)
    <2>1. stage[p] = "db_opened" /\ sfd[p]["db"] \in Servers \X {"db"} /\ sfd[p]["db"] \in Inodes
      BY <1>0, <1>10 DEF LockDbFile, Opened, DbOpened, Inodes
    <2>2. holder[sfd[p]["db"]] \notin Tgctls
      BY <2>1, SMT DEF SInv, Holders
    <2>3. ASSUME NEW q \in Servers, holder[sfd[p]["db"]] = q PROVE FALSE
      <3>1. stage[q] \in Locked \/ stage[q] \in Ready
        BY <2>1, <2>3 DEF SInv, Holders
      <3>2. Alive(p) /\ Alive(q)
        BY <2>1, <3>1 DEF Alive, Locked, Ready
      <3>3. p = q
        BY <3>2 DEF SInv, Alone
      <3>4. sfd[p]["db"] = sfd[p]["pid"]
        BY <2>1, <2>3, <3>3 DEF SInv, Holders, Ready
      <3>5. sfd[p]["pid"] \in Servers \X {"pid"}
        BY <1>0, <2>1 DEF Opened, PidOpened, Locked
      <3> QED BY <2>1, <3>4, <3>5
    <2>4. holder[sfd[p]["db"]] = None
      BY <1>0, <2>1, <2>2, <2>3 DEF TypeOK
    <2> QED BY <1>1, <1>10, <2>1, <2>4, SMT DEF LockDbFile, Steps
  <1>11. CASE Activate(p)
    BY <1>1, <1>11, SMT DEF Activate, Steps
  <1>12. CASE Deactivate(p)
    BY <1>1, <1>12 DEF Deactivate, Steps
  <1>13. CASE Deactivated(p)
    BY <1>1, <1>13 DEF Deactivated, Steps
  <1>14. CASE CloseDbFile(p)
    BY <1>1, <1>14 DEF CloseDbFile, Close, Steps
  <1>15. CASE UnlinkDbFile(p)
    BY <1>1, <1>15 DEF UnlinkDbFile, Unlink, Steps
  <1>16. CASE RemoveStatus(p)
    BY <1>1, <1>16 DEF RemoveStatus, Steps
  <1>17. CASE ClosePidFile(p)
    BY <1>1, <1>17 DEF ClosePidFile, Close, Steps
  <1>18. CASE UnlinkPidFile(p)
    BY <1>1, <1>18 DEF UnlinkPidFile, Unlink, Steps
  <1>19. CASE Exit(p)
    BY <1>0, <1>19 DEF Exit, Standing
  <1>20. CASE Crash(p)
    BY <1>1, <1>20 DEF Crash, Alive, Steps
  <1> QED
    BY <1>3, <1>4, <1>5, <1>6, <1>7, <1>8, <1>9, <1>10, <1>11, <1>12, <1>13, <1>14, <1>15, <1>16, <1>17,
       <1>18, <1>19, <1>20 DEF ServerStep

(* The servers stay standing. *)
LEMMA StandingKept ==
  ASSUME SInv, OneAdministrator, NEW p \in Servers, Frame(p), Steps(p)
  PROVE  Alone' /\ \A q \in Servers : Standing(q)'
  <1>0. TypeOK /\ Standing(p) /\ Opened(p) /\ p # None
    BY LifecycleAssumption DEF SInv, GInv, LInv
  <1>1. Alive(p)
    BY DEF Steps, Alive
  <1>2. Alone'
    BY <1>1 DEF SInv, Alone, Alive, Frame
  <1>3. ASSUME NEW q \in Servers, q # p PROVE Standing(q)'
    <2>1. ~Alive(q) /\ Standing(q)
      BY <1>1, <1>3 DEF SInv, Alone
    <2>2. stage[q] \in {"unborn", "dead"} /\ stage'[q] = stage[q] /\ seg'[q] = seg[q]
      BY <1>3, <2>1 DEF Alive, Frame
    <2>3. stage'[q] = "unborn" => \A i \in Inodes : content'[i] # q
      BY <1>3, <2>1, <2>2 DEF Frame, Standing, Unseen
    <2>4. stage'[q] = "unborn" => shmName' # q
      BY <1>3, <2>1, <2>2, LifecycleAssumption DEF Frame, Standing
    <2> QED BY <2>1, <2>2, <2>3, <2>4 DEF Standing, Named, Early, Filled, Leaving, Visible, Unseen
  <1>4. Standing(p)'
    BY <1>0, SMT DEF Steps, Frame, Standing, Same, SameView, SameSeg, Kept, Named, Early, Filled, Leaving, Visible, Unseen
  <1> QED BY <1>2, <1>3, <1>4

(* Who has a lock, after a step of a server. *)
LEMMA HoldersKept ==
  ASSUME SInv, NEW p \in Servers, Frame(p), Steps(p), ServerStep(p) \/ Crash(p)
  PROVE  Holders'
  <1>0. TypeOK /\ Holders /\ Opened(p) /\ Standing(p) /\ p # None
    BY LifecycleAssumption DEF SInv, GInv, LInv
  <1>1. /\ stage \in [Servers -> Stages] /\ holder \in [Inodes -> Servers \cup Tgctls \cup {None}]
        /\ sfd \in [Servers -> [Files -> Inodes \cup {NoInode}]]
    BY <1>0 DEF TypeOK
  <1> DEFINE Own(q, i) == \/ stage[q] \in Locked /\ i = sfd[q]["pid"]
                          \/ stage[q] \in Ready /\ i = sfd[q]["db"]
  <1>2. SUFFICES /\ \A i \in Inodes : holder'[i] = holder[i] \/ holder'[i] = None \/ holder'[i] = p
                 /\ \A q \in Servers : holder'[<<q, "db">>] \notin Tgctls
                 /\ \A i \in Inodes : holder'[i] = p => Own(p, i)'
    <2>1. ASSUME NEW i \in Inodes, NEW q \in Servers, holder'[i] = q, q # p PROVE Own(q, i)'
      <3>1. holder[i] = q
        BY <1>2, <2>1, LifecycleAssumption
      <3>2. Own(q, i)
        BY <1>0, <2>1, <3>1 DEF Holders
      <3> QED BY <2>1, <3>2 DEF Frame
    <2>2. \A t \in Tgctls : tg'[t].fd \in (Servers \X {"pid"}) \cup {NoInode}
      BY <1>0 DEF Holders, Frame
    <2> HIDE DEF Own
    <2>3. \A i \in Inodes, q \in Servers : holder'[i] = q => Own(q, i)'
      BY <1>2, <2>1
    <2> QED BY <1>2, <2>2, <2>3 DEF Holders, Own
  <1>3. \A q \in Servers : holder[<<q, "db">>] \notin Tgctls
    BY <1>0 DEF Holders
  <1>4. \A i \in Inodes : holder[i] = p => Own(p, i)
    BY <1>0 DEF Holders
  <1>5. ASSUME holder' = holder, stage[p] \notin Locked
        PROVE  \A i \in Inodes : holder'[i] # p
    BY <1>4, <1>5 DEF Locked
  <1>6. ASSUME holder' = holder, stage'[p] \in Locked, stage[p] \in Ready => stage'[p] \in Ready,
               Same(p), stage[p] \in Ready => sfd'[p]["db"] = sfd[p]["db"]
        PROVE  \A i \in Inodes : holder'[i] = p => Own(p, i)'
    BY <1>4, <1>6 DEF Same, Locked
  <1>7. CASE OpenPidFile(p) \/ Truncate(p) \/ UnlinkPidFile(p)
    <2>1. holder' = holder /\ stage[p] \in {"spawned", "opened", "closed"}
      BY <1>7 DEF OpenPidFile, Open, Truncate, UnlinkPidFile, Unlink, Go
    <2> QED BY <1>3, <1>5, <2>1 DEF Locked, Ready
  <1>8. CASE \/ CreateStatus(p) \/ StorePid(p) \/ FillContents(p) \/ Activate(p) \/ Deactivate(p)
             \/ Deactivated(p) \/ UnlinkDbFile(p) \/ RemoveStatus(p)
    <2>1. /\ holder' = holder /\ sfd' = sfd
          /\ <<stage[p], stage'[p]>> \in
                {<<"locked", "created">>, <<"created", "setup">>, <<"setup", "filled">>, <<"ready", "activated">>,
                 <<"activated", "deactivating">>, <<"deactivating", "deactivated">>,
                 <<"db_closed", "db_removed">>, <<"db_removed", "removed">>}
      BY <1>1, <1>8 DEF CreateStatus, StorePid, FillContents, Activate, Deactivate, Deactivated, UnlinkDbFile,
                        RemoveStatus, Unlink, Go, fileVars
    <2>2. Same(p)
      BY <2>1 DEF Steps, Same, SameView, Kept
    <2>3. stage'[p] \in Locked /\ (stage[p] \in Ready => stage'[p] \in Ready)
      BY <2>1 DEF Locked, Ready
    <2> QED BY <1>3, <1>6, <2>1, <2>2, <2>3
  <1>9. CASE OpenDbFile(p)
    <2>1. holder' = holder /\ stage[p] = "filled" /\ stage'[p] = "db_opened"
      BY <1>1, <1>9 DEF OpenDbFile, Open, Go
    <2>2. Same(p)
      BY <2>1 DEF Steps, Same, SameView, Kept
    <2> QED BY <1>3, <1>6, <2>1, <2>2 DEF Locked, Ready
  <1>10. CASE LockPidFile(p)
    <2>1. stage[p] = "truncated" /\ sfd' = sfd
      BY <1>10 DEF LockPidFile
    <2>2. CASE holder' = holder
      BY <1>3, <1>5, <2>1, <2>2 DEF Locked, Ready
    <2>3. CASE stage'[p] = "locked" /\ holder' = [holder EXCEPT ![sfd[p]["pid"]] = p]
      <3>1. sfd[p]["pid"] \in Servers \X {"pid"} /\ sfd[p]["pid"] \in Inodes
        BY <1>0, <2>1 DEF Opened, PidOpened, Inodes
      <3>2. \A i \in Inodes : holder[i] # p
        BY <1>4, <2>1 DEF Locked, Ready
      <3>3. \A i \in Inodes : holder'[i] = IF i = sfd[p]["pid"] THEN p ELSE holder[i]
        BY <1>1, <2>3, <3>1
      <3>4. \A q \in Servers : <<q, "db">> \in Inodes
        BY InodeOf
      <3> QED BY <1>3, <2>1, <2>3, <3>2, <3>3, <3>4, LifecycleAssumption DEF Locked
    <2> QED BY <1>1, <1>10, <2>2, <2>3 DEF LockPidFile
  <1>11. CASE LockDbFile(p)
    <2>1. stage[p] = "db_opened" /\ sfd' = sfd /\ stage'[p] = "ready"
      BY <1>1, <1>11 DEF LockDbFile, Steps
    <2>2. holder' = [holder EXCEPT ![sfd[p]["db"]] = p]
      BY <1>1, <1>11, <2>1 DEF LockDbFile
    <2>3. sfd[p]["db"] \in Servers \X {"db"} /\ sfd[p]["db"] \in Inodes
      BY <1>0, <2>1 DEF Opened, DbOpened, Inodes
    <2>4. \A i \in Inodes : holder'[i] = IF i = sfd[p]["db"] THEN p ELSE holder[i]
      BY <1>1, <2>2, <2>3
    <2>5. \A q \in Servers : <<q, "db">> \in Inodes
      BY InodeOf
    <2>6. \A i \in Inodes : holder[i] = p => i = sfd[p]["pid"]
      BY <1>4, <2>1 DEF Ready
    <2> QED BY <1>3, <2>1, <2>4, <2>5, <2>6, LifecycleAssumption DEF Locked, Ready
  <1>12. CASE CloseDbFile(p)
    <2>1. /\ stage[p] = "deactivated" /\ stage'[p] = "db_closed" /\ sfd' = sfd
          /\ holder' = [holder EXCEPT ![sfd[p]["db"]] = None]
      BY <1>1, <1>12 DEF CloseDbFile, Close, Go
    <2>2. \A i \in Inodes : holder'[i] = IF i = sfd[p]["db"] THEN None ELSE holder[i]
      BY <1>1, <2>1
    <2>3. \A q \in Servers : <<q, "db">> \in Inodes
      BY InodeOf
    <2> QED BY <1>0, <1>3, <1>4, <2>1, <2>2, <2>3, LifecycleAssumption DEF Locked, Ready
  <1>13. CASE ClosePidFile(p)
    <2>1. /\ stage[p] = "removed" /\ stage'[p] = "closed" /\ sfd' = sfd
          /\ holder' = [holder EXCEPT ![sfd[p]["pid"]] = None]
      BY <1>1, <1>13 DEF ClosePidFile, Close, Go
    <2>2. \A i \in Inodes : holder'[i] = IF i = sfd[p]["pid"] THEN None ELSE holder[i]
      BY <1>1, <2>1
    <2>3. \A q \in Servers : <<q, "db">> \in Inodes
      BY InodeOf
    <2>4. \A i \in Inodes : holder'[i] # p
      BY <1>0, <1>4, <2>1, <2>2 DEF Locked, Ready
    <2> QED BY <1>0, <1>3, <2>2, <2>3, <2>4, LifecycleAssumption
  <1>14. CASE Exit(p) \/ Crash(p)
    <2>1. holder' = Release(p)
      BY <1>14 DEF Exit, Crash
    <2>2. \A i \in Inodes : holder'[i] = IF holder[i] = p THEN None ELSE holder[i]
      BY <2>1 DEF Release
    <2>3. \A q \in Servers : <<q, "db">> \in Inodes
      BY InodeOf
    <2> QED BY <1>0, <1>3, <2>2, <2>3, LifecycleAssumption
  <1> QED BY <1>7, <1>8, <1>9, <1>10, <1>11, <1>12, <1>13, <1>14 DEF ServerStep

(* What tgctl knows, after a step of a server. *)
LEMMA SituationKept ==
  ASSUME SInv, NEW p \in Servers, NEW t \in Tgctls, Frame(p), Steps(p)
  PROVE  Situation(t)' /\ Reports(t)'
  <1>0. /\ TypeOK /\ Standing(p) /\ Situation(t) /\ Reports(t) /\ Alone /\ p # None /\ Flow(t)
        /\ tg[t].fd \in Inodes \cup {NoInode}
    BY LifecycleAssumption DEF SInv, GInv, LInv, TypeOK, TgctlType
  <1>1. Alive(p) /\ ~Deserted /\ \A q \in Servers : Alive(q) => q = p
    BY <1>0 DEF Steps, Alive, Deserted, Alone
  <1>2. /\ Place(t)' = Place(t) /\ tg'[t] = tg[t]
        /\ \A l : At(t, l)' <=> At(t, l)
        /\ \A c, o : Ended(t, c, o)' <=> Ended(t, c, o)
    BY DEF Frame, Place, At, Ended
  <1>3. ASSUME Looks(t) PROVE stage'[p] = "dead" /\ Kept(p)
    <2>1. Running(p) /\ ~seg[p].request
      BY <1>0, <1>1, <1>3 DEF Situation, Serving
    <2> QED BY <2>1 DEF Running, Steps
  <1>4. stage'[p] = "dead" => Deserted'
    BY <1>1 DEF Deserted, Alive, Frame
  <1>5. Looks(t)' => Serving' /\ Deserted'
    <2>1. Looks(t)' => Looks(t)
      BY <1>2 DEF Looks
    <2>2. Deserted' => Serving'
      BY DEF Deserted, Serving
    <2> QED BY <1>3, <1>4, <2>1, <2>2
  <1>6. ASSUME Awaits(t) PROVE Starting(t)'
    <2>1. Starting(t) /\ tg[t].child = p
      BY <1>0, <1>1, <1>6 DEF Situation, Starting
    <2>2. /\ stage[p] # "unborn" /\ stage[p] \notin Leaving /\ ~seg[p].request
          /\ (\E i \in Inodes : content[i] = p) => shmName = p
      BY <2>1 DEF Starting
    <2>3. /\ stage'[p] # "unborn" /\ stage'[p] \notin Leaving /\ ~seg'[p].request
          /\ path["pid"] # NoInode => path'["pid"] # NoInode
      BY <2>2 DEF Steps, Frame, Leaving, Same, SameView, Kept
    <2>4. (\E i \in Inodes : content'[i] = p) => shmName' = p
      BY <1>0, <2>2 DEF Steps, SameView, Kept, Leaving, Standing, Visible, Early, Filled, Unseen
    <2>5. \A q \in Servers : Alive(q)' => q = p
      BY <1>1 DEF Alive, Frame
    <2>6. stage[p] \in Filled => stage'[p] \in Filled \cup {"dead"} /\ shmName' = shmName
      BY <2>2 DEF Steps, Filled, SameView, Kept
    <2>7. Place(t) \in {"attach", "pidstatus", "confirm"} => shmName = p /\ stage[p] \in Filled
      BY <1>1, <2>1 DEF Starting, Alive
    <2>8. stage[p] = "activated" => stage'[p] \in {"activated", "dead"}
      BY <2>2 DEF Steps
    <2>9. At(t, "confirm") => /\ tg[t].res \in {"initial", "ready", "activated"}
                              /\ tg[t].res = "activated" => p \in served /\ stage[p] = "activated"
      BY <1>1, <2>1 DEF Starting, Alive
    <2>10. served \subseteq served'
      BY DEF Frame
    <2> QED BY <1>2, <2>1, <2>3, <2>4, <2>5, <2>6, <2>7, <2>8, <2>9, <2>10 DEF Starting
  <1>7. Situation(t)'
    <2>1. Awaits(t)' => Awaits(t)
      BY <1>2 DEF Awaits
    <2>2. Place(t) = "gone" => \A q \in Servers : Alive(q)' => stage'[q] \in {"activated"} \cup Leaving
      <3>1. Place(t) = "gone" => stage[p] \in {"activated"} \cup Leaving
        BY <1>0, <1>1 DEF Situation
      <3>2. stage[p] \in {"activated"} \cup Leaving => stage'[p] \in {"activated", "dead"} \cup Leaving
        BY DEF Steps, Leaving
      <3>3. \A q \in Servers : Alive(q)' => q = p /\ stage'[p] # "dead"
        BY <1>1 DEF Alive, Frame
      <3> QED BY <3>1, <3>2, <3>3
    <2>3. tg[t].pc \in {"exists", "reopen", "trylock", "unlock"} /\ Place(t) = "begin" => Deserted'
      BY <1>2, <1>5 DEF Looks
    <2>4. tg[t].pc \in {"exists", "reopen", "trylock", "unlock"} /\ Place(t) = "confirm" =>
             Deserted' \/ tg[t].fd = path'["pid"]
      <3>1. Place(t) = "confirm" => stage[p] \in Filled
        BY <1>0, <1>1 DEF Situation, Awaits, Starting, Alive
      <3>2. stage[p] \in Filled => path'["pid"] = path["pid"]
        BY DEF Steps, Filled, Same, SameView, Kept
      <3> QED BY <1>0, <1>1, <3>1, <3>2 DEF Situation
    <2>5. At(t, "begin") => Deserted'
      BY <1>2, <1>5 DEF Looks, At, Place, Checking
    <2>6. /\ Place(t) \notin {"spawn", "killed", "remains", "delete"}
          /\ ~(At(t, "gone") /\ tg[t].res = "no_file")
      BY <1>0, <1>1 DEF Situation
    <2>7. \A q \in Servers : stage[q] # "unborn" => stage'[q] # "unborn"
      BY DEF Frame, Steps
    <2> QED BY <1>0, <1>2, <1>5, <1>6, <2>1, <2>2, <2>3, <2>4, <2>5, <2>6, <2>7 DEF Situation
  <1>8. Reports(t)'
    BY <1>0, <1>1, <1>2 DEF Reports, Frame
  <1> QED BY <1>7, <1>8

-----------------------------------------------------------------------------
(* Steps of tgctl                                                          *)

Unmoved == UNCHANGED <<path, content, stage, sfd, seg, shmName, served>>

(* What the invariant says, as far as a step of t can disturb it. *)
Knows(t) ==
  /\ Alone /\ Holders /\ \A p \in Servers : Standing(p)
  /\ Situation(t) /\ Reports(t)

(* A server that runs is where tgctl looks for it. *)
LEMMA InItsPlace ==
  ASSUME SInv, NEW p \in Servers
  PROVE  /\ Alive(p) /\ stage[p] \in {"activated"} \cup Leaving => path["pid"] # NoInode
         /\ stage[p] \in Filled => /\ path["pid"] # NoInode /\ shmName = p /\ Alive(p)
                                   /\ PidFile = p
                                   /\ path["pid"] \in Inodes /\ holder[path["pid"]] = p
                                   /\ seg[p].state = IF stage[p] \in {"ready", "activated"} THEN stage[p] ELSE "initial"
  <1>0. Standing(p) /\ Opened(p) /\ Keeps(p)
    BY DEF SInv, GInv, LInv
  <1>1. stage[p] \in Filled => stage[p] \in Locked \cap Named \cap Visible \cap PidOpened /\ Alive(p)
    BY DEF Filled, Locked, Ready, Named, Visible, PidOpened, Alive
  <1>2. stage[p] \in {"activated"} \cup Leaving => stage[p] \in Named
    BY DEF Named, Filled
  <1>3. stage[p] \in Filled => path["pid"] \in Inodes /\ path["pid"] = sfd[p]["pid"] /\ path["pid"] # NoInode
    BY <1>0, <1>1 DEF Standing, Opened, Inodes
  <1>4. stage[p] \in Filled => PidFile = p
    BY <1>0, <1>3 DEF Standing, PidFile
  <1>5. stage[p] \in Filled => shmName = p /\ holder[path["pid"]] = p
    BY <1>0, <1>1, <1>3 DEF Standing, Keeps
  <1>6. stage[p] \in Filled => seg[p].state = IF stage[p] \in {"ready", "activated"} THEN stage[p] ELSE "initial"
    BY <1>0 DEF Standing
  <1>7. stage[p] \in Named => path["pid"] # NoInode
    BY <1>0 DEF Standing
  <1> QED BY <1>1, <1>2, <1>3, <1>4, <1>5, <1>6, <1>7

(* A step of tgctl that only looks leaves the servers as they are. *)
LEMMA OnlyLooks ==
  ASSUME SInv, OneAdministrator, Unmoved, NEW t \in Tgctls,
         \/ holder' = holder
         \/ \E i \in Servers \X {"pid"} : holder[i] \in {None, t} /\ \E v \in {None, t} : holder' = [holder EXCEPT ![i] = v],
         tg'[t].fd \in {tg[t].fd, path["pid"], NoInode}
  PROVE  Alone' /\ Holders' /\ \A p \in Servers : Standing(p)'
  <1>0. Alone /\ Holders /\ PathsOwn /\ TypeOK /\ \A p \in Servers : Standing(p)
    BY DEF SInv, GInv, LInv
  <1>1. Alone' /\ \A p \in Servers : Standing(p)'
    BY <1>0, SMT DEF Unmoved, Alone, Alive, Standing
  <1>2. tg'[t].fd \in (Servers \X {"pid"}) \cup {NoInode}
    BY <1>0 DEF Holders, PathsOwn
  <1>3. \A u \in Tgctls : tg'[u].fd \in (Servers \X {"pid"}) \cup {NoInode}
    BY <1>2 DEF OneAdministrator
  <1>4. /\ \A i \in Inodes, p \in Servers : holder'[i] = p => holder[i] = p
        /\ \A p \in Servers : holder'[<<p, "db">>] = holder[<<p, "db">>]
    <2>1. CASE holder' = holder
      BY <2>1
    <2>2. ASSUME NEW i \in Servers \X {"pid"}, NEW v \in {None, t}, holder' = [holder EXCEPT ![i] = v]
          PROVE  <1>4!1 /\ <1>4!2
      <3>1. \A p \in Servers : <<p, "db">> \in Inodes /\ <<p, "db">> # i /\ p # v
        BY LifecycleAssumption, SMT DEF Inodes
      <3>2. \A j \in Inodes : holder'[j] = IF j = i THEN v ELSE holder[j]
        BY <1>0, <2>2 DEF TypeOK
      <3> QED BY <3>1, <3>2
    <2> QED BY <2>1, <2>2
  <1>5. Holders'
    BY <1>0, <1>3, <1>4, SMT DEF Holders, Unmoved
  <1> QED BY <1>1, <1>5

(* What tgctl knows while it checks, and when the check returns. *)
LEMMA CheckKnows ==
  ASSUME SInv, OneAdministrator, NEW t \in Tgctls,
         \/ Construct(t) \/ CheckExists(t) \/ CheckOpens(t) \/ CheckLocks(t) \/ CheckUnlocks(t) \/ Whole(t)
  PROVE  Knows(t)'
  <1>0. /\ TypeOK /\ Flow(t) /\ Checks(t) /\ Situation(t) /\ Reports(t) /\ Alone /\ Holders /\ PathsOwn
        /\ tg[t] \in TgctlType /\ path["pid"] \in Inodes \cup {NoInode}
    BY DEF SInv, GInv, LInv, TypeOK
  <1>1. /\ tg[t].ret \in TgctlRets /\ tg[t].pc \in TgctlPcs /\ tg[t].fd \in Inodes \cup {NoInode}
        /\ tg[t].ret \notin Checking
    BY <1>0 DEF TgctlType, TgctlRets, Checking
  <1>2. Unmoved /\ tg[t].pc \in Checking
    BY DEF Construct, CheckExists, CheckOpens, CheckLocks, CheckUnlocks, Whole, Unmoved, fileVars, serverVars,
           Checking, At
  <1>3. NoInode \notin Inodes
    BY LifecycleAssumption DEF NoInode, Inodes
  <1> USE DEF Knows
  <1> DEFINE s == tg[t]
             Kept5 == Alone' /\ Holders' /\ \A p \in Servers : Standing(p)'
             Tries == {"exists", "reopen", "trylock", "unlock"}
  <1>4. ASSUME NEW l, NEW f, NEW r, Becomes(t, l, s.ret, f, r, s.child, s.att, s.out),
               l \in Checking, f \in {s.fd, path["pid"]},
               s.pc \in Tries \/ f = path["pid"]
        PROVE  Situation(t)' /\ Reports(t)'
    <2>1. Place(t)' = Place(t)
      BY <1>2, <1>4 DEF Place, Becomes
    <2>2. \A m : m \notin Checking => ~At(t, m)'
      BY <1>4 DEF Becomes, At
    <2>3. /\ Deserted' = Deserted /\ Serving' = Serving /\ Looks(t)' = Looks(t) /\ Awaits(t)' = Awaits(t)
          /\ \A p \in Servers : Alive(p)' = Alive(p)
      BY <1>2, <1>4, <2>1 DEF Deserted, Serving, Looks, Awaits, Alive, Running, Unmoved, Becomes
    <2>4. Starting(t) => Starting(t)'
      BY <1>2, <1>4, <2>1, <2>2, <2>3 DEF Starting, Becomes, Unmoved, Checking
    <2>5. Place(t) \in {"begin", "confirm"} => Deserted \/ f = path["pid"]
      BY <1>0, <1>4 DEF Situation
    <2>6. ~At(t, "begin")' /\ ~At(t, "gone")' /\ ~At(t, "idle")'
      BY <2>2 DEF Checking
    <2>7. Situation(t)'
      BY <1>0, <1>2, <1>4, <2>1, <2>3, <2>4, <2>5, <2>6 DEF Situation, Becomes, Unmoved
    <2>8. Reports(t)'
      BY <1>0, <1>4, <2>1, <2>6 DEF Reports, Becomes, Ended
    <2> QED BY <2>7, <2>8
  <1>5. ASSUME NEW r, Becomes(t, s.ret, s.ret, s.fd, r, s.child, s.att, s.out),
               s.ret = "begin" => Deserted \/ r = "activated",
               s.ret = "gone" /\ r = "no_file" => Deserted,
               s.ret = "confirm" => /\ Alive(s.child) => r \in {"initial", "ready", "activated"}
                                    /\ r = "activated" => s.child \in served /\ stage[s.child] \in {"activated", "dead"}
        PROVE  Situation(t)' /\ Reports(t)'
    <2>1. Place(t)' = Place(t) /\ Place(t) = s.ret
      BY <1>1, <1>2, <1>5 DEF Place, Becomes
    <2>2. \A m : At(t, m)' => m = s.ret
      BY <1>5 DEF Becomes, At
    <2>3. /\ Deserted' = Deserted /\ Serving' = Serving /\ Looks(t)' = Looks(t) /\ Awaits(t)' = Awaits(t)
          /\ \A p \in Servers : Alive(p)' = Alive(p)
      BY <1>2, <1>5, <2>1 DEF Deserted, Serving, Looks, Awaits, Alive, Running, Unmoved, Becomes
    <2>4. Starting(t) => Starting(t)'
      BY <1>2, <1>5, <2>1, <2>2, <2>3 DEF Starting, Becomes, Unmoved
    <2>5. tg'[t].pc \notin Tries /\ ~At(t, "idle")'
      BY <1>1, <1>5 DEF Becomes, Checking, TgctlRets, At
    <2>6. At(t, "begin")' => Deserted \/ r = "activated"
      BY <1>5, <2>2
    <2>7. At(t, "gone")' /\ r = "no_file" => Deserted
      BY <1>5, <2>2
    <2>8. Situation(t)'
      BY <1>0, <1>2, <1>5, <2>1, <2>3, <2>4, <2>5, <2>6, <2>7 DEF Situation, Becomes, Unmoved
    <2>9. Reports(t)'
      BY <1>0, <1>5, <2>1, <2>5 DEF Reports, Becomes, Ended
    <2> QED BY <2>8, <2>9
  <1>6. s.ret = "begin" => \A p \in Servers : Alive(p) => stage[p] = "activated"
    BY <1>0, <1>1, <1>2 DEF Situation, Looks, Place, Serving, Running
  <1>7. s.ret = "confirm" =>
            s.child \in Servers /\ shmName = s.child /\ stage[s.child] \in Filled \cup {"dead"}
    BY <1>0, <1>1, <1>2 DEF Situation, Awaits, Place, Starting
  <1>8. s.ret = "gone" => \A p \in Servers : Alive(p) => stage[p] \in {"activated"} \cup Leaving
    BY <1>0, <1>1, <1>2 DEF Situation, Place
  <1>9. ASSUME path["pid"] = NoInode
        PROVE  /\ s.ret \in {"begin", "gone"} => Deserted
               /\ s.ret = "confirm" => ~Alive(s.child)
    <2>1. s.ret \in {"begin", "gone"} => Deserted
      BY <1>6, <1>8, <1>9, InItsPlace DEF Deserted
    <2>2. s.ret = "confirm" => ~Alive(s.child)
      BY <1>7, <1>9, InItsPlace DEF Alive
    <2> QED BY <2>1, <2>2
  <1>10. CASE Construct(t)
    <2>1. Becomes(t, "exists", s.ret, path["pid"], s.res, s.child, s.att, s.out) /\ holder' = holder
      BY <1>0, <1>10, Effects DEF Construct, fileVars
    <2>2. Kept5
      BY <1>2, <2>1, OnlyLooks DEF Becomes
    <2> QED BY <1>4, <2>1, <2>2 DEF Checking
  <1>11. CASE CheckExists(t)
    <2>1. At(t, "exists") /\ holder' = holder
      BY <1>11 DEF CheckExists, fileVars
    <2>2. CASE path["pid"] = NoInode
      <3>1. Becomes(t, s.ret, s.ret, s.fd, "no_file", s.child, s.att, s.out)
        BY <1>0, <1>11, <2>2, Effects DEF CheckExists
      <3>2. Kept5
        BY <1>2, <2>1, <3>1, OnlyLooks DEF Becomes
      <3> QED BY <1>5, <1>9, <2>2, <3>1, <3>2
    <2>3. CASE path["pid"] # NoInode
      <3>1. \E l \in {"reopen", "trylock"} : Becomes(t, l, s.ret, s.fd, s.res, s.child, s.att, s.out)
        BY <1>0, <1>11, <2>3, Effects DEF CheckExists, Goto
      <3>2. Kept5
        BY <1>2, <2>1, <3>1, OnlyLooks DEF Becomes
      <3> QED BY <1>4, <2>1, <3>1, <3>2 DEF Checking, At
    <2> QED BY <2>2, <2>3
  <1>12. CASE CheckOpens(t)
    <2>1. At(t, "reopen") /\ holder' = holder
      BY <1>12 DEF CheckOpens, fileVars
    <2>2. CASE path["pid"] = NoInode
      <3>1. Becomes(t, s.ret, s.ret, s.fd, "error", s.child, s.att, s.out)
        BY <1>0, <1>12, <2>2, Effects DEF CheckOpens
      <3>2. Kept5
        BY <1>2, <2>1, <3>1, OnlyLooks DEF Becomes
      <3> QED BY <1>5, <1>9, <2>2, <3>1, <3>2
    <2>3. CASE path["pid"] # NoInode
      <3>1. Becomes(t, "trylock", s.ret, path["pid"], s.res, s.child, s.att, s.out)
        BY <1>0, <1>12, <2>3, Effects DEF CheckOpens
      <3>2. Kept5
        BY <1>2, <2>1, <3>1, OnlyLooks DEF Becomes
      <3> QED BY <1>4, <3>1, <3>2 DEF Checking
    <2> QED BY <2>2, <2>3
  <1>13. CASE CheckLocks(t)
    <2>1. At(t, "trylock") /\ s.fd \in Servers \X {"pid"}
      BY <1>0, <1>3, <1>13 DEF CheckLocks, Checks, Holders
    <2>2. CASE holder[s.fd] = None
      <3>1. Becomes(t, "unlock", s.ret, s.fd, s.res, s.child, s.att, s.out)
        BY <1>0, <1>13, <2>2, Effects DEF CheckLocks
      <3>2. holder' = [holder EXCEPT ![s.fd] = t]
        BY <1>13, <2>2 DEF CheckLocks
      <3>3. Kept5
        BY <1>2, <2>1, <2>2, <3>1, <3>2, OnlyLooks DEF Becomes
      <3> QED BY <1>4, <2>1, <3>1, <3>3 DEF Checking, At
    <2>3. CASE holder[s.fd] # None /\ s.ret \notin StatusChecks
      <3>1. Becomes(t, s.ret, s.ret, s.fd, "locked", s.child, s.att, s.out) /\ holder' = holder
        BY <1>0, <1>13, <2>3, Effects DEF CheckLocks
      <3>2. Kept5
        BY <1>2, <3>1, OnlyLooks DEF Becomes
      <3> QED BY <1>5, <2>3, <3>1, <3>2, SMT DEF StatusChecks
    <2>4. CASE holder[s.fd] # None /\ s.ret \in StatusChecks
      <3>1. Becomes(t, "whole", s.ret, s.fd, "locked", s.child, s.att, s.out) /\ holder' = holder
        BY <1>0, <1>13, <2>4, Effects DEF CheckLocks
      <3>2. Kept5
        BY <1>2, <3>1, OnlyLooks DEF Becomes
      <3> QED BY <1>4, <2>1, <3>1, <3>2 DEF Checking, At
    <2> QED BY <2>2, <2>3, <2>4
  <1>14. CASE CheckUnlocks(t)
    <2>1. /\ At(t, "unlock") /\ s.fd \in Servers \X {"pid"} /\ holder[s.fd] = t
          /\ holder' = [holder EXCEPT ![s.fd] = None]
      BY <1>0, <1>3, <1>14 DEF CheckUnlocks, Checks, Holders
    <2>2. Becomes(t, s.ret, s.ret, s.fd, "not_locked", s.child, s.att, s.out)
      BY <1>0, <1>14, Effects DEF CheckUnlocks
    <2>3. Kept5
      BY <1>2, <2>1, <2>2, OnlyLooks DEF Becomes
    <2>4. s.ret \in {"begin", "confirm"} => Deserted \/ holder[path["pid"]] = t
      BY <1>0, <1>1, <2>1 DEF Situation, Place, At, Checking
    <2>5. \A p \in Servers : p # t
      BY LifecycleAssumption
    <2>6. s.ret = "begin" => Deserted
      BY <1>6, <2>4, <2>5, InItsPlace DEF Deserted, Filled
    <2>7. s.ret = "confirm" => ~Alive(s.child)
      BY <1>7, <2>4, <2>5, InItsPlace DEF Deserted, Alive
    <2> QED BY <1>5, <2>2, <2>3, <2>6, <2>7, SMT
  <1>15. CASE Whole(t)
    <2>1. PICK r : /\ r = IF shmName = None THEN "count_over" ELSE seg[shmName].state
                   /\ Becomes(t, s.ret, s.ret, s.fd, r, s.child, s.att, s.out)
      BY <1>0, <1>15, Effects DEF Whole
    <2>2. Kept5
      <3>1. holder' = holder
        BY <1>15 DEF Whole, fileVars
      <3> QED BY <1>2, <2>1, <3>1, OnlyLooks DEF Becomes
    <2>3. s.ret = "begin" => Deserted \/ r = "activated"
      <3>1. ASSUME s.ret = "begin", NEW p \in Servers, Alive(p) PROVE r = "activated"
        <4>1. stage[p] = "activated"
          BY <1>6, <3>1
        <4>2. shmName = p /\ seg[p].state = "activated"
          BY <4>1, InItsPlace DEF Filled
        <4> QED BY <2>1, <4>2, LifecycleAssumption
      <3> QED BY <3>1 DEF Deserted
    <2>4. ASSUME s.ret = "confirm"
          PROVE  /\ Alive(s.child) => r \in {"initial", "ready", "activated"}
                 /\ r = "activated" => s.child \in served /\ stage[s.child] \in {"activated", "dead"}
      <3>1. r = seg[s.child].state
        BY <1>7, <2>1, <2>4, LifecycleAssumption
      <3>2. Alive(s.child) => stage[s.child] \in Filled
        BY <1>7, <2>4 DEF Alive
      <3>3. Alive(s.child) => seg[s.child].state = IF stage[s.child] \in {"ready", "activated"} THEN stage[s.child] ELSE "initial"
        BY <1>7, <2>4, <3>2, InItsPlace
      <3>4. r = "activated" => s.child \in served
        BY <1>7, <2>4, <3>1 DEF SInv, GInv
      <3> QED BY <1>7, <2>4, <3>1, <3>3, <3>4 DEF Alive, Filled
    <2>5. r # "no_file"
      BY <1>0, <2>1 DEF TypeOK
    <2> QED BY <1>5, <2>1, <2>2, <2>3, <2>4, <2>5
  <1> QED BY <1>10, <1>11, <1>12, <1>13, <1>14, <1>15

(* Where tgctl may arrive: at l, or in a check that returns to r, with the *)
(* child c and the attached segment a.                                     *)
ToLook(t, l, r, c, a) ==
  /\ Serving
  /\ \/ l = "idle"
     \/ l \in {"open", "victim"} /\ (tg[t].cmd = "kill" => c = None)
     \/ l = "attach" /\ tg[t].cmd = "shutdown"
     \/ l = "request" /\ a \in Servers /\ stage[a] # "unborn"
     \/ l = "exists" /\ r = "getpid"
ToAwait(t, l, r) ==
  /\ tg[t].cmd \in Starts
  /\ \/ l \in {"alive", "mutex", "attach", "pidstatus"}
     \/ l = "exists" /\ r = "pidfile"
     \/ l = "construct" /\ r = "confirm"
ToRemains(t, l, r) ==
  /\ Deserted
  /\ \/ l = "spawn" /\ tg[t].cmd \in Starts
     \/ l = "delete" /\ path["pid"] = NoInode
     \/ l = "construct" /\ r = "killed"
ToGone(l, r) ==
  /\ l = "exists" /\ r = "gone"
  /\ \A p \in Servers : Alive(p) => stage[p] \in {"activated"} \cup Leaving
MayArrive(t, l, r, c, a) ==
  ToLook(t, l, r, c, a) \/ (ToAwait(t, l, r) /\ Starting(t)') \/ ToRemains(t, l, r) \/ ToGone(l, r)
ToEnd(t, c, o) ==
  /\ tg[t].cmd \in Starts /\ o = "ok" => c \in served
  /\ tg[t].cmd = "shutdown" /\ o = "ok" => Deserted
  /\ tg[t].cmd = "kill" /\ o = "ok" => c = None
  /\ tg[t].cmd = "status" /\ o \in {"inactive", "unknown"} => Deserted

(* Where tgctl arrives, when it leaves the servers as they are. *)
LEMMA Arrives ==
  ASSUME SInv, OneAdministrator, NEW t \in Tgctls, Unmoved, holder' = holder,
         NEW l, NEW r, NEW f, NEW res, NEW c, NEW a, NEW o, Becomes(t, l, r, f, res, c, a, o),
         f \in {tg[t].fd, path["pid"], NoInode},
         MayArrive(t, l, r, c, a),
         l = "idle" => ToEnd(t, c, o)
  PROVE  Knows(t)'
  <1> USE DEF Knows
  <1>1. Alone' /\ Holders' /\ \A p \in Servers : Standing(p)'
    BY OnlyLooks DEF Becomes
  <1>2. /\ tg'[t].pc = l /\ tg'[t].ret = r /\ tg'[t].fd = f /\ tg'[t].child = c /\ tg'[t].att = a
        /\ tg'[t].out = o /\ tg'[t].cmd = tg[t].cmd
    BY DEF Becomes
  <1>3. Deserted' = Deserted /\ Serving' = Serving /\ \A p \in Servers : Alive(p)' = Alive(p)
    BY DEF Deserted, Serving, Alive, Running, Unmoved
  <1>4. Place(t)' = IF l \in Checking THEN r ELSE l
    BY <1>2 DEF Place
  <1>5. ~At(t, "begin")' /\ ~At(t, "gone")'
    BY <1>2 DEF At, MayArrive, ToLook, ToAwait, ToRemains, ToGone
  <1>6. CASE ToLook(t, l, r, c, a)
    <2>1. /\ Place(t)' \in {"idle", "open", "victim", "attach", "request", "getpid"}
          /\ Place(t)' = "attach" => tg[t].cmd = "shutdown"
          /\ Place(t)' = "request" => a \in Servers /\ stage[a] # "unborn"
      BY <1>4, <1>6 DEF Checking, ToLook
    <2>2. ~Awaits(t)'
      BY <1>2, <2>1 DEF Awaits
    <2>3. Situation(t)'
      BY <1>2, <1>3, <1>5, <1>6, <2>1, <2>2 DEF Situation, Unmoved, ToLook
    <2>4. tg[t].cmd = "kill" /\ Place(t)' \in {"open", "victim"} => c = None
      BY <1>4, <1>6 DEF Checking, ToLook
    <2>5. Reports(t)'
      BY <1>2, <1>3, <2>1, <2>4 DEF Reports, Ended, At, Unmoved, Starts, ToEnd
    <2> QED BY <1>1, <2>3, <2>5
  <1>7. CASE ToAwait(t, l, r) /\ Starting(t)'
    <2>1. /\ Place(t)' \in {"alive", "mutex", "attach", "pidstatus", "pidfile", "confirm"}
          /\ Place(t)' = "confirm" => l = "construct"
          /\ ~At(t, "idle")' /\ tg[t].cmd # "shutdown" /\ tg[t].cmd # "kill"
      BY <1>2, <1>4, <1>7 DEF Checking, At, Starts, ToAwait
    <2>2. ~Looks(t)'
      BY <1>2, <2>1 DEF Looks
    <2>3. Situation(t)'
      BY <1>2, <1>3, <1>5, <1>7, <2>1, <2>2 DEF Situation
    <2>4. Reports(t)'
      BY <1>2, <2>1 DEF Reports, Ended
    <2> QED BY <1>1, <2>3, <2>4
  <1>8. CASE ToRemains(t, l, r)
    <2>1. /\ Place(t)' \in {"spawn", "delete", "killed"} /\ ~At(t, "idle")'
          /\ Place(t)' = "delete" => path["pid"] = NoInode
      BY <1>2, <1>4, <1>8 DEF Checking, At, ToRemains
    <2>2. ~Looks(t)' /\ ~Awaits(t)'
      BY <2>1 DEF Looks, Awaits
    <2>3. Situation(t)'
      BY <1>2, <1>3, <1>5, <1>8, <2>1, <2>2 DEF Situation, Unmoved, ToRemains
    <2>4. Reports(t)'
      BY <1>2, <2>1 DEF Reports, Ended
    <2> QED BY <1>1, <2>3, <2>4
  <1>9. CASE ToGone(l, r)
    <2>1. Place(t)' = "gone" /\ ~At(t, "idle")'
      BY <1>2, <1>4, <1>9 DEF Checking, At, ToGone
    <2>2. ~Looks(t)' /\ ~Awaits(t)'
      BY <2>1 DEF Looks, Awaits
    <2>3. Situation(t)'
      BY <1>3, <1>5, <1>9, <2>1, <2>2 DEF Situation, Unmoved, ToGone
    <2>4. Reports(t)'
      BY <1>2, <2>1 DEF Reports, Ended
    <2> QED BY <1>1, <2>3, <2>4
  <1> QED BY <1>6, <1>7, <1>8, <1>9 DEF MayArrive


(* What tgctl knows after the steps of its commands that leave the servers *)
(* as they are.                                                            *)
LEMMA CommandKnows ==
  ASSUME SInv, OneAdministrator, NEW t \in Tgctls,
         \/ Begin(t) \/ OpenExisting(t) \/ ChildAlive(t) \/ StartOpens(t) \/ PidInFile(t) \/ Attach(t)
         \/ PidInStatus(t) \/ Confirm(t) \/ Gone(t) \/ AttachRemains(t) \/ GetPid(t)
  PROVE  Knows(t)'
  <1>0. /\ TypeOK /\ Flow(t) /\ Situation(t) /\ Reports(t)
        /\ tg[t] \in TgctlType /\ path["pid"] \in Inodes \cup {NoInode} /\ shmName \in Servers \cup {None}
        /\ \A p \in Servers : Standing(p)
    BY DEF SInv, GInv, LInv, TypeOK
  <1>1. /\ tg[t].ret \in TgctlRets /\ tg[t].pc \in TgctlPcs /\ tg[t].fd \in Inodes \cup {NoInode}
        /\ tg[t].res \in TgctlResults
    BY <1>0 DEF TgctlType
  <1> DEFINE s == tg[t]
  <1>2. Place(t) = s.pc /\ s.pc \notin Checking /\ s.cmd \in Runs(s.pc)
    <2>1. s.pc \notin Checking
      BY DEF Begin, OpenExisting, ChildAlive, StartOpens, PidInFile, Attach,
             PidInStatus, Confirm, Gone, AttachRemains, GetPid, At, Checking
    <2> QED BY <1>0, <2>1 DEF Place, Flow
  <1>3. Looks(t) => Serving
    BY <1>0 DEF Situation
  <1>4. Deserted => Serving
    BY DEF Deserted, Serving
  <1>5. ASSUME Awaits(t)
        PROVE  /\ Starting(t) /\ s.child \in Servers /\ s.cmd \in Starts
               /\ ~Alive(s.child) => Serving
    <2>1. Starting(t)
      BY <1>0, <1>5 DEF Situation
    <2>2. s.child \in Servers /\ (~Alive(s.child) => Serving)
      BY <2>1 DEF Starting, Serving
    <2>3. s.cmd \in Starts
      BY <1>2, <1>5 DEF Awaits, Runs, Starts
    <2> QED BY <2>1, <2>2, <2>3
  <1>ends. ASSUME NEW c, NEW o, Becomes(t, "idle", s.ret, s.fd, s.res, c, s.att, o), Unmoved, holder' = holder,
                  Serving, ToEnd(t, c, o)
           PROVE  Knows(t)'
    <2>1. MayArrive(t, "idle", s.ret, c, s.att)
      BY <1>ends DEF MayArrive, ToLook
    <2> QED BY <1>ends, <2>1, Arrives
  <1> DEFINE Waits(l, r, f, a) ==
         /\ f # NoInode => path["pid"] # NoInode
         /\ \/ l \in {"alive", "mutex"}
            \/ l = "exists" /\ r = "pidfile" /\ f # NoInode
            \/ /\ l \in {"attach", "pidstatus"} \/ (l = "construct" /\ r = "confirm")
               /\ shmName = s.child /\ stage[s.child] \in Filled \cup {"dead"}
               /\ l # "attach" => a = s.child
  <1>6. ASSUME Starting(t), s.cmd \in Starts, Unmoved, holder' = holder,
               NEW l, NEW r, NEW f \in {s.fd, path["pid"]}, NEW a,
               Becomes(t, l, r, f, s.res, s.child, a, s.out), Waits(l, r, f, a)
        PROVE  Knows(t)'
    <2>1. /\ tg'[t].pc = l /\ tg'[t].ret = r /\ tg'[t].fd = f /\ tg'[t].child = s.child /\ tg'[t].att = a
      BY <1>6 DEF Becomes
    <2>2. \A p \in Servers : Alive(p)' = Alive(p)
      BY <1>6 DEF Alive, Unmoved
    <2>3. Place(t)' = IF l \in Checking THEN r ELSE l
      BY <2>1 DEF Place
    <2>4. ~At(t, "confirm")'
      BY <1>6, <2>1 DEF At
    <2>5. /\ Place(t)' = "pidfile" => f # NoInode
          /\ Place(t)' \in {"attach", "pidstatus", "confirm"} =>
                shmName = s.child /\ stage[s.child] \in Filled \cup {"dead"}
          /\ Place(t)' \in {"pidstatus", "confirm"} => a = s.child
      BY <1>6, <2>3 DEF Checking
    <2>6. Starting(t)'
      BY <1>6, <2>1, <2>2, <2>4, <2>5 DEF Starting, Unmoved
    <2>7. MayArrive(t, l, r, s.child, a) /\ l # "idle"
      BY <1>6, <2>6 DEF MayArrive, ToAwait
    <2> HIDE DEF Waits
    <2> QED BY <1>6, <2>7, Arrives
  <1> HIDE DEF Waits
  <1>err. ToEnd(t, s.child, "err")
    BY DEF ToEnd
  <1>7. CASE Begin(t)
    <2>1. Unmoved /\ holder' = holder /\ At(t, "begin")
      BY <1>7 DEF Begin, Unmoved, fileVars, serverVars
    <2>2. Serving /\ (Deserted \/ s.res = "activated")
      BY <1>0, <1>2, <1>3, <2>1 DEF Situation, Looks, At
    <2>3. s.cmd = "kill" => s.child = None
      BY <1>0, <1>2, <2>1 DEF Reports, At
    <2>4. CASE s.cmd = "status"
      <3>1. Becomes(t, "idle", s.ret, s.fd, s.res, s.child, s.att, StatusAnswer(s.res))
        BY <1>0, <1>7, <2>4, Effects DEF Begin
      <3>2. StatusAnswer(s.res) \in {"inactive", "unknown"} => Deserted
        BY <2>2 DEF StatusAnswer, Booting
      <3>3. ToEnd(t, s.child, StatusAnswer(s.res))
        BY <2>4, <3>2 DEF ToEnd, Starts
      <3> QED BY <1>ends, <2>1, <2>2, <3>1, <3>3
    <2>5. CASE s.cmd \in {"start", "force"}
      <3>1. \/ Becomes(t, "idle", s.ret, s.fd, s.res, s.child, s.att, "err")
            \/ s.res # "activated" /\ Becomes(t, "spawn", s.ret, s.fd, s.res, s.child, s.att, s.out)
        BY <1>0, <1>7, <2>5, Effects DEF Begin, Refused
      <3>2. ToEnd(t, s.child, "err") /\ (s.res # "activated" => MayArrive(t, "spawn", s.ret, s.child, s.att))
        BY <2>2, <2>5 DEF MayArrive, ToRemains, ToEnd, Starts
      <3> QED BY <1>ends, <2>1, <2>2, <3>1, <3>2, Arrives, SMT
    <2>6. CASE s.cmd \in {"shutdown", "kill"}
      <3>1. \/ /\ s.res # "activated"
               /\ Becomes(t, "idle", s.ret, s.fd, s.res, s.child, s.att, "ok")
            \/ Becomes(t, "open", s.ret, s.fd, s.res, s.child, s.att, s.out)
        BY <1>0, <1>7, <2>6, Effects DEF Begin, NotRunning
      <3>2. (s.res # "activated" => ToEnd(t, s.child, "ok")) /\ MayArrive(t, "open", s.ret, s.child, s.att)
        BY <2>2, <2>3, <2>6 DEF MayArrive, ToLook, ToEnd, Starts
      <3> QED BY <1>ends, <2>1, <2>2, <3>1, <3>2, Arrives, SMT
    <2> QED BY <1>7, <2>4, <2>5, <2>6 DEF Begin
  <1>8. CASE OpenExisting(t)
    <2>1. Unmoved /\ holder' = holder /\ At(t, "open")
      BY <1>8 DEF OpenExisting, Unmoved, fileVars, serverVars
    <2>2. Serving /\ (s.cmd = "kill" => s.child = None)
      BY <1>0, <1>2, <1>3, <2>1 DEF Looks, At, Reports
    <2>3. PICK l : /\ l = CASE s.cmd = "shutdown"          -> "attach"
                            [] s.cmd \in {"kill", "force"} -> "victim"
                            [] OTHER                       -> "exists"
                   /\ \/ Becomes(t, "idle", s.ret, s.fd, s.res, s.child, s.att, "err")
                      \/ Becomes(t, l, "getpid", path["pid"], s.res, s.child, s.att, s.out)
      BY <1>0, <1>8, Effects DEF OpenExisting, End
    <2>4. CASE Becomes(t, "idle", s.ret, s.fd, s.res, s.child, s.att, "err")
      BY <1>ends, <1>err, <2>1, <2>2, <2>4
    <2>5. CASE Becomes(t, l, "getpid", path["pid"], s.res, s.child, s.att, s.out)
      <3>1. MayArrive(t, l, "getpid", s.child, s.att) /\ l # "idle"
        BY <2>2, <2>3 DEF MayArrive, ToLook
      <3> QED BY <2>1, <2>5, <3>1, Arrives
    <2> QED BY <2>3, <2>4, <2>5
  <1>9. CASE ChildAlive(t)
    <2>1. Unmoved /\ holder' = holder /\ At(t, "alive")
      BY <1>9 DEF ChildAlive, Unmoved, fileVars, serverVars
    <2>2. Starting(t) /\ s.child \in Servers /\ s.cmd \in Starts /\ (~Alive(s.child) => Serving)
      BY <1>2, <1>5, <2>1 DEF Awaits, At
    <2>3. \/ Becomes(t, "mutex", s.ret, s.fd, s.res, s.child, s.att, s.out)
          \/ ~Alive(s.child) /\ Becomes(t, "idle", s.ret, s.fd, s.res, s.child, s.att, "err")
      BY <1>0, <1>9, Effects DEF ChildAlive
    <2>4. CASE Becomes(t, "mutex", s.ret, s.fd, s.res, s.child, s.att, s.out)
      <3>1. s.fd # NoInode => path["pid"] # NoInode
        BY <2>2 DEF Starting
      <3>2. Waits("mutex", s.ret, s.fd, s.att)
        BY <3>1 DEF Waits
      <3> QED BY <1>6, <2>1, <2>2, <2>4, <3>2
    <2>5. CASE ~Alive(s.child) /\ Becomes(t, "idle", s.ret, s.fd, s.res, s.child, s.att, "err")
      BY <1>ends, <1>err, <2>1, <2>2, <2>5
    <2> QED BY <2>3, <2>4, <2>5
  <1>10. CASE StartOpens(t)
    <2>1. Unmoved /\ holder' = holder /\ At(t, "mutex")
      BY <1>10 DEF StartOpens, Unmoved, fileVars, serverVars
    <2>2. Starting(t) /\ s.cmd \in Starts
      BY <1>2, <1>5, <2>1 DEF Awaits, At
    <2>3. PICK f : /\ f = IF s.fd = NoInode THEN path["pid"] ELSE s.fd
                   /\ Becomes(t, IF f = NoInode THEN "alive" ELSE "exists", "pidfile", f, s.res, s.child, s.att, s.out)
      BY <1>0, <1>10, Effects DEF StartOpens
    <2>4. f # NoInode => path["pid"] # NoInode
      BY <2>2, <2>3 DEF Starting
    <2>5. PICK l \in {"alive", "exists"} : /\ l = "exists" => f # NoInode
                                           /\ Becomes(t, l, "pidfile", f, s.res, s.child, s.att, s.out)
      BY <2>3
    <2>6. Waits(l, "pidfile", f, s.att) /\ f \in {s.fd, path["pid"]}
      BY <2>3, <2>4, <2>5 DEF Waits
    <2> QED BY <1>6, <2>1, <2>2, <2>5, <2>6
  <1>11. CASE PidInFile(t)
    <2>1. Unmoved /\ holder' = holder /\ At(t, "pidfile")
      BY <1>11 DEF PidInFile, Unmoved, fileVars, serverVars
    <2>2. Starting(t) /\ s.cmd \in Starts /\ s.child \in Servers
      BY <1>2, <1>5, <2>1 DEF Awaits, At
    <2>3. s.fd # NoInode /\ path["pid"] # NoInode /\ \A p \in Servers : Alive(p) => p = s.child
      BY <1>2, <2>1, <2>2 DEF Starting, At
    <2>4. PidFile = content[path["pid"]] /\ PidFile \in Servers \cup {None} /\ path["pid"] \in Inodes
      BY <1>0, <2>3, PidFileType DEF PidFile
    <2>5. \/ Becomes(t, "alive", s.ret, s.fd, s.res, s.child, s.att, s.out)
          \/ PidFile = s.child /\ Becomes(t, "attach", s.ret, s.fd, s.res, s.child, s.att, s.out)
      <3>1. ~PidFileThrows /\ (PidFile # s.child => ~(PidFile # None /\ Alive(PidFile)))
        BY <2>3, <2>4 DEF PidFileThrows
      <3> QED BY <1>0, <1>11, <3>1, Effects DEF PidInFile
    <2>6. PidFile = s.child => shmName = s.child /\ stage[s.child] \in Filled \cup {"dead"}
      <3>1. PidFile = s.child => stage[s.child] \notin Unseen \cup Early
        BY <1>0, <2>2, <2>4 DEF Standing
      <3>2. stage[s.child] \notin Leaving \cup {"unborn", "failed"}
        BY <1>0, <2>2 DEF Starting, Standing
      <3>3. PidFile = s.child => shmName = s.child
        BY <2>2, <2>4 DEF Starting
      <3>4. stage[s.child] \in Stages
        BY <1>0, <2>2 DEF TypeOK
      <3> QED BY <3>1, <3>2, <3>3, <3>4 DEF Unseen, Early, Leaving, Filled
    <2>7. PICK l \in {"alive", "attach"} : /\ l = "attach" => PidFile = s.child
                                           /\ Becomes(t, l, s.ret, s.fd, s.res, s.child, s.att, s.out)
      BY <2>5
    <2>8. Waits(l, s.ret, s.fd, s.att)
      BY <2>3, <2>6, <2>7 DEF Waits
    <2> QED BY <1>6, <2>1, <2>2, <2>7, <2>8
  <1>12. CASE Attach(t)
    <2>1. Unmoved /\ holder' = holder /\ At(t, "attach")
      BY <1>12 DEF Attach, Unmoved, fileVars, serverVars
    <2>2. CASE s.cmd = "shutdown"
      <3>1. Serving
        BY <1>2, <1>3, <2>1, <2>2 DEF Looks, At
      <3>2. \/ shmName # None /\ Becomes(t, "request", s.ret, s.fd, s.res, s.child, shmName, s.out)
            \/ Becomes(t, "idle", s.ret, s.fd, s.res, s.child, s.att, "err")
        BY <1>0, <1>12, <2>2, Effects DEF Attach
      <3>3. shmName # None => shmName \in Servers /\ stage[shmName] # "unborn"
        BY <1>0 DEF Standing
      <3>4. shmName # None => MayArrive(t, "request", s.ret, s.child, shmName)
        BY <3>1, <3>3 DEF MayArrive, ToLook
      <3> QED BY <1>ends, <1>err, <2>1, <3>1, <3>2, <3>4, Arrives
    <2>3. CASE s.cmd # "shutdown"
      <3>1. Starting(t) /\ s.cmd \in Starts
        BY <1>2, <1>5, <2>1, <2>3 DEF Awaits, At
      <3>2. Becomes(t, "pidstatus", s.ret, s.fd, s.res, s.child, shmName, s.out)
        BY <1>0, <1>12, <2>3, Effects DEF Attach
      <3>3. /\ shmName = s.child /\ stage[s.child] \in Filled \cup {"dead"}
            /\ s.fd # NoInode => path["pid"] # NoInode
        BY <1>2, <2>1, <3>1 DEF Starting, At
      <3>4. Waits("pidstatus", s.ret, s.fd, shmName)
        BY <3>3 DEF Waits
      <3> QED BY <1>6, <2>1, <3>1, <3>2, <3>4
    <2> QED BY <2>2, <2>3
  <1>13. CASE PidInStatus(t)
    <2>1. Unmoved /\ holder' = holder /\ At(t, "pidstatus")
      BY <1>13 DEF PidInStatus, Unmoved, fileVars, serverVars
    <2>2. Starting(t) /\ s.cmd \in Starts /\ s.child \in Servers
      BY <1>2, <1>5, <2>1 DEF Awaits, At
    <2>3. /\ shmName = s.child /\ stage[s.child] \in Filled \cup {"dead"} /\ s.att = s.child
          /\ s.fd # NoInode => path["pid"] # NoInode
      BY <1>2, <2>1, <2>2 DEF Starting, At
    <2>4. seg[s.att].pid = s.child
      BY <1>0, <1>13, <2>2, <2>3 DEF PidInStatus, Standing
    <2>5. Becomes(t, "construct", "confirm", s.fd, s.res, s.child, s.att, s.out)
      BY <1>0, <1>13, <2>4, Effects DEF PidInStatus
    <2>6. Waits("construct", "confirm", s.fd, s.att)
      BY <2>3 DEF Waits
    <2> QED BY <1>6, <2>1, <2>2, <2>5, <2>6
  <1>14. CASE Confirm(t)
    <2>1. Unmoved /\ holder' = holder /\ At(t, "confirm")
      BY <1>14 DEF Confirm, Unmoved, fileVars, serverVars
    <2>2. Starting(t) /\ s.cmd \in Starts /\ s.child \in Servers /\ (~Alive(s.child) => Serving)
      BY <1>2, <1>5, <2>1 DEF Awaits, At
    <2>3. /\ shmName = s.child /\ stage[s.child] \in Filled \cup {"dead"} /\ s.att = s.child
          /\ s.fd # NoInode => path["pid"] # NoInode
          /\ Alive(s.child) => s.res \in {"initial", "ready", "activated"}
          /\ s.res = "activated" => s.child \in served /\ stage[s.child] \in {"activated", "dead"}
      BY <1>2, <2>1, <2>2 DEF Starting, At
    <2>4. s.res = "activated" => Serving
      BY <2>2, <2>3 DEF Starting, Serving, Running, Alive
    <2>5. \/ s.res = "activated" /\ Becomes(t, "idle", s.ret, s.fd, s.res, s.child, s.att, "ok")
          \/ Becomes(t, "pidstatus", s.ret, s.fd, s.res, s.child, s.att, s.out)
          \/ ~Alive(s.child) /\ Becomes(t, "idle", s.ret, s.fd, s.res, s.child, s.att, "err")
      BY <1>0, <1>14, <2>3, Effects DEF Confirm
    <2>6. CASE s.res = "activated" /\ Becomes(t, "idle", s.ret, s.fd, s.res, s.child, s.att, "ok")
      <3>1. ToEnd(t, s.child, "ok")
        BY <2>2, <2>3, <2>6 DEF ToEnd, Starts
      <3> QED BY <1>ends, <2>1, <2>4, <2>6, <3>1
    <2>7. CASE Becomes(t, "pidstatus", s.ret, s.fd, s.res, s.child, s.att, s.out)
      <3>1. Waits("pidstatus", s.ret, s.fd, s.att)
        BY <2>3 DEF Waits
      <3> QED BY <1>6, <2>1, <2>2, <2>7, <3>1
    <2>8. CASE ~Alive(s.child) /\ Becomes(t, "idle", s.ret, s.fd, s.res, s.child, s.att, "err")
      BY <1>ends, <1>err, <2>1, <2>2, <2>8
    <2> QED BY <2>5, <2>6, <2>7, <2>8
  <1>15. CASE Gone(t)
    <2>1. Unmoved /\ holder' = holder /\ At(t, "gone") /\ s.ret = "gone"
      BY <1>0, <1>15 DEF Gone, Unmoved, fileVars, serverVars, Flow, At, TgctlRets
    <2>2. s.cmd = "shutdown" /\ \A p \in Servers : Alive(p) => stage[p] \in {"activated"} \cup Leaving
      BY <1>0, <1>2, <2>1 DEF Situation, At, Runs
    <2>3. \/ Deserted /\ Becomes(t, "idle", s.ret, s.fd, s.res, s.child, s.att, "ok")
          \/ Becomes(t, "exists", s.ret, s.fd, s.res, s.child, s.att, s.out)
      BY <1>0, <1>15, <2>1, Effects DEF Gone, Situation
    <2>4. CASE Deserted /\ Becomes(t, "idle", s.ret, s.fd, s.res, s.child, s.att, "ok")
      <3>1. ToEnd(t, s.child, "ok")
        BY <2>2, <2>4 DEF ToEnd, Starts
      <3> QED BY <1>4, <1>ends, <2>1, <2>4, <3>1
    <2>5. CASE Becomes(t, "exists", s.ret, s.fd, s.res, s.child, s.att, s.out)
      <3>1. MayArrive(t, "exists", s.ret, s.child, s.att)
        BY <2>1, <2>2 DEF MayArrive, ToGone
      <3> QED BY <2>1, <2>5, <3>1, Arrives, SMT
    <2> QED BY <2>3, <2>4, <2>5
  <1>16. CASE AttachRemains(t)
    <2>1. Unmoved /\ holder' = holder /\ At(t, "remains")
      BY <1>16 DEF AttachRemains, Unmoved, fileVars, serverVars
    <2>2. Deserted /\ Serving /\ path["pid"] = NoInode
      BY <1>0, <1>2, <1>4, <2>1 DEF Situation, At
    <2>3. \/ Becomes(t, "idle", s.ret, s.fd, s.res, s.child, s.att, "err")
          \/ Becomes(t, "delete", s.ret, s.fd, s.res, s.child, s.att, s.out)
      BY <1>0, <1>16, Effects DEF AttachRemains
    <2>4. MayArrive(t, "delete", s.ret, s.child, s.att)
      BY <2>2 DEF MayArrive, ToRemains
    <2> QED BY <1>ends, <1>err, <2>1, <2>2, <2>3, <2>4, Arrives, SMT
  <1>17. CASE GetPid(t)
    <2>1. At(t, "getpid") /\ s.ret = "getpid"
      BY <1>0, <1>17 DEF GetPid, Flow, At, TgctlRets
    <2>2. Serving /\ s.cmd \in {"pid", "diagnostic"}
      BY <1>2, <1>3, <2>1 DEF Looks, At, Runs
    <2>3. PidFile # None => PidFile \in Servers /\ stage[PidFile] \notin NoHandler
      BY <1>0, <2>2, PidFileType DEF Serving, Running, Alive, NoHandler
    <2>4. Unmoved /\ holder' = holder
      BY <1>17, <2>3 DEF GetPid, Unmoved
    <2>5. \/ Becomes(t, "exists", s.ret, s.fd, s.res, s.child, s.att, s.out)
          \/ \E c : \E o \in {"ok", "err"} : Becomes(t, "idle", s.ret, s.fd, s.res, c, s.att, o)
      BY <1>0, <1>17, Effects DEF GetPid
    <2>6. CASE Becomes(t, "exists", s.ret, s.fd, s.res, s.child, s.att, s.out)
      <3>1. MayArrive(t, "exists", s.ret, s.child, s.att)
        BY <2>1, <2>2 DEF MayArrive, ToLook
      <3> QED BY <2>4, <2>6, <3>1, Arrives, SMT
    <2>7. ASSUME NEW c, NEW o \in {"ok", "err"}, Becomes(t, "idle", s.ret, s.fd, s.res, c, s.att, o)
          PROVE  Knows(t)'
      <3>1. ToEnd(t, c, o)
        BY <2>2 DEF ToEnd, Starts
      <3> QED BY <1>ends, <2>2, <2>4, <2>7, <3>1
    <2> QED BY <2>5, <2>6, <2>7
  <1> QED BY <1>7, <1>8, <1>9, <1>10, <1>11, <1>12, <1>13, <1>14, <1>15, <1>16, <1>17

(* A server that has not been spawned, or has ended, has nothing. *)
LEMMA NoServer ==
  ASSUME SInv, NEW p \in Servers, ~Alive(p)
  PROVE  \A i \in Inodes : holder[i] # p
  <1>1. stage[p] \notin Locked \cup Ready
    BY DEF Alive, Locked, Ready
  <1> QED BY <1>1 DEF SInv, Holders

(* What tgctl knows after the steps that change what it finds. *)
LEMMA CommandDoes ==
  ASSUME SInv, OneAdministrator, NEW t \in Tgctls,
         Command(t) \/ Spawn(t) \/ RequestShutdown(t) \/ Kill(t) \/ Killed(t) \/ ForceDelete(t)
  PROVE  Knows(t)'
  <1>0. /\ TypeOK /\ Flow(t) /\ Situation(t) /\ Reports(t) /\ Alone /\ Holders /\ PathsOwn
        /\ tg[t] \in TgctlType /\ tg \in [Tgctls -> TgctlType] /\ path["pid"] \in Inodes \cup {NoInode}
        /\ stage \in [Servers -> Stages] /\ path \in [Files -> Inodes \cup {NoInode}]
        /\ seg \in [Servers -> [state : States, pid : Servers \cup {None}, request : BOOLEAN]]
        /\ \A p \in Servers : Standing(p)
    BY DEF SInv, GInv, LInv, TypeOK
  <1>1. Deserted => Serving
    BY DEF Deserted, Serving
  <1> DEFINE s == tg[t]
  <1>2. s.pc \notin Checking => Place(t) = s.pc /\ s.cmd \in Runs(s.pc)
    BY <1>0 DEF Place, Flow
  <1>3. ASSUME holder' = holder, sfd' = sfd, \A p \in Servers : stage'[p] = stage[p] \/ stage[p] = "unborn",
               tg'[t].fd \in {s.fd, NoInode}
        PROVE  Holders'
    <2>1. \A u \in Tgctls : tg'[u].fd \in (Servers \X {"pid"}) \cup {NoInode}
      BY <1>0, <1>3 DEF OneAdministrator, Holders
    <2>2. ASSUME NEW i \in Inodes, NEW p \in Servers, holder[i] = p PROVE stage'[p] = stage[p]
      BY <1>3, <2>2, NoServer DEF Alive
    <2> QED BY <1>0, <1>3, <2>1, <2>2, SMT DEF Holders
  <1>4. CASE Command(t)
    <2>1. PICK cmd \in Commands :
              tg' = [tg EXCEPT ![t] = [
                 cmd |-> cmd, ret |-> "begin", fd |-> NoInode, res |-> "no_file",
                 child |-> None, att |-> None, out |-> "absent",
                 pc |-> IF cmd \in {"pid", "diagnostic", "force"} THEN "open" ELSE "construct"]]
      BY <1>4 DEF Command
    <2>2. /\ tg'[t].cmd = cmd /\ tg'[t].ret = "begin" /\ tg'[t].child = None /\ tg'[t].fd = NoInode
          /\ tg'[t].pc = IF cmd \in {"pid", "diagnostic", "force"} THEN "open" ELSE "construct"
      BY <1>0, <2>1
    <2>3. Unmoved /\ holder' = holder /\ At(t, "idle")
      BY <1>4 DEF Command, Unmoved, fileVars, serverVars
    <2>4. Alone' /\ Holders' /\ \A p \in Servers : Standing(p)'
      BY <2>2, <2>3, OnlyLooks
    <2>5. Place(t)' \in {"begin", "open"} /\ tg'[t].pc \in {"construct", "open"}
      BY <2>2 DEF Place, Checking
    <2>6. Serving'
      <3>1. Serving
        BY <1>0, <1>2, <2>3 DEF Situation, Looks, At, Checking
      <3> QED BY <2>3, <3>1 DEF Serving, Alive, Running, Unmoved
    <2>7. ~Awaits(t)'
      BY <2>5 DEF Awaits
    <2>8. Situation(t)'
      BY <2>5, <2>6, <2>7 DEF Situation, At
    <2>9. Reports(t)'
      BY <2>2, <2>5 DEF Reports, Ended, At
    <2> QED BY <2>4, <2>8, <2>9 DEF Knows
  <1>5. CASE Spawn(t)
    <2>1. PICK p \in Servers : Go(p, "unborn", "spawned") /\ tg' = [tg EXCEPT ![t].pc = "alive", ![t].fd = NoInode, ![t].child = p]
      BY <1>5 DEF Spawn
    <2>2. Becomes(t, "alive", s.ret, NoInode, s.res, p, s.att, s.out)
      BY <1>0, <2>1, Effects
    <2>3. /\ At(t, "spawn") /\ UNCHANGED <<path, holder, content, sfd, seg, shmName, served>>
          /\ stage[p] = "unborn" /\ stage'[p] = "spawned" /\ \A q \in Servers : q # p => stage'[q] = stage[q]
      BY <1>0, <1>5, <2>1 DEF Spawn, fileVars, Go
    <2>4. Deserted /\ s.cmd \in Starts
      BY <1>0, <1>2, <2>3 DEF Situation, At, Checking, Runs
    <2>5. \A q \in Servers : Alive(q)' => q = p
      BY <2>3, <2>4 DEF Alive, Deserted
    <2>6. Alone'
      BY <2>5 DEF Alone
    <2>7. Holders'
      BY <1>3, <2>2, <2>3 DEF Becomes
    <2>8. \A q \in Servers : q # p => Standing(q)'
      BY <1>0, <2>3, SMT DEF Standing
    <2>9. Standing(p) /\ ~seg[p].request /\ \A i \in Inodes : content[i] # p
      BY <1>0, <2>3 DEF Standing, Unseen
    <2>10. Standing(p)'
      BY <2>3, <2>9 DEF Standing, Unseen, Named, Early, Filled, Leaving, Visible
    <2>11. Place(t)' = "alive" /\ ~At(t, "idle")' /\ tg'[t].pc = "alive" /\ tg'[t].cmd = s.cmd
      BY <2>2 DEF Becomes, Place, Checking, At
    <2>12. Starting(t)'
      BY <2>2, <2>3, <2>5, <2>9, <2>11 DEF Starting, Becomes, At, Leaving
    <2>13. Situation(t)'
      BY <2>11, <2>12 DEF Situation, Looks, At
    <2>14. Reports(t)'
      BY <2>11 DEF Reports, Ended
    <2> QED BY <2>6, <2>7, <2>8, <2>10, <2>13, <2>14 DEF Knows
  <1>6. CASE RequestShutdown(t)
    <2>1. At(t, "request") /\ UNCHANGED <<path, holder, content, stage, sfd, shmName, served>>
      BY <1>6 DEF RequestShutdown, fileVars
    <2>2. Serving /\ s.att \in Servers /\ stage[s.att] # "unborn"
      BY <1>0, <1>2, <2>1 DEF Situation, Looks, At, Checking
    <2>3. CASE seg[s.att].request
      <3>1. Becomes(t, "idle", s.ret, s.fd, s.res, s.child, s.att, "err") /\ Unmoved
        BY <1>0, <1>6, <2>1, <2>3, Effects DEF RequestShutdown, Unmoved
      <3>2. MayArrive(t, "idle", s.ret, s.child, s.att) /\ ToEnd(t, s.child, "err")
        BY <2>2 DEF MayArrive, ToLook, ToEnd
      <3> QED BY <2>1, <3>1, <3>2, Arrives
    <2>4. CASE ~seg[s.att].request
      <3>1. /\ Becomes(t, "exists", "gone", s.fd, s.res, s.child, s.att, s.out)
            /\ seg' = [seg EXCEPT ![s.att].request = TRUE]
        BY <1>0, <1>6, <2>4, Effects DEF RequestShutdown
      <3>2. Alone' /\ Deserted' = Deserted /\ \A p \in Servers : Alive(p)' = Alive(p)
        BY <1>0, <2>1 DEF Alone, Alive, Deserted
      <3>3. Holders'
        BY <1>3, <2>1, <3>1 DEF Becomes
      <3>4. stage[s.att] \notin Unseen \cup Early
        BY <2>2 DEF Serving, Alive, Running, Unseen, Early
      <3>5. \A p \in Servers : /\ seg'[p].state = seg[p].state /\ seg'[p].pid = seg[p].pid
                               /\ p # s.att => seg'[p].request = seg[p].request
        <4>1. seg \in SegType
          BY <1>0 DEF TypeOK, SegType
        <4>2. s.att \in Servers /\ seg' = [seg EXCEPT ![s.att].request = TRUE]
          BY <2>2, <3>1
        <4>3. ASSUME NEW p \in Servers
              PROVE  /\ seg'[p].state = seg[p].state /\ seg'[p].pid = seg[p].pid
                     /\ p # s.att => seg'[p].request = seg[p].request
          BY ONLY <4>1, <4>2, <4>3, Zenon DEF SegType
        <4> QED BY <4>3
      <3>6. \A p \in Servers : Standing(p)'
        BY <1>0, <2>1, <3>4, <3>5, SMT DEF Standing
      <3>7. Place(t)' = "gone" /\ tg'[t].pc = "exists"
        BY <3>1 DEF Becomes, Place, Checking
      <3>8. \A p \in Servers : Alive(p)' => stage'[p] = "activated"
        BY <2>1, <2>2 DEF Serving, Running, Alive
      <3>9. Situation(t)'
        BY <3>7, <3>8 DEF Situation, Looks, Awaits, At
      <3>10. Reports(t)'
        BY <3>7 DEF Reports, Ended, At
      <3> QED BY <3>2, <3>3, <3>6, <3>9, <3>10 DEF Knows
    <2> QED BY <2>3, <2>4
  <1>7. CASE Kill(t)
    <2>1. At(t, "victim") /\ UNCHANGED <<path, content, sfd, seg, shmName, served>>
      BY <1>7 DEF Kill
    <2>2. Serving
      BY <1>0, <1>2, <2>1 DEF Situation, Looks, At, Checking
    <2>3. CASE PidFile = None
      <3>1. Becomes(t, "idle", s.ret, s.fd, s.res, s.child, s.att, "err") /\ Unmoved /\ holder' = holder
        BY <1>0, <1>7, <2>1, <2>3, Effects DEF Kill, Unmoved
      <3>2. MayArrive(t, "idle", s.ret, s.child, s.att) /\ ToEnd(t, s.child, "err")
        BY <2>2 DEF MayArrive, ToLook, ToEnd
      <3> QED BY <3>1, <3>2, Arrives
    <2>4. CASE PidFile # None
      <3>1. PidFile \in Servers
        BY <1>0, <2>4, PidFileType
      <3>2. /\ stage' = [stage EXCEPT ![PidFile] = "dead"] /\ holder' = Release(PidFile)
            /\ Becomes(t, "construct", "killed", s.fd, s.res, PidFile, s.att, s.out)
        BY <1>0, <1>7, <2>4, Effects DEF Kill
      <3>3. \A p \in Servers : Alive(p) => p = PidFile
        BY <2>2, InItsPlace DEF Serving, Running, Filled
      <3>4. \A p \in Servers : stage'[p] = IF p = PidFile THEN "dead" ELSE stage[p]
        BY <1>0, <3>2
      <3>5. Deserted' /\ Alone' /\ \A p \in Servers : ~Alive(p)'
        BY <3>3, <3>4 DEF Deserted, Alone, Alive
      <3>6. \A i \in Inodes, p \in Servers : holder'[i] # p
        <4>1. ASSUME NEW i \in Inodes, NEW p \in Servers, holder'[i] = p PROVE FALSE
          <5>1. holder[i] = p /\ p # PidFile
            BY <3>2, <4>1, LifecycleAssumption DEF Release
          <5> QED BY <3>3, <5>1, NoServer
        <4> QED BY <4>1
      <3>7. \A p \in Servers, u \in Tgctls : holder'[<<p, "db">>] # u
        <4>1. \A p \in Servers : <<p, "db">> \in Inodes
          BY InodeOf
        <4>2. \A p \in Servers : holder'[<<p, "db">>] \in {None, holder[<<p, "db">>]}
          BY <3>2, <4>1 DEF Release
        <4>3. \A u \in Tgctls : u # None
          BY LifecycleAssumption
        <4>4. \A p \in Servers, u \in Tgctls : holder[<<p, "db">>] # u
          BY <1>0 DEF Holders
        <4> QED BY ONLY <4>2, <4>3, <4>4
      <3>8. \A u \in Tgctls : tg'[u].fd \in (Servers \X {"pid"}) \cup {NoInode}
        BY <1>0, <3>2 DEF OneAdministrator, Holders, Becomes
      <3>9. Holders'
        BY <3>6, <3>7, <3>8 DEF Holders
      <3>10. \A p \in Servers : Standing(p)'
        BY <1>0, <2>1, <3>4, SMT DEF Standing, Unseen, Named, Early, Filled, Leaving, Visible
      <3>11. Place(t)' = "killed" /\ tg'[t].pc = "construct"
        BY <3>2 DEF Becomes, Place, Checking
      <3>12. Situation(t)'
        BY <3>5, <3>11 DEF Situation, Looks, Awaits, At
      <3>13. Reports(t)'
        BY <3>11 DEF Reports, Ended, At
      <3> QED BY <3>5, <3>9, <3>10, <3>12, <3>13 DEF Knows
    <2> QED BY <2>3, <2>4
  <1>8. CASE Killed(t)
    <2>1. At(t, "killed") /\ UNCHANGED <<holder, content, stage, sfd, seg, shmName, served>> /\ s.ret = "killed"
      BY <1>0, <1>8 DEF Killed, serverVars, Flow, At, TgctlRets
    <2>2. Deserted
      BY <1>0, <1>2, <2>1 DEF Situation, At, Checking
    <2>3. CASE s.res = "not_locked"
      <3>1. /\ path' = [path EXCEPT !["pid"] = NoInode] /\ path'["pid"] = NoInode
            /\ Becomes(t, "remains", s.ret, s.fd, s.res, s.child, s.att, s.out)
        BY <1>0, <1>8, <2>3, Effects DEF Killed
      <3>2. Deserted' /\ Alone'
        BY <2>1, <2>2 DEF Deserted, Alone, Alive
      <3>3. Holders'
        BY <1>3, <2>1, <3>1 DEF Becomes
      <3>4. \A p \in Servers : Standing(p)'
        BY <1>0, <2>1, <2>2, SMT DEF Standing, Deserted, Alive, Unseen, Named, Early, Filled, Leaving, Visible
      <3>5. Place(t)' = "remains" /\ tg'[t].pc = "remains"
        BY <3>1 DEF Becomes, Place, Checking
      <3>6. Situation(t)'
        BY <3>1, <3>2, <3>5 DEF Situation, Looks, Awaits, At
      <3>7. Reports(t)'
        BY <3>5 DEF Reports, Ended, At
      <3> QED BY <3>2, <3>3, <3>4, <3>6, <3>7 DEF Knows
    <2>4. CASE s.res # "not_locked"
      <3>1. Becomes(t, "construct", s.ret, s.fd, s.res, s.child, s.att, s.out) /\ Unmoved
        BY <1>0, <1>8, <2>1, <2>4, Effects DEF Killed, Unmoved
      <3>2. MayArrive(t, "construct", s.ret, s.child, s.att)
        BY <2>1, <2>2 DEF MayArrive, ToRemains
      <3> QED BY <2>1, <3>1, <3>2, Arrives, SMT
    <2> QED BY <2>3, <2>4
  <1>9. CASE ForceDelete(t)
    <2>1. /\ At(t, "delete") /\ UNCHANGED <<path, holder, content, stage, sfd, seg, served>>
          /\ shmName' = None
      BY <1>9 DEF ForceDelete, fileVars
    <2>2. Deserted /\ path["pid"] = NoInode
      BY <1>0, <1>2, <2>1 DEF Situation, At, Checking
    <2>3. \/ s.cmd = "kill" /\ Becomes(t, "idle", s.ret, s.fd, s.res, s.child, s.att, "ok")
          \/ s.cmd # "kill" /\ Becomes(t, "construct", "begin", s.fd, s.res, s.child, s.att, s.out)
      BY <1>0, <1>9, Effects DEF ForceDelete
    <2>4. Deserted' /\ Alone' /\ Serving'
      BY <2>1, <2>2 DEF Deserted, Alone, Alive, Serving
    <2>5. Holders'
      BY <1>3, <2>1, <2>3 DEF Becomes
    <2>6. \A p \in Servers : Standing(p)'
      BY <1>0, <2>1, <2>2, LifecycleAssumption, SMT DEF Standing, Deserted, Alive, Unseen, Named, Early, Filled, Leaving, Visible
    <2>7. CASE s.cmd = "kill" /\ Becomes(t, "idle", s.ret, s.fd, s.res, s.child, s.att, "ok")
      <3>1. Place(t)' = "idle" /\ tg'[t].pc = "idle" /\ tg'[t].cmd = "kill" /\ tg'[t].out = "ok"
        BY <2>7 DEF Becomes, Place, Checking
      <3>2. Situation(t)'
        BY <2>4, <3>1 DEF Situation, Looks, Awaits, At
      <3>3. Reports(t)'
        BY <2>1, <2>2, <2>4, <3>1 DEF Reports, Ended, At, Starts
      <3> QED BY <2>4, <2>5, <2>6, <3>2, <3>3 DEF Knows
    <2>8. CASE s.cmd # "kill" /\ Becomes(t, "construct", "begin", s.fd, s.res, s.child, s.att, s.out)
      <3>1. Place(t)' = "begin" /\ tg'[t].pc = "construct" /\ tg'[t].cmd # "kill"
        BY <2>8 DEF Becomes, Place, Checking
      <3>2. Situation(t)'
        BY <2>4, <3>1 DEF Situation, Looks, Awaits, At
      <3>3. Reports(t)'
        BY <3>1 DEF Reports, Ended, At
      <3> QED BY <2>4, <2>5, <2>6, <3>2, <3>3 DEF Knows
    <2> QED BY <2>3, <2>7, <2>8
  <1> QED BY <1>4, <1>5, <1>6, <1>7, <1>8, <1>9

-----------------------------------------------------------------------------
(* The invariant holds from the start. *)
LEMMA SerialInit == Init => SInv
  <1> SUFFICES ASSUME Init PROVE SInv
    OBVIOUS
  <1>1. GInv
    BY GroundedInit
  <1>2. Alone /\ Serving
    BY DEF Init, Alone, Serving, Alive
  <1>3. Holders
    BY LifecycleAssumption, InodeOf DEF Init, Holders
  <1>4. \A p \in Servers : Standing(p)
    BY LifecycleAssumption DEF Init, Standing, Unseen, Named, Early, Filled, Leaving, Visible
  <1>5. ASSUME NEW t \in Tgctls PROVE Situation(t) /\ Reports(t)
    BY <1>2 DEF Init, Situation, Reports, Place, Checking, Looks, Awaits, At, Ended, Starts
  <1> QED BY <1>1, <1>2, <1>3, <1>4, <1>5 DEF SInv

(* Every step keeps it. *)
LEMMA SerialStep == OneAdministrator /\ SInv /\ [Next]_vars => SInv'
  <1> SUFFICES ASSUME OneAdministrator, SInv, [Next]_vars PROVE SInv'
    OBVIOUS
  <1>0. GInv' /\ TypeOK
    BY GroundedStep DEF SInv, GInv, LInv
  <1>1. ASSUME NEW p \in Servers, ServerStep(p) \/ Crash(p) PROVE SInv'
    <2>1. Frame(p)
      BY <1>0, <1>1, ServerFrame
    <2>2. Steps(p)
      BY <1>1, ServerDoes
    <2>3. Alone' /\ (\A q \in Servers : Standing(q)')
      BY <2>1, <2>2, StandingKept
    <2>4. Holders'
      BY <1>1, <2>1, <2>2, HoldersKept
    <2>5. \A t \in Tgctls : Situation(t)' /\ Reports(t)'
      BY <2>1, <2>2, SituationKept
    <2> QED BY <1>0, <2>3, <2>4, <2>5 DEF SInv
  <1>2. ASSUME NEW t \in Tgctls, Command(t) \/ TgctlStep(t) PROVE SInv'
    <2>1. Knows(t)'
      BY <1>2, CheckKnows, CommandKnows, CommandDoes DEF TgctlStep
    <2>2. \A u \in Tgctls : u = t
      BY DEF OneAdministrator
    <2> QED BY <1>0, <2>1, <2>2 DEF SInv, Knows
  <1>3. CASE UNCHANGED vars
    <2>1. UNCHANGED <<path, holder, content, stage, sfd, seg, shmName, served, tg>>
      BY <1>3 DEF vars, fileVars, serverVars, tgctlVars
    <2>2. Alone' /\ Holders' /\ \A p \in Servers : Standing(p)'
      BY <2>1, SMT DEF SInv, Alone, Alive, Holders, Standing
    <2>3. ASSUME NEW t \in Tgctls PROVE Situation(t)' /\ Reports(t)'
      <3>1. /\ Place(t)' = Place(t) /\ Deserted' = Deserted /\ Serving' = Serving
            /\ \A p \in Servers : Alive(p)' = Alive(p)
            /\ \A l : At(t, l)' = At(t, l)
        BY <2>1 DEF Place, Serving, Deserted, Alive, Running, At
      <3>2. Looks(t)' = Looks(t) /\ Awaits(t)' = Awaits(t) /\ \A c, o : Ended(t, c, o)' = Ended(t, c, o)
        BY <2>1, <3>1 DEF Looks, Awaits, Ended
      <3>3. Starting(t) => Starting(t)'
        BY <2>1, <3>1 DEF Starting
      <3>4. Situation(t) /\ Reports(t)
        BY DEF SInv
      <3>5. Situation(t)'
        BY <2>1, <3>1, <3>2, <3>3, <3>4 DEF Situation
      <3>6. Reports(t)'
        BY <2>1, <3>1, <3>2, <3>4 DEF Reports
      <3> QED BY <3>5, <3>6
    <2> QED BY <1>0, <2>2, <2>3 DEF SInv
  <1> QED BY <1>1, <1>2, <1>3 DEF Next, OneAdministrator, BootError, AltimeterError, GiveUp

(***************************************************************************)
(* A server that serves can be found, by the name of its pid file, the pid *)
(* in it and the name of its status segment, if one administrator runs the *)
(* commands one after the other and waits for each: for any number of      *)
(* commands and of servers, whichever crash, and whatever those leave      *)
(* behind.                                                                 *)
(***************************************************************************)
THEOREM ServersAreFound ==
  ASSUME OneAdministrator
  PROVE  Spec => []Findable
  <1>1. SInv => Findable
    <2> SUFFICES ASSUME SInv, NEW p \in Servers, Running(p)
                 PROVE  path["pid"] = sfd[p]["pid"] /\ PidFile = p /\ shmName = p
      BY DEF Findable
    <2>1. Standing(p) /\ stage[p] \in Filled \cap Named
      BY DEF SInv, Running, Filled, Named
    <2> QED BY <2>1, InItsPlace DEF Standing
  <1> QED BY <1>1, SerialInit, SerialStep, PTL DEF Spec

(***************************************************************************)
(* What a command of the only administrator reports is true.  tgctl start  *)
(* says ok of the server that it has spawned, tgctl shutdown and kill when *)
(* there is no server left, and tgctl status says INACTIVE or UNKNOWN only *)
(* when none is running.                                                   *)
(***************************************************************************)
THEOREM ReportsAreTrue ==
  ASSUME OneAdministrator
  PROVE  Spec => []ReportTruth
  <1>1. SInv => ReportTruth
    <2> SUFFICES ASSUME SInv PROVE ReportTruth
      OBVIOUS
    <2>1. \A t \in Tgctls : Reports(t)
      BY DEF SInv
    <2>2. StartTruth
      BY <2>1 DEF StartTruth, Reports, Starts
    <2>3. ShutdownTruth
      BY <2>1 DEF ShutdownTruth, Reports, Deserted
    <2>4. KillTruth
      <3>1. \A t \in Tgctls : tg[t].child \in Servers \cup {None}
        BY DEF SInv, GInv, LInv, TypeOK, TgctlType
      <3> QED BY <2>1, <3>1 DEF KillTruth, Reports, Deserted
    <2>5. StatusTruth
      BY <2>1 DEF StatusTruth, Reports, Deserted, Running, Alive
    <2> QED BY <2>2, <2>3, <2>4, <2>5 DEF ReportTruth
  <1> QED BY <1>1, SerialInit, SerialStep, PTL DEF Spec
=============================================================================
