-------------------------- MODULE TransportProofs --------------------------
(***************************************************************************)
(* Proofs about Transport, for every number of intervals that the server   *)
(* keeps a session: no session is left open, no session expires that is in *)
(* use and renewed, and the credential file is kept.                       *)
(***************************************************************************)
EXTENDS Transport, FiniteSetTheorems, TLAPS

(* The places of the main thread before, with and after a timer. *)
Before == {"check", "connect", "auth", "key", "shake", "make_timer", "catch", "threw",
           "left", "refused"}
With == {"use", "wait", "stop", "join", "done", "aborted"}

(* Types, as far as the proofs need them. *)
Types ==
    /\ main \in Before \cup With
    /\ timer \in {"none", "sleep", "woken", "work", "ended"}
    /\ timer = "none" <=> main \in Before
    /\ session \in {"none", "connected", "open", "closed", "expired"}
    /\ lease \in Nat
    /\ fired \in BOOLEAN /\ stop \in BOOLEAN /\ alive \in BOOLEAN /\ renewable \in BOOLEAN
    /\ closed \in BOOLEAN /\ overwrite \in BOOLEAN
    /\ answer \in [Threads -> Answers \cup {"none"}]
    /\ asked \subseteq Threads

(* What the server has of the session, by where the main thread is. *)
Phases ==
    /\ main \in {"check", "connect", "refused"} => session = "none"
    /\ main \in {"auth", "key"} => session = "connected"
    /\ main = "shake" => session \in {"connected", "open"}
    /\ main = "shake" /\ "main" \notin asked =>
          (session = "open" <=> answer["main"] = "success")
    /\ main = "shake" /\ "main" \in asked => session = "connected"
    /\ main = "make_timer" => session = "open"
    /\ main = "catch" => session = "connected"
    /\ main \in With => session \in {"open", "closed", "expired"}
    /\ main \in {"use", "wait"} => ~closed
    /\ closed => session \notin {"connected", "open"}
    /\ closed => main \in {"threw", "stop", "join", "done", "aborted"}
    /\ session = "closed" => closed
    /\ session = "open" => lease > 0

(* Where the main thread is done, so is the thread of the timer. *)
Finished ==
    /\ main \in {"done", "threw"} => closed
    /\ main = "done" => timer = "ended"
    /\ stop => main \in {"join", "done", "aborted"}
    /\ main = "join" => stop

(* The session is renewed: what a renewal in progress will find, and that  *)
(* at most one interval has passed since the last one.                     *)
Renewing ==
    /\ timer \in {"sleep", "woken"} => "timer" \notin asked
    /\ timer = "none" => "timer" \notin asked /\ ~fired
    /\ timer \in {"woken", "work"} => ~fired
    /\ timer = "work" /\ "timer" \notin asked /\ renewable => answer["timer"] = "success"
    /\ timer = "ended" => ~renewable \/ stop \/ main = "aborted"
    /\ session = "open" /\ renewable /\ ~stop /\ main \notin {"left", "aborted"} =>
          /\ lease \in {Lease, Lease - 1}
          /\ lease = Lease - 1 => fired \/ timer = "woken" \/ (timer = "work" /\ "timer" \in asked)

(* The credential file, by where the main thread is. *)
Filed ==
    file \in {"none", "old", "others"} \/ main \in {"stop", "join", "done", "aborted"}

IInv == Types /\ Phases /\ Finished /\ Renewing /\ KeptAlive /\ Filed

-----------------------------------------------------------------------------
(* The invariant holds before the constructor runs. *)
LEMMA InitInv == Init => IInv
<1> SUFFICES ASSUME Init PROVE IInv
  OBVIOUS
<1> USE TransportAssumption DEF Init
<1>1. Types
  BY DEF Types, Before, With, Threads, Answers
<1>2. Phases
  BY DEF Phases, Before, With, Threads, Answers
<1>3. Finished
  BY DEF Finished, Before, With, Threads, Answers
<1>4. Renewing
  BY DEF Renewing, Before, With, Threads, Answers
<1>5. KeptAlive
  BY DEF KeptAlive, Before, With, Threads, Answers
<1>6. Filed
  BY DEF Filed, Before, With, Threads, Answers
<1> QED
  BY <1>1, <1>2, <1>3, <1>4, <1>5, <1>6 DEF IInv

(* What a thread that has asked the server leaves behind. *)
LEMMA Asked ==
    ASSUME NEW u \in Threads, Types, Ask(u)
    PROVE  /\ answer' \in [Threads -> Answers \cup {"none"}] /\ asked' \subseteq Threads
           /\ u \in asked'
           /\ \A v \in Threads \ {u} : answer'[v] = answer[v] /\ (v \in asked' <=> v \in asked)
<1>1. answer' \in [Threads -> Answers \cup {"none"}] /\ asked' \subseteq Threads
  BY DEF Types, Ask
<1>2. u \in asked'
  BY DEF Ask
<1>3. \A v \in Threads \ {u} : answer'[v] = answer[v] /\ (v \in asked' <=> v \in asked)
  BY DEF Types, Ask
<1> QED
  BY <1>1, <1>2, <1>3

(* Every step of the two threads, of the server, of time and of another    *)
(* process keeps the invariant.                                            *)
LEMMA NextInv == IInv /\ [Next]_vars => IInv'
<1> SUFFICES ASSUME IInv, [Next]_vars PROVE IInv'
  OBVIOUS
<1> USE TransportAssumption
    DEF IInv, Types, Phases, Finished, Renewing, KeptAlive, Filed, Before, With, Threads,
        Answers, client, clock, server, talk
<1>1. CASE CheckCredentials
  BY <1>1 DEF CheckCredentials
<1>2. CASE Connect
  BY <1>2 DEF Connect
<1>3. CASE Authenticate
  <2>0. ASSUME Ask("main")
        PROVE  /\ answer' \in [Threads -> Answers \cup {"none"}] /\ asked' \subseteq Threads
               /\ "main" \in asked'
               /\ answer'["timer"] = answer["timer"] /\ ("timer" \in asked' <=> "timer" \in asked)
    BY <2>0, Asked
  <2>1. (Types /\ Phases)'
    BY <1>3, <2>0 DEF Authenticate
  <2>2. (Finished /\ Renewing /\ KeptAlive /\ Filed)'
    BY <1>3, <2>0 DEF Authenticate
  <2> QED
    BY ONLY <2>1, <2>2 DEF IInv
<1>4. CASE Encrypt
  <2>0. ASSUME Ask("main")
        PROVE  /\ answer' \in [Threads -> Answers \cup {"none"}] /\ asked' \subseteq Threads
               /\ "main" \in asked'
               /\ answer'["timer"] = answer["timer"] /\ ("timer" \in asked' <=> "timer" \in asked)
    BY <2>0, Asked
  <2>1. (Types /\ Phases)'
    BY <1>4, <2>0 DEF Encrypt, Received
  <2>2. (Finished /\ Renewing /\ KeptAlive /\ Filed)'
    BY <1>4, <2>0 DEF Encrypt, Received
  <2> QED
    BY ONLY <2>1, <2>2 DEF IInv
<1>5. CASE handshake
  BY <1>5 DEF handshake, Received
<1>6. CASE MakeTimer
  <2>1. (Types /\ Phases)'
    BY <1>6 DEF MakeTimer
  <2>2. (Finished /\ Renewing /\ KeptAlive /\ Filed)'
    BY <1>6 DEF MakeTimer
  <2> QED
    BY ONLY <2>1, <2>2 DEF IInv
<1>7. CASE Catch
  <2>1. (Types /\ Phases)'
    BY <1>7 DEF Catch, Disconnect
  <2>2. (Finished /\ Renewing /\ KeptAlive /\ Filed)'
    BY <1>7 DEF Catch, Disconnect
  <2> QED
    BY ONLY <2>1, <2>2 DEF IInv
<1>8. CASE Use
  <2>0. ASSUME Ask("main")
        PROVE  /\ answer' \in [Threads -> Answers \cup {"none"}] /\ asked' \subseteq Threads
               /\ "main" \in asked'
               /\ answer'["timer"] = answer["timer"] /\ ("timer" \in asked' <=> "timer" \in asked)
    BY <2>0, Asked
  <2>1. (Types /\ Phases)'
    BY <1>8, <2>0 DEF Use
  <2>2. (Finished /\ Renewing /\ KeptAlive /\ Filed)'
    BY <1>8, <2>0 DEF Use
  <2> QED
    BY ONLY <2>1, <2>2 DEF IInv
<1>9. CASE Reply
  BY <1>9 DEF Reply, Received
<1>10. CASE Close
  BY <1>10 DEF Close, Disconnect
<1>11. CASE WriteFile
  BY <1>11 DEF WriteFile, Written
<1>12. CASE Stop
  BY <1>12 DEF Stop
<1>13. CASE Join
  BY <1>13 DEF Join, Disconnect
<1>14. CASE Rearmed
  BY <1>14 DEF Rearmed
<1>15. CASE Read
  <2>1. (Types /\ Phases)'
    BY <1>15 DEF Read
  <2>2. (Finished /\ Renewing /\ KeptAlive /\ Filed)'
    BY <1>15 DEF Read
  <2> QED
    BY ONLY <2>1, <2>2 DEF IInv
<1>16. CASE Work
  <2>0. ASSUME Ask("timer")
        PROVE  /\ answer' \in [Threads -> Answers \cup {"none"}] /\ asked' \subseteq Threads
               /\ "timer" \in asked'
               /\ answer'["main"] = answer["main"] /\ ("main" \in asked' <=> "main" \in asked)
    BY <2>0, Asked
  <2>1. (Types /\ Phases)'
    BY <1>16, <2>0 DEF Work
  <2>2. (Finished /\ Renewing /\ KeptAlive /\ Filed)'
    BY <1>16, <2>0 DEF Work
  <2> QED
    BY ONLY <2>1, <2>2 DEF IInv
<1>17. CASE Renewed
  BY <1>17 DEF Renewed, Received
<1>18. CASE \E u \in Threads : AnswerTo(u)
  BY <1>18 DEF AnswerTo, Answer
<1>19. CASE Tick
  BY <1>19 DEF Tick
<1>20. CASE Crash
  <2>1. Types'
    BY <1>20 DEF Crash
  <2>2. (Phases /\ Finished)'
    BY <1>20 DEF Crash
  <2>3. (Renewing /\ KeptAlive /\ Filed)'
    BY <1>20 DEF Crash
  <2> QED
    BY ONLY <2>1, <2>2, <2>3 DEF IInv
<1>21. CASE Another
  BY <1>21 DEF Another
<1>22. CASE UNCHANGED vars
  BY <1>22 DEF vars
<1> QED
  BY <1>1, <1>2, <1>3, <1>4, <1>5, <1>6, <1>7, <1>8, <1>9, <1>10, <1>11, <1>12,
     <1>13, <1>14, <1>15, <1>16, <1>17, <1>18, <1>19, <1>20, <1>21, <1>22
     DEF Next, MainStep, TimerStep

-----------------------------------------------------------------------------
(* The invariant that the theorems rest on. *)
LEMMA Invariance == Spec => []IInv
<1>1. Init => IInv
  BY InitInv
<1>2. IInv /\ [Next]_vars => IInv'
  BY NextInv
<1> QED
  BY <1>1, <1>2, PTL DEF Spec

(* When the destructor has run, or the constructor has thrown an error of  *)
(* tgctl, which is what it catches, the server has been told that the      *)
(* session is over and the thread of the timer has ended.  The two other   *)
(* ends, what else the constructor throws and the end of the process by    *)
(* the timer's thread, are not in the statement.                           *)
THEOREM NoSessionLeft == Spec => []SessionNotLeft
<1>1. IInv => SessionNotLeft
  BY DEF IInv, Types, Phases, Finished, SessionNotLeft, Before
<1> QED
  BY <1>1, Invariance, PTL

(* However long the server keeps a session that is not renewed, if for two *)
(* intervals of the timer at least, no session expires that is in use and  *)
(* of which every renewal has succeeded.                                   *)
THEOREM SessionsKeptAlive == Spec => []KeptAlive
<1>1. IInv => KeptAlive
  BY DEF IInv
<1> QED
  BY <1>1, Invariance, PTL

(* tgctl credentials that comes to nothing has not touched the file.       *)
THEOREM CredentialFileSpared == Spec => []FailureSparesFile
<1>1. IInv => FailureSparesFile
  BY DEF IInv, Filed, FailureSparesFile
<1> QED
  BY <1>1, Invariance, PTL

-----------------------------------------------------------------------------
(* Types that the other proofs do without. *)
Ranges ==
    /\ given \subseteq Options /\ purpose \in Purposes
    /\ file \in {"none", "old", "others", "new", "replaced", "clobbered"}
    /\ lease <= Lease

(* Every step keeps them. *)
LEMMA NextRanges == IInv /\ Ranges /\ [Next]_vars => Ranges'
<1> SUFFICES ASSUME IInv, Ranges, [Next]_vars PROVE Ranges'
  OBVIOUS
<1>0. Lease \in Nat /\ lease \in Nat
  BY TransportAssumption DEF IInv, Types
<1> USE DEF Ranges
<1>1. CASE CheckCredentials
  BY <1>1 DEF CheckCredentials, Options, server, clock
<1>2. CASE Authenticate
  BY <1>2 DEF Authenticate, server, clock
<1>3. CASE WriteFile
  BY <1>3 DEF WriteFile, Written, client, server
<1>4. CASE Another
  BY <1>4 DEF Another, client, server
<1>5. CASE Tick
  BY <1>0, <1>5 DEF Tick, client
<1>6. CASE \E u \in Threads : AnswerTo(u)
  BY <1>0, <1>6 DEF AnswerTo, Answer, client
<1>7. CASE Connect \/ Encrypt \/ handshake \/ MakeTimer \/ Catch \/ Use \/ Reply \/ Close
  BY <1>7 DEF Connect, Encrypt, handshake, MakeTimer, Catch, Use, Reply, Close, Disconnect,
              client, server
<1>8. CASE Stop \/ Join \/ TimerStep \/ Crash \/ UNCHANGED vars
  BY <1>8 DEF Stop, Join, TimerStep, Rearmed, Read, Work, Renewed, Crash, Disconnect, vars,
              client, server
<1> QED
  BY <1>1, <1>2, <1>3, <1>4, <1>5, <1>6, <1>7, <1>8 DEF Next, MainStep

(* The invariant with the types. *)
LEMMA RangesHold == Spec => [](IInv /\ Ranges)
<1>1. Init => Ranges
  BY TransportAssumption DEF Init, Ranges
<1>2. IInv /\ Ranges /\ [Next]_vars => Ranges'
  BY NextRanges
<1> QED
  BY <1>1, <1>2, Invariance, PTL DEF Spec

(* The types of the transport: in particular there is a timer exactly from *)
(* the end of the constructor on.                                          *)
THEOREM TypesAreKept == Spec => []TypeOK
<1>1. IInv /\ Ranges => TypeOK
  <2> SUFFICES ASSUME IInv, Ranges PROVE TypeOK
    OBVIOUS
  <2>1. timer \in IF main \in {"use", "wait", "stop", "join", "done", "aborted"}
                  THEN {"sleep", "woken", "work", "ended"} ELSE {"none"}
    BY DEF IInv, Types, Before, With
  <2>2. lease \in 0 .. Lease
    BY TransportAssumption DEF IInv, Types, Ranges
  <2> QED
    BY <2>1, <2>2 DEF IInv, Types, Ranges, TypeOK, Before, With
<1> QED
  BY <1>1, RangesHold, PTL

-----------------------------------------------------------------------------
(* The least of a set of places is the one that is chosen. *)
LEMMA Least ==
    ASSUME NEW H \in SUBSET Nat, NEW k \in H, \A j \in H : k <= j
    PROVE  (CHOOSE i \in H : \A j \in H : i <= j) = k
<1> DEFINE c == CHOOSE i \in H : \A j \in H : i <= j
<1>1. c \in H /\ \A j \in H : c <= j
  OBVIOUS
<1>2. c <= k /\ k <= c
  BY <1>1
<1> HIDE DEF c
<1>3. c = k
  BY <1>1, <1>2
<1> QED
  BY <1>3 DEF c

(* Two of the options are given, or one, or none. *)
LEMMA HowMany ==
    ASSUME NEW S \in SUBSET Explicit
    PROVE  Cardinality(S) > 1 <=> \E a, b \in S : a # b
<1>1. IsFiniteSet(Explicit)
  <2>1. IsFiniteSet({"no_auth"} \cup {"user"})
    BY FS_Singleton, FS_AddElement
  <2>2. IsFiniteSet(({"no_auth"} \cup {"user"}) \cup {"auth_token"})
    BY <2>1, FS_AddElement
  <2>3. IsFiniteSet((({"no_auth"} \cup {"user"}) \cup {"auth_token"}) \cup {"credentials"})
    BY <2>2, FS_AddElement
  <2>4. Explicit = (({"no_auth"} \cup {"user"}) \cup {"auth_token"}) \cup {"credentials"}
    BY DEF Explicit
  <2> QED
    BY <2>3, <2>4
<1>2. IsFiniteSet(S) /\ Cardinality(S) \in Nat
  BY <1>1, FS_Subset, FS_CardinalityType
<1>3. CASE S = {}
  BY <1>3, FS_EmptySet
<1>4. ASSUME NEW a \in S, \A b \in S : a = b
      PROVE  Cardinality(S) = 1
  <2>1. S = {a}
    BY <1>4
  <2> QED
    BY <2>1, FS_Singleton
<1>5. ASSUME NEW a \in S, NEW b \in S, a # b
      PROVE  Cardinality(S) > 1
  <2>1. Cardinality({a}) = 1 /\ IsFiniteSet({a})
    BY FS_Singleton
  <2>2. {a} \in SUBSET S /\ {a} # S
    BY <1>5
  <2>3. Cardinality({a}) <= Cardinality(S) /\ Cardinality(S) # Cardinality({a})
    BY <1>2, <2>2, FS_Subset
  <2> QED
    BY <1>2, <2>1, <2>3
<1> QED
  BY <1>2, <1>3, <1>4, <1>5

(* The type of the first of the options that hold, in the order in which   *)
(* the credential handler looks at them.                                   *)
FirstOf(S) ==
    IF "no_auth" \in S THEN "no_auth"
    ELSE IF "user" \in S THEN "user_password"
    ELSE IF "auth_token" \in S THEN "auth_token"
    ELSE IF "credentials" \in S THEN "file"
    ELSE IF "env_token" \in S THEN "auth_token"
    ELSE IF "home" \in S THEN "file" ELSE "not_defined"

(* It is what auth_options decides on. *)
LEMMA FirstIsTaken ==
    auth_options = IF "enabled" \notin given THEN "disabled"
                   ELSE IF ~check_not_more_than_one THEN "refused" ELSE FirstOf(given)
<1> DEFINE H == {i \in 1 .. 6 : Order[i].option \in given}
           c == CHOOSE i \in H : \A j \in H : i <= j
<1>0. DOMAIN Order = 1 .. 6
  BY DEF Order
<1>1. auth_options = IF "enabled" \notin given THEN "disabled"
                     ELSE IF ~check_not_more_than_one THEN "refused"
                     ELSE IF H = {} THEN "not_defined" ELSE Order[c].type
  BY <1>0 DEF auth_options
<1>2. /\ 1 \in H <=> "no_auth" \in given
      /\ 2 \in H <=> "user" \in given
      /\ 3 \in H <=> "auth_token" \in given
      /\ 4 \in H <=> "credentials" \in given
      /\ 5 \in H <=> "env_token" \in given
      /\ 6 \in H <=> "home" \in given
  BY DEF Order
<1>3. /\ Order[1].type = "no_auth" /\ Order[2].type = "user_password"
      /\ Order[3].type = "auth_token" /\ Order[4].type = "file"
      /\ Order[5].type = "auth_token" /\ Order[6].type = "file"
  BY DEF Order
<1>4. H \in SUBSET (1 .. 6) /\ H \in SUBSET Nat
  OBVIOUS
<1>5. \A k \in H : (\A j \in H : k <= j) => c = k
  BY <1>4, Least
<1> HIDE DEF H, c
<1>6. \A j \in H : j = 1 \/ j = 2 \/ j = 3 \/ j = 4 \/ j = 5 \/ j = 6
  BY <1>4
<1>7. /\ 1 \in H => c = 1
      /\ 1 \notin H /\ 2 \in H => c = 2
      /\ 1 \notin H /\ 2 \notin H /\ 3 \in H => c = 3
      /\ 1 \notin H /\ 2 \notin H /\ 3 \notin H /\ 4 \in H => c = 4
      /\ 1 \notin H /\ 2 \notin H /\ 3 \notin H /\ 4 \notin H /\ 5 \in H => c = 5
      /\ 1 \notin H /\ 2 \notin H /\ 3 \notin H /\ 4 \notin H /\ 5 \notin H /\ 6 \in H => c = 6
  BY <1>5, <1>6
<1>8. (IF H = {} THEN "not_defined" ELSE Order[c].type) = FirstOf(given)
  BY <1>2, <1>3, <1>6, <1>7 DEF FirstOf
<1> QED
  BY <1>1, <1>8

(* The credential that add_credential uses is the only one of the options  *)
(* that is given; two are refused, and the environment and the default     *)
(* file count only if there is none and authentication is on.              *)
THEOREM TheOptionGivenIsUsed == Spec => ExplicitWins
<1> DEFINE Step ==
      main = "auth" /\ main' # "auth" =>
        LET options == given \cap Explicit IN
        /\ "enabled" \notin given <=> credential' = "disabled"
        /\ credential' = "refused" <=> "enabled" \in given /\ Cardinality(options) > 1
        /\ credential' = "user_password" <=> "enabled" \in given /\ options = {"user"}
        /\ credential' = "no_auth" <=> "enabled" \in given /\ options = {"no_auth"}
        /\ credential' = "auth_token" <=>
              /\ "enabled" \in given
              /\ options = {"auth_token"} \/ (options = {} /\ "env_token" \in given)
        /\ credential' = "not_defined" => main' = "catch"
<1>1. IInv /\ [Next]_vars => [Step]_vars
  <2> SUFFICES ASSUME IInv, [Next]_vars, main = "auth", main' # "auth" PROVE Step
    OBVIOUS
  <2>1. timer = "none"
    BY DEF IInv, Types, Before
  <2>2. Authenticate
    BY <2>1 DEF Next, MainStep, TimerStep, CheckCredentials, Connect, Encrypt, handshake,
       MakeTimer, Catch, Use, Reply, Close, WriteFile, Stop, Join, Rearmed, Read, Work, Renewed,
       AnswerTo, Answer, Tick, Crash, Another, vars
  <2> DEFINE options == given \cap Explicit
  <2>3. /\ credential' = IF "enabled" \notin given THEN "disabled"
                         ELSE IF ~check_not_more_than_one THEN "refused" ELSE FirstOf(given)
        /\ credential' = "not_defined" => main' = "catch"
    BY <2>2, FirstIsTaken DEF Authenticate
  <2>4. check_not_more_than_one <=> ~(\E a, b \in options : a # b)
    BY DEF check_not_more_than_one, Explicit
  <2>5. check_not_more_than_one <=> ~(Cardinality(options) > 1)
    BY <2>4, HowMany
  <2>6. /\ "no_auth" \in options <=> "no_auth" \in given
        /\ "user" \in options <=> "user" \in given
        /\ "auth_token" \in options <=> "auth_token" \in given
        /\ "credentials" \in options <=> "credentials" \in given
        /\ \A o \in options : o \in {"no_auth", "user", "auth_token", "credentials"}
    BY DEF Explicit
  <2> HIDE DEF options
  <2>7. /\ "enabled" \notin given <=> credential' = "disabled"
        /\ credential' = "refused" <=> "enabled" \in given /\ ~check_not_more_than_one
    BY <2>3 DEF FirstOf
  <2>8. credential' = "user_password" <=> "enabled" \in given /\ options = {"user"}
    BY <2>3, <2>4, <2>6 DEF FirstOf
  <2>9. credential' = "no_auth" <=> "enabled" \in given /\ options = {"no_auth"}
    BY <2>3, <2>4, <2>6 DEF FirstOf
  <2>10. credential' = "auth_token" <=>
           /\ "enabled" \in given
           /\ options = {"auth_token"} \/ (options = {} /\ "env_token" \in given)
    BY <2>3, <2>4, <2>6 DEF FirstOf
  <2> QED
    BY <2>3, <2>5, <2>7, <2>8, <2>9, <2>10 DEF options
<1> HIDE DEF Step
<1>2. Spec => [][Step]_vars
  BY <1>1, Invariance, PTL DEF Spec
<1> QED
  BY <1>2 DEF Step, ExplicitWins
=============================================================================
