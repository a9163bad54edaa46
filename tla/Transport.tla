------------------------------ MODULE Transport ------------------------------
(***************************************************************************)
(* One transport (transport/transport.h) from its constructor to the end   *)
(* of its destructor, with the credential it offers (authentication/       *)
(* credential_handler.cpp), the timer that renews the session (transport/  *)
(* timer.h) and the credential file that tgctl credentials writes          *)
(* (authentication/authenticator.cpp).                                     *)
(*                                                                         *)
(* The main thread connects, authenticates, shakes hands, makes the timer  *)
(* and uses the session; the timer's thread sends a request of its own     *)
(* once an interval.  How the two share the wires is in SessionReceive;    *)
(* here a request is outstanding until the server answers it.  The server, *)
(* which is not in this repository, drops a session that is not renewed.   *)
(***************************************************************************)
EXTENDS Naturals, FiniteSets

CONSTANTS
    Lease,       \* intervals for which the server keeps a session unrenewed
    Crashes      \* whether the server may crash

ASSUME TransportAssumption == Lease \in Nat \ {0, 1} /\ Crashes \in BOOLEAN

Purposes == {"request", "datastore", "credentials"}

(* What decides on the credential: the configuration, the four options and *)
(* the environment.                                                        *)
Options == {"enabled", "no_auth", "user", "auth_token", "credentials", "env_token", "home"}

Explicit == {"no_auth", "user", "auth_token", "credentials"}

VARIABLES
    given,       \* the options that hold, until they have been looked at
    purpose,     \* what the transport is made for
    overwrite,   \* --overwrite and not --no-overwrite
    file,        \* the credential file and whose it is
    main,        \* where the main thread is
    credential,  \* type_ of the credential handler
    closed,      \* closed_
    timer,       \* where the thread of the timer is
    fired,       \* the timerfd can be read
    stop,        \* stop_flag_
    session,     \* the session as the server has it
    lease,       \* the intervals that are left of it
    asked,       \* the threads whose request the server has not answered
    answer,      \* the answer that a thread has got
    alive,       \* the server runs
    renewable    \* no renewal has failed

client == <<given, purpose, overwrite, credential>>
clock == <<timer, fired, stop>>
server == <<session, lease, alive, renewable>>
talk == <<asked, answer>>
vars == <<client, file, main, closed, clock, server, talk>>

Threads == {"main", "timer"}
Answers == {"success", "failure", "unusable", "diagnostic"}

Init ==
    /\ given \in SUBSET Options
    /\ purpose \in Purposes /\ overwrite \in BOOLEAN
    /\ (purpose # "credentials" => ~overwrite)
    /\ file \in {"none", "old"}
    /\ main = IF purpose = "credentials" THEN "check" ELSE "connect"
    /\ credential = "not_defined" /\ closed = FALSE
    /\ timer = "none" /\ fired = FALSE /\ stop = FALSE
    /\ session = "none" /\ lease = 0 /\ alive = TRUE /\ renewable = TRUE
    /\ asked = {} /\ answer = [u \in Threads |-> "none"]

-----------------------------------------------------------------------------
(* The server, external but for the handling of its answers. *)

Ask(u) == asked' = asked \cup {u} /\ answer' = [answer EXCEPT ![u] = "none"]

(* It answers what it was asked on a session that it has; of one that is   *)
(* over it may answer too.                                                 *)
Answer(u, a) ==
    /\ alive /\ u \in asked
    /\ asked' = asked \ {u} /\ answer' = [answer EXCEPT ![u] = a]
    /\ lease' = IF a = "success" /\ (u = "timer" \/ main = "shake") THEN Lease ELSE lease
    /\ renewable' = (renewable /\ (u = "timer" => a = "success"))
    /\ session \in {"closed", "expired"} => a # "success"
    /\ session' = IF main = "shake" /\ u = "main" /\ a = "success" THEN "open" ELSE session
    /\ UNCHANGED <<client, file, main, closed, clock, alive>>

Crash ==
    /\ Crashes /\ alive
    /\ alive' = FALSE
    /\ UNCHANGED <<client, file, main, closed, clock, session, lease, renewable, talk>>

(* An interval passes.  A renewal takes less than that, and so does the    *)
(* client between the handshake and the timer.                             *)
Tick ==
    /\ ~fired /\ timer \in {"none", "sleep", "ended"}
    /\ main # "make_timer" /\ ~(main = "shake" /\ session = "open")
    /\ fired' = (timer = "sleep")
    /\ lease' = IF session = "open" /\ alive THEN lease - 1 ELSE lease
    /\ session' = IF session = "open" /\ alive /\ lease = 1 THEN "expired" ELSE session
    /\ UNCHANGED <<client, file, main, closed, timer, stop, alive, renewable, talk>>

-----------------------------------------------------------------------------
(* credential_handler *)

(* mutant: --auth-token and --no-auth may both be given *)
check_not_more_than_one_Lax ==
    /\ "user" \in given => {"auth_token", "credentials", "no_auth"} \cap given = {}
    /\ "auth_token" \in given => "credentials" \notin given
    /\ ~({"credentials", "no_auth"} \subseteq given)

check_not_more_than_one ==
    /\ "user" \in given => {"auth_token", "credentials", "no_auth"} \cap given = {}
    /\ "auth_token" \in given => {"credentials", "no_auth"} \cap given = {}
    /\ ~({"credentials", "no_auth"} \subseteq given)

(* The options in the order in which they are looked at. *)
Order == <<[option |-> "no_auth", type |-> "no_auth"],
           [option |-> "user", type |-> "user_password"],
           [option |-> "auth_token", type |-> "auth_token"],
           [option |-> "credentials", type |-> "file"],
           [option |-> "env_token", type |-> "auth_token"],
           [option |-> "home", type |-> "file"]>>

auth_options ==
    LET holds == {i \in DOMAIN Order : Order[i].option \in given} IN
    IF "enabled" \notin given THEN "disabled"
    ELSE IF ~check_not_more_than_one THEN "refused"
    ELSE IF holds = {} THEN "not_defined"
    ELSE Order[CHOOSE i \in holds : \A j \in holds : i <= j].type

-----------------------------------------------------------------------------
(* tgctl credentials, before it makes the transport *)

(* What is left of the file when it is opened to be written. *)
Written == CASE file = "none" -> "new" [] file = "old" -> "replaced" [] OTHER -> "clobbered"

(* mutant: the file is opened before there is a session *)
CheckCredentials_Opens ==
    /\ main = "check"
    /\ \/ main' = "refused" /\ UNCHANGED <<given, file>>
       \/ /\ {"credentials", "auth_token"} \cap given = {}
          /\ overwrite \/ file = "none"
          /\ main' = "connect" /\ given' \in {given, given \cup {"user"}} /\ file' = Written
    /\ UNCHANGED <<purpose, overwrite, credential, closed, clock, server, talk>>

(* An --expiration out of range, both of the overwrite options and a path  *)
(* that is no regular file or has no directory are refused as well.  The   *)
(* user is prompted for; the line that is typed may be empty.              *)
CheckCredentials ==
    /\ main = "check"
    /\ \/ main' = "refused" /\ UNCHANGED given
       \/ /\ {"credentials", "auth_token"} \cap given = {}
          /\ overwrite \/ file = "none"
          /\ main' = "connect" /\ given' \in {given, given \cup {"user"}}
    /\ UNCHANGED <<purpose, overwrite, credential, file, closed, clock, server, talk>>

(* Another process makes the file. *)
Another ==
    /\ purpose = "credentials" /\ file = "none"
    /\ file' = "others"
    /\ UNCHANGED <<client, main, closed, clock, server, talk>>

(* Once there is a session its credential is written, if there is one: the *)
(* one of a file may be empty.  The file may not open.                     *)
WriteFile ==
    /\ main = "use" /\ purpose = "credentials"
    /\ \/ /\ credential \in {"user_password", "file"}
          /\ file' = Written
       \/ UNCHANGED file
    /\ main' = "stop"
    /\ UNCHANGED <<client, closed, clock, server, talk>>

-----------------------------------------------------------------------------
(* The constructor *)

Connect ==
    /\ main = "connect"
    /\ \/ alive /\ main' = "auth" /\ session' = "connected"
       \/ main' = "refused" /\ UNCHANGED session
    /\ UNCHANGED <<client, file, closed, clock, lease, alive, renewable, talk>>

(* auth_options, with the prompt for the password, which the user may      *)
(* interrupt, and the start of add_credential.                             *)
Authenticate ==
    /\ main = "auth"
    /\ credential' = auth_options /\ given' = {}
    /\ \/ /\ credential' \notin {"refused", "not_defined"}
          /\ main' = IF credential' = "user_password" THEN "key" ELSE "shake"
          /\ Ask("main")
       \/ /\ credential' \in {"refused", "not_defined", "user_password"}
          /\ main' = "catch" /\ UNCHANGED talk
    /\ UNCHANGED <<purpose, overwrite, file, closed, clock, server>>

(* The thread u is in receive() and has an answer, or finds the server     *)
(* dead, which throws as a diagnostic record does.                         *)
Received(u, a) ==
    \/ u \notin asked /\ answer[u] = a
    \/ u \in asked /\ ~alive /\ a = "diagnostic"

(* The encryption of the credential throws what the constructor does not   *)
(* catch.                                                                  *)
Encrypt ==
    /\ main = "key"
    /\ \E a \in Answers :
          /\ Received("main", a)
          /\ IF a = "success" THEN \/ main' = "shake" /\ Ask("main")
                                   \/ main' = "left" /\ UNCHANGED talk
             ELSE main' = "catch" /\ UNCHANGED talk
    /\ UNCHANGED <<client, file, closed, clock, server>>

handshake ==
    /\ main = "shake"
    /\ \E a \in Answers :
          /\ Received("main", a)
          /\ main' = IF a = "success" THEN "make_timer" ELSE "catch"
    /\ UNCHANGED <<client, file, closed, clock, server, talk>>

(* mutant: the thread is not started *)
MakeTimer_NoThread ==
    /\ main = "make_timer" /\ main' \in {"use", "left"}
    /\ UNCHANGED <<client, file, closed, clock, server, talk>>

(* The timer and its thread; a failure to make them is not caught either. *)
MakeTimer ==
    /\ main = "make_timer"
    /\ \/ main' = "use" /\ timer' = "sleep"
       \/ main' = "left" /\ UNCHANGED timer
    /\ UNCHANGED <<client, file, closed, fired, stop, server, talk>>

Disconnect ==
    /\ closed' = TRUE
    /\ session' = IF session \in {"connected", "open"} THEN "closed" ELSE session
    /\ UNCHANGED <<lease, alive, renewable>>

(* mutant: the session is not closed *)
Catch_Rethrow ==
    /\ main = "catch" /\ main' = "threw"
    /\ UNCHANGED <<client, file, closed, clock, server, talk>>

Catch ==
    /\ main = "catch" /\ main' = "threw"
    /\ Disconnect
    /\ UNCHANGED <<client, file, clock, talk>>

-----------------------------------------------------------------------------
(* The use of the session and the destructor *)

Use ==
    /\ main = "use" /\ purpose # "credentials"
    /\ \/ main' = "wait" /\ Ask("main")
       \/ main' = "stop" /\ UNCHANGED talk
    /\ UNCHANGED <<client, file, closed, clock, server>>

(* What throws ends the use of the transport. *)
Reply ==
    /\ main = "wait"
    /\ \E a \in Answers :
          /\ Received("main", a)
          /\ main' = IF a = "diagnostic" THEN "stop" ELSE "use"
    /\ UNCHANGED <<client, file, closed, clock, server, talk>>

(* The commands of the datastore close the session before they look at the *)
(* last answer.                                                            *)
Close ==
    /\ main = "use" /\ purpose = "datastore" /\ main' = "stop"
    /\ Disconnect
    /\ UNCHANGED <<client, file, clock, talk>>

(* The timer's destructor raises stop_flag_, makes the timer expire at     *)
(* once and joins its thread.                                              *)
Stop ==
    /\ main = "stop" /\ main' = "join"
    /\ stop' = TRUE
    /\ UNCHANGED <<client, file, closed, timer, fired, server, talk>>

Rearmed ==
    /\ main = "join" /\ timer = "sleep" /\ ~fired
    /\ fired' = TRUE
    /\ UNCHANGED <<client, file, main, closed, timer, stop, server, talk>>

Join ==
    /\ main = "join" /\ timer = "ended" /\ main' = "done"
    /\ IF closed THEN UNCHANGED <<closed, server>> ELSE Disconnect
    /\ UNCHANGED <<client, file, clock, talk>>

-----------------------------------------------------------------------------
(* operator() of the timer *)

Read ==
    /\ timer = "sleep" /\ fired
    /\ timer' = "woken" /\ fired' = FALSE
    /\ UNCHANGED <<client, file, main, closed, stop, server, talk>>

(* mutant: stop_flag_ is not looked at *)
Work_NeverStops ==
    /\ timer = "woken" /\ timer' = "work" /\ Ask("timer")
    /\ UNCHANGED <<client, file, main, closed, fired, stop, server>>

(* stop_flag_ is looked at before update_expiration_time sends. *)
Work ==
    /\ timer = "woken"
    /\ IF stop THEN timer' = "ended" /\ UNCHANGED talk
       ELSE timer' = "work" /\ Ask("timer")
    /\ UNCHANGED <<client, file, main, closed, fired, stop, server>>

(* mutant: the session is renewed once *)
Renewed_Once ==
    /\ timer = "work"
    /\ \E a \in Answers :
          /\ Received("timer", a)
          /\ timer' = "ended"
          /\ main' = IF a = "diagnostic" THEN "aborted" ELSE main
    /\ UNCHANGED <<client, file, closed, fired, stop, server, talk>>

(* A renewal that fails ends the thread; nobody catches what is thrown in  *)
(* it, which ends the process.                                             *)
Renewed ==
    /\ timer = "work"
    /\ \E a \in Answers :
          /\ Received("timer", a)
          /\ timer' = IF a = "success" THEN "sleep" ELSE "ended"
          /\ main' = IF a = "diagnostic" THEN "aborted" ELSE main
    /\ UNCHANGED <<client, file, closed, fired, stop, server, talk>>

-----------------------------------------------------------------------------
MainStep ==
    \/ CheckCredentials \/ Connect \/ Authenticate \/ Encrypt \/ handshake \/ MakeTimer
    \/ Catch \/ Use \/ Reply \/ Close \/ WriteFile \/ Stop \/ Join

TimerStep == Rearmed \/ Read \/ Work \/ Renewed

AnswerTo(u) == \E a \in Answers : Answer(u, a)

Next ==
    \/ MainStep \/ TimerStep
    \/ \E u \in Threads : AnswerTo(u)
    \/ Tick \/ Crash \/ Another

Spec == Init /\ [][Next]_vars

(* Both threads run, time passes, and the server answers on a session that *)
(* it has; on one that is over it need not.                                *)
FairSpec ==
    /\ Spec
    /\ WF_vars(MainStep) /\ WF_vars(TimerStep) /\ WF_vars(Tick)
    /\ \A u \in Threads : WF_vars(session \in {"connected", "open"} /\ AnswerTo(u))

-----------------------------------------------------------------------------
TypeOK ==
    /\ given \subseteq Options /\ purpose \in Purposes
    /\ file \in {"none", "old", "others", "new", "replaced", "clobbered"}
    /\ main \in {"check", "connect", "auth", "key", "shake", "make_timer", "catch", "use",
                 "wait", "stop", "join", "done", "threw", "left", "refused", "aborted"}
    /\ timer \in IF main \in {"use", "wait", "stop", "join", "done", "aborted"}
                THEN {"sleep", "woken", "work", "ended"} ELSE {"none"}
    /\ session \in {"none", "connected", "open", "closed", "expired"}
    /\ lease \in 0 .. Lease
    /\ {overwrite, closed, fired, stop, alive, renewable} \subseteq BOOLEAN

(* The credential that add_credential uses is the only one of the options  *)
(* that is given; two are refused, and the environment and the default     *)
(* file count only if there is none and authentication is on.              *)
ExplicitWins ==
    [][main = "auth" /\ main' # "auth" =>
        LET options == given \cap Explicit IN
        /\ "enabled" \notin given <=> credential' = "disabled"
        /\ credential' = "refused" <=> "enabled" \in given /\ Cardinality(options) > 1
        /\ credential' = "user_password" <=> "enabled" \in given /\ options = {"user"}
        /\ credential' = "no_auth" <=> "enabled" \in given /\ options = {"no_auth"}
        /\ credential' = "auth_token" <=>
              /\ "enabled" \in given
              /\ options = {"auth_token"} \/ (options = {} /\ "env_token" \in given)
        /\ credential' = "not_defined" => main' = "catch"]_vars

(* When the destructor has run, or the constructor has thrown an error of  *)
(* tgctl (its only catch clause), the server has been told that the        *)
(* session is over, and nobody is left who would use its wires; a command  *)
(* that was refused has had no session.  What else the constructor throws  *)
(* ("left"), and a process that its timer's thread has ended ("aborted"),  *)
(* leave the session to the server: nothing is said of them here.          *)
SessionNotLeft ==
    /\ main \in {"done", "threw"} =>
          closed /\ session \notin {"connected", "open"} /\ timer \in {"none", "ended"}
    /\ main = "refused" => session = "none"

(* As long as the transport is in use, however long a request takes, the   *)
(* session does not expire unless a renewal has failed.                    *)
KeptAlive ==
    session = "expired" => ~renewable \/ stop \/ main \in {"left", "aborted"}

(* tgctl credentials that comes to nothing, because it is refused, finds   *)
(* no server, or has a credential that the server does not accept or that  *)
(* cannot be encrypted, has not touched the file, with --overwrite either: *)
(* the credential that was there is still the one in it.                   *)
FailureSparesFile ==
    main \in {"refused", "threw", "left"} => file \in {"none", "old", "others"}

(* The thread of the timer waits for an answer on a session that is over. *)
Unanswered == "timer" \in asked /\ session \in {"closed", "expired"} /\ alive

(* The destructor comes to its end, or the timer's thread has ended the    *)
(* process, unless a renewal was sent on a session that was over by then.  *)
TransportEnds == main = "stop" ~> main \in {"done", "aborted"} \/ Unanswered
=============================================================================
