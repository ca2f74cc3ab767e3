----------------------------- MODULE FtpServer ------------------------------
(***************************************************************************)
(* The FTP server of src/source/openftp/ftp.c: one thread accepts control  *)
(* connections (handleconnections) and one thread per connection executes  *)
(* its commands (handleclient).  A session owns its sockets, its restart   *)
(* point and its rename source; "timeout" and "exitapp" are shared by all  *)
(* threads without a lock.                                                 *)
(*                                                                         *)
(* Names and contents of files are abstracted away: a file-system call     *)
(* succeeds or fails as it likes, and a transfer ends as FtpRecvFile and   *)
(* FtpSendFile say, with 226 or with 451.                                  *)
(***************************************************************************)
EXTENDS Integers, FiniteSets

CONSTANTS Clients,  \* the peers that may connect, each once
          MaxCmds   \* bound: commands the peers send, all together

ASSUME ServerAssumption == IsFiniteSet(Clients) /\ MaxCmds \in Nat

VARIABLES
    listener,    \* handleconnections(): "guard", "accept" or "closed"
    sess,        \* the local variables of each handleclient()
    timeout,     \* the global failure count, meant for one session
    reg,         \* the register each thread increments timeout in
    exitapp,     \* a SITE command asked the application to end
    appShutdown, \* the system or the user asked for it
    running,     \* the process exists
    cmds,        \* commands sent so far
    \* History, read by no action:
    heard,       \* the last recv() of the session brought a command
    late,        \* commands a session began after the order to end
    lateAccepts  \* connections accepted after the order to end

srvVars == <<listener, exitapp, appShutdown, running>>
history == <<heard, late, lateAccepts>>
vars == <<listener, sess, timeout, reg, exitapp, appShutdown, running,
          cmds, heard, late, lateAccepts>>

\* at:    where the thread is; "none": the peer has not connected, "stranded":
\*        it has, but its thread could not be created
\* peer:  the peer still holds the control connection
\* timed: SO_RCVTIMEO is set on conn_s
\* restAfter: history, the REST came after data_s was opened
NewSession ==
    [at |-> "none", peer |-> TRUE, active |-> TRUE, login |-> FALSE,
     data |-> FALSE, rest |-> 0, restAfter |-> FALSE, timed |-> FALSE]

\* Both sockets are closed and the thread has ended.
Gone == [NewSession EXCEPT !.at = "gone", !.peer = FALSE]

Ending == exitapp \/ appShutdown

Init ==
    /\ listener \in {"guard", "closed"}  \* closed: slisten() failed
    /\ sess = [c \in Clients |-> NewSession]
    /\ timeout = 0
    /\ reg = [c \in Clients |-> 0]
    /\ exitapp = FALSE
    /\ appShutdown = FALSE
    /\ running = TRUE
    /\ cmds = 0
    /\ heard = [c \in Clients |-> FALSE]
    /\ late = [c \in Clients |-> 0]
    /\ lateAccepts = 0

-----------------------------------------------------------------------------
(* handleconnections *)

ListenerGuard ==
    /\ running
    /\ listener = "guard"
    /\ listener' = IF Ending THEN "closed" ELSE "accept"
    /\ UNCHANGED <<sess, timeout, reg, exitapp, appShutdown, running, cmds,
                   history>>

\* accept() returns; the result of sys_ppu_thread_create is not checked.
Accept(c) ==
    /\ running
    /\ listener = "accept"
    /\ sess[c].at = "none"
    /\ \E at \in {"start", "stranded"} : sess' = [sess EXCEPT ![c].at = at]
    /\ listener' = "guard"
    /\ lateAccepts' = IF Ending THEN lateAccepts + 1 ELSE lateAccepts
    /\ UNCHANGED <<timeout, reg, exitapp, appShutdown, running, cmds,
                   heard, late>>

\* accept() fails; the loop goes round.
AcceptFails ==
    /\ running
    /\ listener = "accept"
    /\ listener' = "guard"
    /\ UNCHANGED <<sess, timeout, reg, exitapp, appShutdown, running, cmds,
                   history>>

-----------------------------------------------------------------------------
(* handleclient: outside the commands *)

At(c, where) == running /\ sess[c].at = where

\* Mutant: the count starts at -1, to forgive one failure more.
StartBelowZero(c) ==
    /\ At(c, "start")
    /\ timeout' = -1
    /\ sess' = [sess EXCEPT ![c].at = "guard"]
    /\ UNCHANGED <<srvVars, reg, cmds, history>>

Start(c) ==
    /\ At(c, "start")
    /\ timeout' = 0
    /\ sess' = [sess EXCEPT ![c].at = "guard"]
    /\ UNCHANGED <<srvVars, reg, cmds, history>>

\* Mutant: app_shutdown is left out of the loop's guard.
GuardExitappOnly(c) ==
    /\ At(c, "guard")
    /\ sess' = IF exitapp \/ ~sess[c].active
               THEN [sess EXCEPT ![c] = Gone]
               ELSE [sess EXCEPT ![c].at = "recv"]
    /\ UNCHANGED <<srvVars, timeout, reg, cmds, history>>

\* while(exitapp == 0 && connactive == 1 && !app_shutdown); leaving the loop
\* closes both sockets and ends the thread.
Guard(c) ==
    /\ At(c, "guard")
    /\ sess' = IF Ending \/ ~sess[c].active
               THEN [sess EXCEPT ![c] = Gone]
               ELSE [sess EXCEPT ![c].at = "recv"]
    /\ UNCHANGED <<srvVars, timeout, reg, cmds, history>>

\* recv() returns 0 or -1: the peer is gone, or the timeout STOR set expired.
RecvFails(c) ==
    /\ At(c, "recv")
    /\ ~sess[c].peer \/ sess[c].timed
    /\ sess' = [sess EXCEPT ![c].at = "load"]
    /\ heard' = [heard EXCEPT ![c] = FALSE]
    /\ UNCHANGED <<srvVars, timeout, reg, cmds, late, lateAccepts>>

\* timeout++, whose load and store other threads' accesses may separate ...
TimeoutLoad(c) ==
    /\ At(c, "load")
    /\ reg' = [reg EXCEPT ![c] = timeout]
    /\ sess' = [sess EXCEPT ![c].at = "store"]
    /\ UNCHANGED <<srvVars, timeout, cmds, history>>

\* Mutant: the count is not incremented.
StoreUnchanged(c) ==
    /\ At(c, "store")
    /\ timeout' = reg[c]
    /\ sess' = [sess EXCEPT ![c].at = "check"]
    /\ UNCHANGED <<srvVars, reg, cmds, history>>

TimeoutStore(c) ==
    /\ At(c, "store")
    /\ timeout' = reg[c] + 1
    /\ reg' = [reg EXCEPT ![c] = @ + 1]
    /\ sess' = [sess EXCEPT ![c].at = "check"]
    /\ UNCHANGED <<srvVars, cmds, history>>

\* ... and if(timeout>1), on the register or on a fresh load.
TimeoutStays(c) ==
    /\ At(c, "check")
    /\ \E seen \in {reg[c], timeout} : seen <= 1
    /\ sess' = [sess EXCEPT ![c].at = "guard"]
    /\ reg' = [reg EXCEPT ![c] = 0]
    /\ UNCHANGED <<srvVars, timeout, cmds, history>>

\* "421 Bye! (Timeout)", both sockets closed.
TimeoutExpires(c) ==
    /\ At(c, "check")
    /\ \E seen \in {reg[c], timeout} : seen > 1
    /\ timeout' = 0
    /\ sess' = [sess EXCEPT ![c] = Gone]
    /\ reg' = [reg EXCEPT ![c] = 0]
    /\ UNCHANGED <<srvVars, cmds, history>>

-----------------------------------------------------------------------------
(* handleclient: commands.  A command is received when the peer still has one *)
(* to send, and ends by resetting the failure count.                          *)

Command(c) ==
    /\ At(c, "recv")
    /\ sess[c].peer
    /\ cmds < MaxCmds
    /\ cmds' = cmds + 1
    /\ heard' = [heard EXCEPT ![c] = TRUE]
    /\ late' = IF Ending THEN [late EXCEPT ![c] = @ + 1] ELSE late
    /\ lateAccepts' = lateAccepts

LoggedIn(c) == sess[c].login /\ Command(c)

\* if(dataactive == 1) dataactive = 0; else { sclose(&data_s); rest = 0; }
Keep(s) == [s EXCEPT !.at = "load"]
Drop(s) == [s EXCEPT !.at = "load", !.data = FALSE, !.rest = 0,
                     !.restAfter = FALSE]

\* The command has been answered and leaves the session as s.
Answer(c, s) ==
    /\ sess' = [sess EXCEPT ![c] = s]
    /\ timeout' = 0
    /\ UNCHANGED <<listener, appShutdown, running, reg>>

\* PASS with any password (DISABLE_PASS).
Pass(c) ==
    /\ ~sess[c].login /\ Command(c)
    /\ Answer(c, [sess[c] EXCEPT !.login = TRUE, !.at = "load"])
    /\ UNCHANGED exitapp

\* USER, an empty PASS, and everything answered with 530.
Refuse(c) ==
    /\ ~sess[c].login /\ Command(c)
    /\ Answer(c, [sess[c] EXCEPT !.at = "load"])
    /\ UNCHANGED exitapp

\* QUIT and BYE, which work before and after login.
Quit(c) ==
    /\ Command(c)
    /\ LET s == [sess[c] EXCEPT !.active = FALSE] IN
         Answer(c, IF s.login THEN Drop(s) ELSE Keep(s))
    /\ UNCHANGED exitapp

\* The commands that touch neither data_s nor rest themselves (CWD, PWD, DELE,
\* NOOP, unknown ones, failed REST or SIZE, ...), ABOR, a PORT that lacks
\* fields, and a transfer or listing refused with 425, 501 or 550: all end by
\* closing the data connection.
Plain(c) ==
    /\ LoggedIn(c)
    /\ Answer(c, Drop(sess[c]))
    /\ UNCHANGED exitapp

\* TYPE, and SIZE of a file that exists.
TypeOrSize(c) ==
    /\ LoggedIn(c)
    /\ Answer(c, Keep(sess[c]))
    /\ UNCHANGED exitapp

\* REST: the number may be 0, or be no number, of which atoi() makes 0.
Rest(c) ==
    /\ LoggedIn(c)
    /\ \E atoi \in {0, 1} :
         Answer(c, Keep([sess[c] EXCEPT !.rest = atoi, !.restAfter = sess[c].data]))
    /\ UNCHANGED exitapp

\* Mutant: PASV keeps the restart point.
PasvKeepsRest(c) ==
    /\ LoggedIn(c)
    /\ sess' = [sess EXCEPT ![c].at = "pasv", ![c].restAfter = FALSE]
    /\ UNCHANGED <<srvVars, timeout, reg>>

\* PASV: 227, then accept() on the new listening socket.
Pasv(c) ==
    /\ LoggedIn(c)
    /\ sess' = [sess EXCEPT ![c].at = "pasv", ![c].rest = 0,
                           ![c].restAfter = FALSE]
    /\ UNCHANGED <<srvVars, timeout, reg>>

\* The listening socket could not be created.
PasvNoSocket(c) ==
    /\ LoggedIn(c)
    /\ Answer(c, Drop(sess[c]))
    /\ UNCHANGED exitapp

\* accept() returns, with a connection or without; it may never return.  Either
\* way data_s is overwritten, and a socket it held before stays open for ever.
PasvAccept(c) ==
    /\ At(c, "pasv")
    /\ \/ Answer(c, Keep([sess[c] EXCEPT !.data = TRUE]))
       \/ Answer(c, Drop(sess[c]))
    /\ UNCHANGED <<exitapp, cmds, heard, late, lateAccepts>>

\* PORT with all six fields; data_s is overwritten as by PASV.
Port(c) ==
    /\ LoggedIn(c)
    /\ \/ Answer(c, Keep([Drop(sess[c]) EXCEPT !.data = TRUE]))
       \/ Answer(c, Drop(sess[c]))
    /\ UNCHANGED exitapp

\* STOR: 150, set SO_RCVTIMEO on the control connection, recvfile().
Stor(c) ==
    /\ LoggedIn(c)
    /\ sess[c].data
    /\ sess' = [sess EXCEPT ![c].at = "xfer", ![c].timed = TRUE]
    /\ UNCHANGED <<srvVars, timeout, reg>>

\* RETR of a file that exists: 150, sendfile().
Retr(c) ==
    /\ LoggedIn(c)
    /\ sess[c].data
    /\ sess' = [sess EXCEPT ![c].at = "xfer"]
    /\ UNCHANGED <<srvVars, timeout, reg>>

\* LIST, MLSD and NLST of a directory that opens: 150, then its entries.
List(c) ==
    /\ LoggedIn(c)
    /\ sess[c].data
    /\ sess' = [sess EXCEPT ![c].at = "xfer"]
    /\ UNCHANGED <<srvVars, timeout, reg>>

\* The transfer or listing returned: 226 or 451.
TransferEnds(c) ==
    /\ At(c, "xfer")
    /\ Answer(c, Drop(sess[c]))
    /\ UNCHANGED <<exitapp, cmds, history>>

\* SITE RESTARTMM: exitapp = 1, and the thread goes on.
SiteRestartMM(c) ==
    /\ LoggedIn(c)
    /\ exitapp' = TRUE
    /\ Answer(c, Drop(sess[c]))

\* SITE QUITMM, SHUTDOWN and RESTART: exitapp = 1 ...
SiteExit(c) ==
    /\ LoggedIn(c)
    /\ exitapp' = TRUE
    /\ sess' = [sess EXCEPT ![c].at = "exit"]
    /\ UNCHANGED <<listener, appShutdown, running, timeout, reg>>

\* Every thread ends where it is, and every socket is closed.
ProcessEnds ==
    /\ running
    /\ running' = FALSE
    /\ listener' = "closed"
    /\ sess' = [d \in Clients |-> Gone]
    /\ reg' = [d \in Clients |-> 0]
    /\ UNCHANGED <<timeout, exitapp, appShutdown, cmds, history>>

\* ... then exit(0).
Exit(c) == At(c, "exit") /\ ProcessEnds

-----------------------------------------------------------------------------
(* The surroundings *)

\* The peer closes or loses its control connection (at a place where the thread
\* may wait; elsewhere it makes no difference until the next recv()).  What it
\* sent before counts as received before.
PeerLeaves(c) ==
    /\ running
    /\ sess[c].at \in {"recv", "pasv", "xfer"}
    /\ sess[c].peer
    /\ sess' = [sess EXCEPT ![c].peer = FALSE]
    /\ UNCHANGED <<srvVars, timeout, reg, cmds, history>>

\* The main thread sets app_shutdown (EXITGAME, unload_modules).
Shutdown ==
    /\ running
    /\ ~appShutdown
    /\ appShutdown' = TRUE
    /\ UNCHANGED <<listener, sess, timeout, reg, exitapp, running, cmds,
                   history>>

\* The main thread goes on to exit_app(), without waiting for the sessions.
ExitApp == appShutdown /\ ProcessEnds

\* What a thread does by itself, without waiting for a peer.
Own(c) ==
    \/ Start(c) \/ Guard(c) \/ RecvFails(c)
    \/ TimeoutLoad(c) \/ TimeoutStore(c) \/ TimeoutStays(c) \/ TimeoutExpires(c)
    \/ Exit(c)

Execute(c) ==
    \/ Pass(c) \/ Refuse(c) \/ Quit(c) \/ Plain(c) \/ TypeOrSize(c) \/ Rest(c)
    \/ Pasv(c) \/ PasvNoSocket(c) \/ PasvAccept(c) \/ Port(c)
    \/ Stor(c) \/ Retr(c) \/ List(c) \/ TransferEnds(c)
    \/ SiteRestartMM(c) \/ SiteExit(c)

Next ==
    \/ ListenerGuard \/ AcceptFails
    \/ \E c \in Clients : Accept(c) \/ Own(c) \/ Execute(c) \/ PeerLeaves(c)
    \/ Shutdown \/ ExitApp

Spec == Init /\ [][Next]_vars

\* The system runs every thread; no peer owes a command, a data connection or
\* the end of a transfer.
FairSpec == Spec /\ \A c \in Clients : WF_vars(Own(c))

-----------------------------------------------------------------------------

Places == {"none", "stranded", "start", "guard", "recv", "pasv", "xfer",
           "load", "store", "check", "exit", "gone"}

TypeOK ==
    /\ listener \in {"guard", "accept", "closed"}
    /\ sess \in [Clients -> [at : Places, peer : BOOLEAN, active : BOOLEAN,
                             login : BOOLEAN, data : BOOLEAN, rest : {0, 1},
                             restAfter : BOOLEAN, timed : BOOLEAN]]
    /\ timeout \in Nat
    /\ reg \in [Clients -> Nat]
    /\ exitapp \in BOOLEAN
    /\ appShutdown \in BOOLEAN
    /\ running \in BOOLEAN
    /\ cmds \in 0 .. MaxCmds
    /\ heard \in [Clients -> BOOLEAN]
    /\ late \in [Clients -> Nat]
    /\ lateAccepts \in Nat

\* Once the end is ordered, each session begins at most one more command (the
\* one its recv() was waiting for) and at most one more peer is accepted, in
\* whatever order the threads look at exitapp and app_shutdown.
AtMostOneMore ==
    /\ \A c \in Clients : late[c] <= 1
    /\ lateAccepts <= 1

\* A transfer runs only on an open data connection of a logged-in session, and
\* starts at a restart point only if that REST followed the PASV or PORT that
\* opened this connection.
RestBelongsToConnection ==
    \A c \in Clients :
        /\ sess[c].at = "xfer" => sess[c].login /\ sess[c].data
        /\ sess[c].at = "xfer" /\ sess[c].rest # 0 => sess[c].restAfter

\* "421 Bye! (Timeout)" (ftp.c:1011) is sent to a session because its own
\* recv() brought nothing.
TimeoutIsOwn ==
    [][\A c \in Clients : TimeoutExpires(c) => ~heard[c]]_vars

\* A session ends once the end is ordered while it is not waiting for its peer,
\* and once its peer has left - also if other sessions reset the shared count
\* meanwhile, provided they run out of commands - unless it waits for a data
\* connection or inside a transfer.
Doomed(c) ==
    \/ Ending /\ sess[c].at \in {"start", "guard", "load", "store", "check",
                                "exit"}
    \/ ~sess[c].peer /\ sess[c].at # "stranded"

SessionsEnd ==
    \A c \in Clients : Doomed(c) ~> sess[c].at \in {"gone", "pasv", "xfer"}
=============================================================================
