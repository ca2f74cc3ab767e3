-------------------------- MODULE FtpServer_proofs --------------------------
(***************************************************************************)
(* Theorems about FtpServer for any set of peers and any number of         *)
(* commands, along the inductive invariant ServerInv.  The lemmas say what *)
(* a command, and what any step, may do to the session it belongs to.  The *)
(* last part is about the string functions of FtpPath, for lines, working  *)
(* directories and buffers of any size.                                    *)
(***************************************************************************)
EXTENDS FtpServer, MCPure, SequenceTheorems, WellFoundedInduction, TLAPS

Session == [at : Places, peer : BOOLEAN, active : BOOLEAN, login : BOOLEAN,
            data : BOOLEAN, rest : {0, 1}, restAfter : BOOLEAN,
            timed : BOOLEAN]

\* The thread of session c, and it alone, goes on with the session s.
Goes(c, s) == sess' = [sess EXCEPT ![c] = s]

\* A restart point is that of the open data connection; a transfer has one.
RestOk(s) ==
    /\ s.at = "xfer" => s.login /\ s.data
    /\ s.data /\ s.rest # 0 => s.restAfter
    /\ s.at = "pasv" => s.rest = 0

\* A session that has begun a command after the order to end is past the last
\* recv(), as the order is never taken back.
LateOnce ==
    \A c \in Clients :
        /\ late[c] <= 1
        /\ late[c] # 0 => Ending /\ sess[c].at # "recv"

LateAcceptOnce ==
    /\ lateAccepts <= 1
    /\ lateAccepts # 0 => Ending /\ listener # "accept"

ServerInv ==
    /\ TypeOK
    /\ LateOnce
    /\ LateAcceptOnce
    /\ \A c \in Clients : RestOk(sess[c])

-----------------------------------------------------------------------------
\* What Keep and Drop leave of a session.
LEMMA KeepDrop ==
    ASSUME NEW s \in Session
    PROVE  /\ Keep(s) \in Session /\ Keep(s).at = "load"
           /\ Drop(s) \in Session /\ Drop(s).at = "load"
           /\ RestOk(Drop(s))
           /\ Keep(s).data = s.data /\ Keep(s).rest = s.rest
           /\ Keep(s).restAfter = s.restAfter
           /\ ~Drop(s).data /\ Drop(s).rest = 0
  BY DEF Keep, Drop, Session, Places, RestOk

\* A command moves its own session alone, past recv(), and takes no order to
\* end back.
LEMMA CommandStep ==
    ASSUME TypeOK, NEW c \in Clients, RestOk(sess[c]),
           \/ Pass(c) \/ Refuse(c) \/ Quit(c) \/ Plain(c) \/ TypeOrSize(c)
           \/ Rest(c) \/ Pasv(c) \/ PasvNoSocket(c) \/ Port(c)
           \/ Stor(c) \/ Retr(c) \/ List(c) \/ SiteRestartMM(c) \/ SiteExit(c)
    PROVE  /\ Command(c)
           /\ UNCHANGED <<listener, appShutdown, running, reg>>
           /\ timeout' \in {0, timeout}
           /\ exitapp' \in {TRUE, exitapp}
           /\ \E s \in Session :
                 /\ Goes(c, s) /\ RestOk(s)
                 /\ s.at \in {"load", "pasv", "xfer", "exit"}
                 /\ s.at = "load" => timeout' = 0
  <1> DEFINE t == sess[c]
  <1>0. t \in Session
    BY DEF TypeOK, Session
  <1>1. CASE Pass(c)
    <2> DEFINE s == [t EXCEPT !.login = TRUE, !.at = "load"]
    <2>1. s \in Session /\ s.at = "load" /\ RestOk(s)
      BY <1>0 DEF Session, Places, RestOk
    <2>2. Goes(c, s)
      BY <1>1 DEF Pass, Answer, Goes
    <2> QED
      BY <1>1, <2>1, <2>2 DEF Pass, Answer
  <1>2. CASE Refuse(c)
    <2> DEFINE s == [t EXCEPT !.at = "load"]
    <2>1. s \in Session /\ s.at = "load" /\ RestOk(s)
      BY <1>0 DEF Session, Places, RestOk
    <2>2. Goes(c, s)
      BY <1>2 DEF Refuse, Answer, Goes
    <2> QED
      BY <1>2, <2>1, <2>2 DEF Refuse, Answer
  <1>3. CASE Quit(c)
    <2> DEFINE q == [t EXCEPT !.active = FALSE]
               s == IF q.login THEN Drop(q) ELSE Keep(q)
    <2>1. q \in Session /\ RestOk(q)
      BY <1>0 DEF Session, Places, RestOk
    <2>2. s \in Session /\ s.at = "load" /\ RestOk(s)
      <3> HIDE DEF q
      <3> QED
        BY <2>1, KeepDrop DEF RestOk
    <2>3. Goes(c, s)
      BY <1>3 DEF Quit, Answer, Goes
    <2> QED
      BY <1>3, <2>2, <2>3 DEF Quit, Answer
  <1>4. CASE Plain(c)
    <2>1. Goes(c, Drop(t))
      BY <1>4 DEF Plain, Answer, Goes
    <2> QED
      BY <1>0, <1>4, <2>1, KeepDrop DEF Plain, LoggedIn, Answer
  <1>5. CASE TypeOrSize(c)
    <2>1. Goes(c, Keep(t))
      BY <1>5 DEF TypeOrSize, Answer, Goes
    <2>2. RestOk(Keep(t))
      BY <1>0, KeepDrop DEF RestOk
    <2> QED
      BY <1>0, <1>5, <2>1, <2>2, KeepDrop DEF TypeOrSize, LoggedIn, Answer
  <1>6. CASE Rest(c)
    <2>1. PICK atoi \in {0, 1} :
            Answer(c, Keep([t EXCEPT !.rest = atoi, !.restAfter = t.data]))
      BY <1>6 DEF Rest
    <2> DEFINE r == [t EXCEPT !.rest = atoi, !.restAfter = t.data]
    <2>2. r \in Session /\ (r.data => r.restAfter)
      BY <1>0 DEF Session, Places
    <2>3. Keep(r) \in Session /\ Keep(r).at = "load" /\ RestOk(Keep(r))
      <3> HIDE DEF r
      <3> QED
        BY <2>2, KeepDrop DEF RestOk
    <2>4. Goes(c, Keep(r))
      BY <2>1 DEF Answer, Goes
    <2> QED
      BY <1>6, <2>3, <2>4 DEF Rest, LoggedIn, Answer
  <1>7. CASE Pasv(c)
    <2> DEFINE s == [t EXCEPT !.at = "pasv", !.rest = 0, !.restAfter = FALSE]
    <2>1. s \in Session /\ s.at = "pasv" /\ RestOk(s)
      BY <1>0 DEF Session, Places, RestOk
    <2>2. Goes(c, s)
      BY <1>7 DEF Pasv, Goes, TypeOK
    <2> QED
      BY <1>7, <2>1, <2>2 DEF Pasv, LoggedIn, srvVars
  <1>8. CASE PasvNoSocket(c)
    <2>1. Goes(c, Drop(t))
      BY <1>8 DEF PasvNoSocket, Answer, Goes
    <2> QED
      BY <1>0, <1>8, <2>1, KeepDrop DEF PasvNoSocket, LoggedIn, Answer
  <1>9. CASE Port(c)
    <2> DEFINE p == [Drop(t) EXCEPT !.data = TRUE]
    <2>1. p \in Session /\ p.rest = 0
      BY <1>0 DEF Drop, Session, Places
    <2>2. Keep(p) \in Session /\ Keep(p).at = "load" /\ RestOk(Keep(p))
      <3> HIDE DEF p
      <3> QED
        BY <2>1, KeepDrop DEF RestOk
    <2>3. Goes(c, Keep(p)) \/ Goes(c, Drop(t))
      BY <1>9 DEF Port, Answer, Goes
    <2> HIDE DEF p
    <2>4. \E s \in Session : Goes(c, s) /\ RestOk(s) /\ s.at = "load"
      BY <1>0, <2>2, <2>3, KeepDrop
    <2> QED
      BY <1>9, <2>4 DEF Port, LoggedIn, Answer
  <1>10. CASE Stor(c)
    <2> DEFINE s == [t EXCEPT !.at = "xfer", !.timed = TRUE]
    <2>1. s \in Session /\ s.at = "xfer" /\ RestOk(s)
      BY <1>0, <1>10 DEF Session, Places, RestOk, Stor, LoggedIn
    <2>2. Goes(c, s)
      BY <1>10 DEF Stor, Goes, TypeOK
    <2> QED
      BY <1>10, <2>1, <2>2 DEF Stor, LoggedIn, srvVars
  <1>11. CASE Retr(c) \/ List(c)
    <2> DEFINE s == [t EXCEPT !.at = "xfer"]
    <2>1. s \in Session /\ s.at = "xfer" /\ RestOk(s)
      BY <1>0, <1>11 DEF Session, Places, RestOk, Retr, List, LoggedIn
    <2>2. Goes(c, s)
      BY <1>11 DEF Retr, List, Goes
    <2> QED
      BY <1>11, <2>1, <2>2 DEF Retr, List, LoggedIn, srvVars
  <1>12. CASE SiteRestartMM(c)
    <2>1. Goes(c, Drop(t))
      BY <1>12 DEF SiteRestartMM, Answer, Goes
    <2> QED
      BY <1>0, <1>12, <2>1, KeepDrop DEF SiteRestartMM, LoggedIn, Answer
  <1>13. CASE SiteExit(c)
    <2> DEFINE s == [t EXCEPT !.at = "exit"]
    <2>1. s \in Session /\ s.at = "exit" /\ RestOk(s)
      BY <1>0 DEF Session, Places, RestOk
    <2>2. Goes(c, s)
      BY <1>13 DEF SiteExit, Goes
    <2> QED
      BY <1>13, <2>1, <2>2 DEF SiteExit, LoggedIn
  <1> QED
    BY <1>1, <1>2, <1>3, <1>4, <1>5, <1>6, <1>7, <1>8, <1>9, <1>10, <1>11,
       <1>12, <1>13

\* Apart from commands, a step of a session goes to recv() only while nobody has
\* ordered the end, and keeps or ends what a transfer needs.
OtherStep(c) ==
    \/ Start(c) \/ Guard(c) \/ RecvFails(c) \/ TimeoutLoad(c) \/ TimeoutStore(c)
    \/ TimeoutStays(c) \/ TimeoutExpires(c) \/ PasvAccept(c) \/ TransferEnds(c)
    \/ PeerLeaves(c)

LEMMA SessionStep ==
    ASSUME TypeOK, NEW c \in Clients, RestOk(sess[c]), OtherStep(c)
    PROVE  /\ UNCHANGED <<listener, exitapp, appShutdown, running, cmds, late,
                          lateAccepts>>
           /\ timeout' \in Nat /\ reg' \in [Clients -> Nat]
           /\ heard' \in [Clients -> BOOLEAN]
           /\ \E s \in Session :
                 Goes(c, s) /\ RestOk(s)
                 /\ (s.at = "recv" => ~Ending \/ sess[c].at = "recv")
  <1> USE DEF At, srvVars, history
  <1> DEFINE t == sess[c]
             Fine(s) == /\ s \in Session /\ Goes(c, s) /\ RestOk(s)
                        /\ s.at = "recv" => ~Ending \/ sess[c].at = "recv"
             Rest1 == /\ UNCHANGED <<listener, exitapp, appShutdown, running, cmds,
                                     late, lateAccepts>>
                      /\ timeout' \in Nat /\ reg' \in [Clients -> Nat]
                      /\ heard' \in [Clients -> BOOLEAN]
  <1>0. t \in Session /\ Gone \in Session /\ RestOk(Gone) /\ Gone.at = "gone"
    BY DEF TypeOK, Session, Gone, NewSession, Places, RestOk
  <1>a. /\ timeout \in Nat /\ reg \in [Clients -> Nat]
        /\ heard \in [Clients -> BOOLEAN]
    BY DEF TypeOK
  <1>b. ASSUME NEW to \in Places \ {"xfer", "pasv", "recv"}
        PROVE  /\ [t EXCEPT !.at = to] \in Session
               /\ [t EXCEPT !.at = to].at = to
               /\ RestOk([t EXCEPT !.at = to])
    BY <1>0, <1>b DEF Session, RestOk
  <1>1. CASE Start(c)
    <2>1. Fine([t EXCEPT !.at = "guard"])
      BY <1>1, <1>b DEF Start, Goes, Places
    <2> QED
      BY <1>1, <1>a, <2>1 DEF Start
  <1>2. CASE Guard(c)
    <2>1. CASE Ending \/ ~t.active
      <3>1. Fine(Gone)
        BY <1>0, <1>2, <2>1 DEF Guard, Goes
      <3> QED
        BY <1>2, <1>a, <3>1 DEF Guard
    <2>2. CASE ~(Ending \/ ~t.active)
      <3>1. /\ [t EXCEPT !.at = "recv"] \in Session
            /\ RestOk([t EXCEPT !.at = "recv"])
        BY <1>0 DEF Session, Places, RestOk
      <3>2. Fine([t EXCEPT !.at = "recv"])
        BY <1>2, <2>2, <3>1 DEF Guard, Goes
      <3> QED
        BY <1>2, <1>a, <3>2 DEF Guard
    <2> QED
      BY <2>1, <2>2
  <1>3. CASE RecvFails(c)
    <2>1. Fine([t EXCEPT !.at = "load"])
      BY <1>3, <1>b DEF RecvFails, Goes, Places
    <2>2. heard' \in [Clients -> BOOLEAN]
      BY <1>3, <1>a DEF RecvFails
    <2> QED
      BY <1>3, <1>a, <2>1, <2>2 DEF RecvFails
  <1>4. CASE TimeoutLoad(c)
    <2>1. Fine([t EXCEPT !.at = "store"])
      BY <1>4, <1>b DEF TimeoutLoad, Goes, Places
    <2> QED
      BY <1>4, <1>a, <2>1 DEF TimeoutLoad
  <1>5. CASE TimeoutStore(c)
    <2>1. Fine([t EXCEPT !.at = "check"])
      BY <1>5, <1>b DEF TimeoutStore, Goes, Places
    <2> QED
      <3>1. timeout' \in Nat
        BY <1>5, <1>a DEF TimeoutStore
      <3>2. reg' \in [Clients -> Nat]
        BY <1>5, <1>a DEF TimeoutStore
      <3> QED
        BY <1>5, <1>a, <2>1, <3>1, <3>2 DEF TimeoutStore
  <1>6. CASE TimeoutStays(c)
    <2>1. Fine([t EXCEPT !.at = "guard"])
      BY <1>6, <1>b DEF TimeoutStays, Goes, Places
    <2> QED
      BY <1>6, <1>a, <2>1 DEF TimeoutStays
  <1>7. CASE TimeoutExpires(c)
    <2>1. Fine(Gone)
      BY <1>0, <1>7 DEF TimeoutExpires, Goes
    <2> QED
      BY <1>7, <1>a, <2>1 DEF TimeoutExpires
  <1>8. CASE PasvAccept(c)
    <2> DEFINE p == [t EXCEPT !.data = TRUE]
    <2>1. CASE Answer(c, Keep(p))
      <3>1. p \in Session
        BY <1>0 DEF Session
      <3>2. RestOk(p)
        BY <1>0, <1>8 DEF Session, RestOk, PasvAccept
      <3>3. Fine(Keep(p))
        <4>1. p.rest = 0 \/ (p.data => p.restAfter)
          BY <3>2 DEF RestOk
        <4> HIDE DEF p
        <4>2. Keep(p) \in Session /\ Keep(p).at = "load" /\ RestOk(Keep(p))
          BY <3>1, <4>1, KeepDrop DEF RestOk
        <4> QED
          BY <2>1, <4>2 DEF Answer, Goes
      <3> QED
        BY <1>8, <1>a, <2>1, <3>3 DEF PasvAccept, Answer
    <2>2. CASE Answer(c, Drop(t))
      <3>1. Fine(Drop(t))
        BY <1>0, <2>2, KeepDrop DEF Answer, Goes
      <3> QED
        BY <1>8, <1>a, <2>2, <3>1 DEF PasvAccept, Answer
    <2> QED
      BY <1>8, <2>1, <2>2 DEF PasvAccept
  <1>9. CASE TransferEnds(c)
    <2>1. Fine(Drop(t))
      BY <1>0, <1>9, KeepDrop DEF TransferEnds, Answer, Goes
    <2> QED
      BY <1>9, <1>a, <2>1 DEF TransferEnds, Answer
  <1>10. CASE PeerLeaves(c)
    <2> DEFINE s == [t EXCEPT !.peer = FALSE]
    <2>1. s \in Session /\ RestOk(s) /\ s.at = t.at
      BY <1>0 DEF Session, RestOk
    <2>2. Goes(c, s)
      BY <1>10 DEF PeerLeaves, Goes
    <2> QED
      BY <1>10, <1>a, <2>1, <2>2 DEF PeerLeaves
  <1> QED
    BY <1>1, <1>2, <1>3, <1>4, <1>5, <1>6, <1>7, <1>8, <1>9, <1>10 DEF OtherStep

-----------------------------------------------------------------------------
\* The initial states satisfy the invariant.
LEMMA InitInv == Init => ServerInv
  <1> SUFFICES ASSUME Init PROVE ServerInv
    OBVIOUS
  <1> USE ServerAssumption DEF Init
  <1>1. NewSession \in Session /\ RestOk(NewSession) /\ NewSession.at = "none"
    BY DEF NewSession, Session, Places, RestOk
  <1>2. sess \in [Clients -> Session]
    BY <1>1
  <1>3. TypeOK
    <2>1. /\ heard \in [Clients -> BOOLEAN] /\ late \in [Clients -> Nat]
          /\ reg \in [Clients -> Nat] /\ cmds \in 0 .. MaxCmds
      OBVIOUS
    <2>2. exitapp \in BOOLEAN /\ appShutdown \in BOOLEAN /\ running \in BOOLEAN
      BY Zenon
    <2> QED
      BY <1>2, <2>1, <2>2 DEF TypeOK, Session
  <1>4. LateOnce /\ LateAcceptOnce
    BY DEF LateOnce, LateAcceptOnce
  <1> QED
    BY <1>1, <1>3, <1>4 DEF ServerInv

\* A step of session c keeps the parts of the invariant about sessions, if it
\* counts a late command only when it leaves recv() after the order to end.
LEMMA SessionsKept ==
    ASSUME ServerInv, NEW c \in Clients, NEW s \in Session, Goes(c, s), RestOk(s),
           Ending => Ending',
           s.at = "recv" => ~Ending \/ sess[c].at = "recv",
           \/ late' = late
           \/ /\ late' = IF Ending THEN [late EXCEPT ![c] = @ + 1] ELSE late
              /\ sess[c].at = "recv" /\ s.at # "recv"
    PROVE  /\ sess' \in [Clients -> Session]
           /\ late' \in [Clients -> Nat]
           /\ LateOnce'
           /\ (\A d \in Clients : RestOk(sess[d]))'
  <1>1. /\ sess \in [Clients -> Session] /\ late \in [Clients -> Nat]
        /\ LateOnce /\ \A d \in Clients : RestOk(sess[d])
    BY DEF ServerInv, TypeOK, Session
  <1>2. /\ sess' \in [Clients -> Session]
        /\ sess'[c] = s /\ \A d \in Clients \ {c} : sess'[d] = sess[d]
    BY <1>1 DEF Goes
  <1>3. (\A d \in Clients : RestOk(sess[d]))'
    BY <1>1, <1>2 DEF RestOk
  <1>4. CASE late' = late
    BY <1>1, <1>2, <1>3, <1>4 DEF LateOnce
  <1>5. CASE /\ late' = IF Ending THEN [late EXCEPT ![c] = @ + 1] ELSE late
             /\ sess[c].at = "recv" /\ s.at # "recv"
    <2>1. late[c] = 0
      BY <1>1, <1>5 DEF LateOnce
    <2>2. late' \in [Clients -> Nat]
      BY <1>1, <1>5
    <2>3. /\ late'[c] \in {0, 1} /\ late'[c] # 0 => Ending
          /\ \A d \in Clients \ {c} : late'[d] = late[d]
      BY <1>1, <1>5, <2>1
    <2>4. LateOnce'
      BY <1>1, <1>2, <1>5, <2>2, <2>3 DEF LateOnce
    <2> QED
      BY <1>2, <1>3, <2>2, <2>4
  <1> QED
    BY <1>4, <1>5

\* Every step keeps the invariant.
LEMMA StepInv == ServerInv /\ [Next]_vars => ServerInv'
  <1> SUFFICES ASSUME ServerInv, [Next]_vars PROVE ServerInv'
    OBVIOUS
  <1> USE ServerAssumption
  <1>0. /\ TypeOK /\ LateOnce /\ LateAcceptOnce
        /\ \A c \in Clients : RestOk(sess[c])
    BY DEF ServerInv
  <1>1. ASSUME NEW c \in Clients,
               \/ Pass(c) \/ Refuse(c) \/ Quit(c) \/ Plain(c) \/ TypeOrSize(c)
               \/ Rest(c) \/ Pasv(c) \/ PasvNoSocket(c) \/ Port(c)
               \/ Stor(c) \/ Retr(c) \/ List(c) \/ SiteRestartMM(c) \/ SiteExit(c)
        PROVE  ServerInv'
    <2>1. /\ Command(c)
          /\ UNCHANGED <<listener, appShutdown, running, reg>>
          /\ timeout' \in {0, timeout}
          /\ exitapp' \in {TRUE, exitapp}
      BY <1>0, <1>1, CommandStep
    <2>2. PICK s \in Session :
            Goes(c, s) /\ RestOk(s) /\ s.at \in {"load", "pasv", "xfer", "exit"}
      BY <1>0, <1>1, CommandStep
    <2>3. Ending => Ending'
      BY <2>1 DEF Ending
    <2>4. /\ sess' \in [Clients -> Session]
          /\ late' \in [Clients -> Nat]
          /\ LateOnce'
          /\ (\A d \in Clients : RestOk(sess[d]))'
      BY <2>1, <2>2, <2>3, SessionsKept DEF Command, At
    <2>5. LateAcceptOnce'
      BY <1>0, <2>1, <2>3 DEF LateAcceptOnce, Command
    <2>6. TypeOK'
      <3>1. cmds' \in 0 .. MaxCmds /\ heard' \in [Clients -> BOOLEAN]
        BY <1>0, <2>1 DEF TypeOK, Command
      <3>2. timeout' \in Nat
        BY <1>0, <2>1 DEF TypeOK
      <3>3. exitapp' \in BOOLEAN
        BY <1>0, <2>1, Zenon DEF TypeOK
      <3> QED
        BY <1>0, <2>1, <2>4, <3>1, <3>2, <3>3 DEF TypeOK, Command, Session
    <2> QED
      BY <2>4, <2>5, <2>6 DEF ServerInv
  <1>2. ASSUME NEW c \in Clients, OtherStep(c)
        PROVE  ServerInv'
    <2>1. /\ UNCHANGED <<listener, exitapp, appShutdown, running, cmds, late,
                         lateAccepts>>
          /\ timeout' \in Nat /\ reg' \in [Clients -> Nat]
          /\ heard' \in [Clients -> BOOLEAN]
      BY <1>0, <1>2, SessionStep
    <2>2. PICK s \in Session :
            /\ Goes(c, s) /\ RestOk(s)
            /\ s.at = "recv" => ~Ending \/ sess[c].at = "recv"
      BY <1>0, <1>2, SessionStep
    <2>3. Ending => Ending'
      BY <2>1 DEF Ending
    <2>4. /\ sess' \in [Clients -> Session]
          /\ late' \in [Clients -> Nat]
          /\ LateOnce'
          /\ (\A d \in Clients : RestOk(sess[d]))'
      BY <2>1, <2>2, <2>3, SessionsKept
    <2>5. LateAcceptOnce'
      BY <1>0, <2>1, <2>3 DEF LateAcceptOnce
    <2>6. TypeOK'
      BY <1>0, <2>1, <2>4 DEF TypeOK, Session
    <2> QED
      BY <2>4, <2>5, <2>6 DEF ServerInv
  <1>3. ASSUME NEW c \in Clients, Accept(c)
        PROVE  ServerInv'
    <2>1. PICK at \in {"start", "stranded"} : sess' = [sess EXCEPT ![c].at = at]
      BY <1>3 DEF Accept
    <2> DEFINE s == [sess[c] EXCEPT !.at = at]
    <2>2. s \in Session /\ RestOk(s) /\ s.at = at
      BY <1>0 DEF TypeOK, Session, Places, RestOk
    <2>3. Goes(c, s)
      BY <2>1 DEF Goes
    <2>4. Ending' = Ending /\ late' = late
      BY <1>3 DEF Accept, Ending
    <2> HIDE DEF s
    <2>5. /\ sess' \in [Clients -> Session]
          /\ late' \in [Clients -> Nat]
          /\ LateOnce'
          /\ (\A d \in Clients : RestOk(sess[d]))'
      BY <2>2, <2>3, <2>4, SessionsKept
    <2>6. LateAcceptOnce' /\ lateAccepts' \in Nat
      BY <1>0, <1>3, <2>4 DEF LateAcceptOnce, Accept, TypeOK
    <2>7. TypeOK'
      BY <1>0, <1>3, <2>5, <2>6 DEF TypeOK, Session, Accept
    <2> QED
      BY <2>5, <2>6, <2>7 DEF ServerInv
  <1>4. CASE ListenerGuard \/ AcceptFails
    <2>1. UNCHANGED <<sess, timeout, reg, exitapp, appShutdown, running, cmds,
                      heard, late, lateAccepts>>
      BY <1>4 DEF ListenerGuard, AcceptFails, history
    <2>2. /\ listener' \in {"guard", "accept", "closed"}
          /\ listener' = "accept" => ~Ending
      BY <1>4 DEF ListenerGuard, AcceptFails
    <2> QED
      BY <1>0, <2>1, <2>2
      DEF ServerInv, TypeOK, LateOnce, LateAcceptOnce, Ending, RestOk
  <1>5. CASE Shutdown
    BY <1>0, <1>5
    DEF Shutdown, history, ServerInv, TypeOK, LateOnce, LateAcceptOnce, Ending,
        RestOk
  <1>6. CASE ProcessEnds
    <2>1. Gone \in Session /\ RestOk(Gone) /\ Gone.at = "gone"
      BY DEF Session, Gone, NewSession, Places, RestOk
    <2>2. sess' \in [Clients -> Session] /\ \A d \in Clients : sess'[d] = Gone
      BY <1>6, <2>1 DEF ProcessEnds
    <2>3. UNCHANGED <<timeout, exitapp, appShutdown, cmds, heard, late,
                      lateAccepts, Ending>>
      BY <1>6 DEF ProcessEnds, history, Ending
    <2>4. TypeOK'
      <3>1. reg' \in [Clients -> Nat] /\ listener' = "closed" /\ running' = FALSE
        BY <1>6 DEF ProcessEnds
      <3> QED
        BY <1>0, <2>2, <2>3, <3>1 DEF TypeOK, Session
    <2>5. LateOnce'
      BY <1>0, <2>1, <2>2, <2>3 DEF LateOnce
    <2>6. LateAcceptOnce'
      BY <1>0, <1>6, <2>3 DEF LateAcceptOnce, ProcessEnds
    <2>7. (\A d \in Clients : RestOk(sess[d]))'
      BY <2>1, <2>2
    <2> QED
      BY <2>4, <2>5, <2>6, <2>7 DEF ServerInv
  <1>7. CASE UNCHANGED vars
    BY <1>0, <1>7
    DEF vars, ServerInv, TypeOK, LateOnce, LateAcceptOnce, Ending, RestOk
  <1> QED
    BY <1>1, <1>2, <1>3, <1>4, <1>5, <1>6, <1>7
    DEF Next, Own, Execute, OtherStep, Exit, ExitApp

\* ServerInv holds throughout (handleconnections() and handleclient(),
\* ftp.c:62-1073).
THEOREM ServerInvariant == Spec => []ServerInv
  <1> QED
    BY InitInv, StepInv, PTL DEF Spec

\* The server keeps its variables within their types, the shared count of
\* failures a natural number however its loads and stores interleave.
THEOREM TypeCorrect == Spec => []TypeOK
  <1>1. ServerInv => TypeOK
    BY DEF ServerInv
  <1> QED
    BY <1>1, ServerInvariant, PTL

\* However many sessions there are, after the order to end each begins one more
\* command at most, and one more peer at most is accepted (ftp.c:75, 1042).
THEOREM OneMoreAtMost == Spec => []AtMostOneMore
  <1>1. ServerInv => AtMostOneMore
    BY DEF ServerInv, LateOnce, LateAcceptOnce, AtMostOneMore
  <1> QED
    BY <1>1, ServerInvariant, PTL

\* A transfer has a login and a data connection, and a restart point only if the
\* REST came for this connection (ftp.c:186-260).
THEOREM RestIsTheConnections == Spec => []RestBelongsToConnection
  <1>1. ServerInv => RestBelongsToConnection
    BY DEF ServerInv, RestOk, RestBelongsToConnection, TypeOK
  <1> QED
    BY <1>1, ServerInvariant, PTL

-----------------------------------------------------------------------------
\* The count of a session that has been heard is 0 before it is incremented and
\* 1 after.
OwnCount ==
    \A c \in Clients : heard[c] =>
        /\ sess[c].at = "load" => timeout = 0
        /\ sess[c].at = "store" => reg[c] = 0
        /\ sess[c].at = "check" => reg[c] = 1 /\ timeout = 1

\* The only session there is gets the count that it has left.
LEMMA CountStep ==
    ASSUME \A c, d \in Clients : c = d, ServerInv, OwnCount, [Next]_vars
    PROVE  OwnCount' /\ \A c \in Clients : TimeoutExpires(c) => ~heard[c]
  <1> USE DEF At, srvVars, history
  <1>0. /\ TypeOK /\ \A c \in Clients : RestOk(sess[c])
        /\ sess \in [Clients -> Session]
        /\ heard \in [Clients -> BOOLEAN] /\ reg \in [Clients -> Nat]
    BY DEF ServerInv, TypeOK, Session
  <1>1. ASSUME NEW c \in Clients, TimeoutExpires(c)
        PROVE  ~heard[c]
    BY <1>0, <1>1 DEF TimeoutExpires, OwnCount
  <1>2. ASSUME NEW c \in Clients,
               \/ Pass(c) \/ Refuse(c) \/ Quit(c) \/ Plain(c) \/ TypeOrSize(c)
               \/ Rest(c) \/ Pasv(c) \/ PasvNoSocket(c) \/ Port(c)
               \/ Stor(c) \/ Retr(c) \/ List(c) \/ SiteRestartMM(c) \/ SiteExit(c)
        PROVE  OwnCount'
    <2>1. PICK s \in Session :
            /\ Goes(c, s) /\ s.at \in {"load", "pasv", "xfer", "exit"}
            /\ s.at = "load" => timeout' = 0
      BY <1>0, <1>2, CommandStep
    <2>2. sess'[c] = s
      BY <1>0, <2>1 DEF Goes
    <2> QED
      BY <2>1, <2>2 DEF OwnCount
  <1>3. ASSUME NEW c \in Clients, PasvAccept(c) \/ TransferEnds(c)
        PROVE  OwnCount'
    <2>1. timeout' = 0
      BY <1>3 DEF PasvAccept, TransferEnds, Answer
    <2>2. sess'[c].at = "load"
      <3> DEFINE p == [sess[c] EXCEPT !.data = TRUE]
      <3>1. p \in Session /\ sess[c] \in Session
        BY <1>0 DEF Session
      <3>2. Answer(c, Keep(p)) \/ Answer(c, Drop(sess[c]))
        BY <1>3 DEF PasvAccept, TransferEnds
      <3> HIDE DEF p
      <3>3. Keep(p).at = "load" /\ Drop(sess[c]).at = "load"
        BY <3>1, KeepDrop
      <3> QED
        BY <1>0, <3>2, <3>3 DEF Answer
    <2> QED
      BY <2>1, <2>2 DEF OwnCount
  <1>4. ASSUME NEW c \in Clients, TimeoutLoad(c)
        PROVE  OwnCount'
    <2>1. sess'[c].at = "store" /\ reg'[c] = timeout /\ heard' = heard
      BY <1>0, <1>4 DEF TimeoutLoad, Session
    <2>2. heard[c] => timeout = 0
      BY <1>4 DEF TimeoutLoad, OwnCount
    <2> QED
      BY <2>1, <2>2 DEF OwnCount
  <1>5. ASSUME NEW c \in Clients, TimeoutStore(c)
        PROVE  OwnCount'
    <2>1. /\ sess'[c].at = "check" /\ reg'[c] = reg[c] + 1
          /\ timeout' = reg[c] + 1 /\ heard' = heard
      BY <1>0, <1>5 DEF TimeoutStore, Session
    <2>2. heard[c] => reg[c] = 0
      BY <1>5 DEF TimeoutStore, OwnCount
    <2> QED
      BY <2>1, <2>2 DEF OwnCount
  <1>6. ASSUME NEW c \in Clients,
               \/ Start(c) \/ Guard(c) \/ TimeoutStays(c) \/ TimeoutExpires(c)
               \/ Accept(c)
        PROVE  OwnCount'
    <2>1. sess'[c].at \notin {"load", "store", "check"}
      <3>1. Gone.at = "gone"
        BY DEF Gone, NewSession
      <3>2. CASE Start(c) \/ Guard(c) \/ TimeoutStays(c)
        BY <1>0, <3>1, <3>2 DEF Start, Guard, TimeoutStays, Session
      <3>3. CASE TimeoutExpires(c)
        BY <1>0, <3>1, <3>3 DEF TimeoutExpires
      <3>4. CASE Accept(c)
        <4>1. PICK at \in {"start", "stranded"} : sess' = [sess EXCEPT ![c].at = at]
          BY <3>4 DEF Accept
        <4> QED
          BY <1>0, <4>1 DEF Session
      <3> QED
        BY <1>6, <3>2, <3>3, <3>4
    <2> QED
      BY <2>1 DEF OwnCount
  <1>7. ASSUME NEW c \in Clients, RecvFails(c)
        PROVE  OwnCount'
    <2>1. ~heard'[c]
      BY <1>0, <1>7 DEF RecvFails
    <2> QED
      BY <2>1 DEF OwnCount
  <1>8. ASSUME NEW c \in Clients, PeerLeaves(c)
        PROVE  OwnCount'
    <2>1. sess'[c].at \in {"recv", "pasv", "xfer"}
      BY <1>0, <1>8 DEF PeerLeaves, Session
    <2> QED
      BY <2>1 DEF OwnCount
  <1>9. ASSUME ProcessEnds PROVE OwnCount'
    <2>1. Gone.at = "gone"
      BY DEF Gone, NewSession
    <2>2. \A c \in Clients : sess'[c].at = "gone"
      BY <1>9, <2>1 DEF ProcessEnds
    <2> QED
      BY <2>2 DEF OwnCount
  <1>10. ASSUME ListenerGuard \/ AcceptFails \/ Shutdown \/ UNCHANGED vars
         PROVE  OwnCount'
    <2>1. UNCHANGED <<sess, heard, timeout, reg>>
      BY <1>10 DEF ListenerGuard, AcceptFails, Shutdown, vars
    <2> QED
      BY <2>1 DEF OwnCount
  <1> QED
    BY <1>1, <1>2, <1>3, <1>4, <1>5, <1>6, <1>7, <1>8, <1>9, <1>10
    DEF Next, Own, Execute, Exit, ExitApp

\* What goes wrong in the run timeout needs a second session: alone, a session
\* is expelled only for its own silence (ftp.c:1007).
THEOREM TimeoutIsOwnAlone ==
    ASSUME \A c, d \in Clients : c = d
    PROVE  Spec => TimeoutIsOwn
  <1>1. Init => OwnCount
    BY DEF Init, OwnCount
  <1>2. ServerInv /\ OwnCount /\ [Next]_vars => OwnCount'
    BY CountStep
  <1>3. ServerInv /\ OwnCount /\ [Next]_vars
          => [\A c \in Clients : TimeoutExpires(c) => ~heard[c]]_vars
    BY CountStep
  <1> QED
    BY <1>1, <1>2, <1>3, ServerInvariant, PTL DEF Spec, TimeoutIsOwn

-----------------------------------------------------------------------------
(* The strings that commands are made of, and the working directory of a   *)
(* session: MCPure for lines and directories of any length.                *)

\* Every set of numbers has a least one, and one that is bounded a greatest.
LEMMA LeastNumber ==
  ASSUME NEW T, T \subseteq Nat, T # {}
  PROVE  \E x \in T : \A y \in T : x <= y
<1>1. PICK x \in T : \A y \in T : ~ (<<y, x>> \in OpToRel(<, Nat))
  BY NatLessThanWellFounded, WFMin
<1>2. \A y \in T : ~(y < x)
  BY <1>1 DEF OpToRel
<1> QED
  BY <1>2

LEMMA GreatestNumber ==
  ASSUME NEW n \in Nat, NEW T, T \subseteq 0 .. n, T # {}
  PROVE  \E x \in T : \A y \in T : y <= x
<1> DEFINE D == {d \in 0 .. n : n - d \in T}
<1>1. D \subseteq Nat
  OBVIOUS
<1>2. D # {}
  <2>1. PICK y \in T : TRUE
    OBVIOUS
  <2>2. y \in 0 .. n /\ n - y \in 0 .. n /\ n - (n - y) = y
    BY <2>1
  <2>3. n - y \in D
    BY <2>1, <2>2
  <2> QED
    BY <2>3
<1>3. PICK d \in D : \A e \in D : d <= e
  <2> HIDE DEF D
  <2> QED
    BY <1>1, <1>2, LeastNumber
<1>4. \A y \in T : n - y \in D
  <2>1. \A y \in T : y \in 0 .. n /\ n - y \in 0 .. n /\ n - (n - y) = y
    OBVIOUS
  <2> QED
    BY <2>1
<1>5. ASSUME NEW y \in T PROVE y <= n - d
  <2>1. d \in 0 .. n /\ y \in 0 .. n /\ d <= n - y
    BY <1>3, <1>4
  <2> QED
    BY <2>1
<1> QED
  BY <1>3, <1>5

Strings == Seq(Chars)

\* What is received of a peer, and the directory that becomes of it, are strings.
PathInv ==
    /\ line \in Strings
    /\ cwd \in Strings
    /\ IsAbsolute(cwd)

\* The characters before the first blank, or all of them.
LEMMA BlankIsFound ==
  ASSUME NEW str \in Strings
  PROVE  /\ BeforeBlank(str) \in 0 .. Len(str)
         /\ BeforeBlank(str) = Len(str) \/ str[BeforeBlank(str) + 1] = Blank
         /\ \A i \in 1 .. BeforeBlank(str) : str[i] # Blank
<1> DEFINE Stop(n) == n = Len(str) \/ str[n + 1] = Blank
           T == {n \in 0 .. Len(str) : Stop(n)}
<1>1. Len(str) \in Nat
  BY LenProperties DEF Strings
<1>2. Len(str) \in T /\ T \subseteq Nat
  BY <1>1
<1>3. PICK n \in T : \A j \in T : n <= j
  <2> HIDE DEF T
  <2> QED
    BY <1>2, LeastNumber
<1>4. \A i \in 1 .. n : str[i] # Blank
  <2> SUFFICES ASSUME NEW i \in 1 .. n, str[i] = Blank PROVE FALSE
    OBVIOUS
  <2>1. i - 1 \in 0 .. Len(str) /\ (i - 1) + 1 = i /\ i - 1 < n
    BY <1>1, <1>3
  <2>2. i - 1 \in T
    BY <2>1
  <2>3. n \in 0 .. Len(str)
    BY <1>3
  <2> HIDE DEF T
  <2>4. n <= i - 1
    BY <1>3, <2>2
  <2> QED
    BY <1>1, <2>1, <2>3, <2>4
<1> QED
  BY <1>3, <1>4 DEF BeforeBlank

\* The parameter of a line is a string, cut or not.
LEMMA SplitGivesStrings ==
  ASSUME NEW str \in Strings
  PROVE  Split(str).right \in Strings
<1> DEFINE last == Smaller(Len(str), BeforeBlank(str) + 1 + MaxParam)
<1>1. /\ Len(str) \in Nat /\ BeforeBlank(str) \in 0 .. Len(str)
      /\ last \in Nat /\ last <= Len(str)
  BY BlankIsFound, LenProperties, PureAssumption DEF Strings, Smaller
<1>2. <<>> \in Strings
  BY EmptySeq DEF Strings
<1>3. SubSeq(str, BeforeBlank(str) + 2, last) \in Strings
  <2> HIDE DEF last
  <2>1. \A i \in BeforeBlank(str) + 2 .. last : str[i] \in Chars
    BY <1>1, ElementOfSeq DEF Strings
  <2> QED
    BY <1>1, <2>1, SubSeqProperties DEF Strings
<1> QED
  BY <1>2, <1>3 DEF Split, ssplit

\* A directory behind which a name can be put.
LEMMA SlashIsAtTheEnd ==
  ASSUME NEW dir \in Strings, IsAbsolute(dir)
  PROVE  /\ WithSlash(dir) \in Strings
         /\ Len(WithSlash(dir)) \in Nat \ {0}
         /\ WithSlash(dir)[1] = Slash
         /\ WithSlash(dir)[Len(WithSlash(dir))] = Slash
<1>1. Len(dir) \in Nat \ {0} /\ dir[1] = Slash
  BY EmptySeq DEF Strings, IsAbsolute
<1>2. Slash \in Chars
  BY DEF Chars
<1>3. /\ Append(dir, Slash) \in Strings
      /\ Len(Append(dir, Slash)) = Len(dir) + 1
      /\ Append(dir, Slash)[1] = dir[1]
      /\ Append(dir, Slash)[Len(dir) + 1] = Slash
  BY <1>1, <1>2, AppendProperties DEF Strings
<1> QED
  BY <1>1, <1>3 DEF WithSlash

\* absPath() of an absolute directory is absolute, whatever the path.
LEMMA PathIsAbsolute ==
  ASSUME NEW dir \in Strings, NEW path \in Strings, IsAbsolute(dir)
  PROVE  absPath(path, dir) \in Strings /\ IsAbsolute(absPath(path, dir))
<1> DEFINE W == WithSlash(dir)
<1>1. W \in Strings /\ Len(W) \in Nat \ {0} /\ W[1] = Slash
  BY SlashIsAtTheEnd
<1>2. Len(path) \in Nat
  BY LenProperties DEF Strings
<1>3. /\ W \o path \in Strings
      /\ Len(W \o path) = Len(W) + Len(path)
      /\ (W \o path)[1] = Slash
  <2> HIDE DEF W
  <2> QED
    BY <1>1, <1>2, ConcatProperties DEF Strings
<1>4. W \o path # <<>>
  <2> HIDE DEF W
  <2> QED
    BY <1>1, <1>2, <1>3, EmptySeq
<1> QED
  BY <1>3, <1>4 DEF absPath, IsAbsolute

\* CDUP of an absolute directory is absolute: the first character is kept.
LEMMA CdupIsAbsolute ==
  ASSUME NEW dir \in Strings, IsAbsolute(dir)
  PROVE  CDUP(dir) \in Strings /\ IsAbsolute(CDUP(dir))
<1> DEFINE last == Len(dir) - 1
           stops == {i \in Positions(dir, Slash) : 1 < i /\ i < last}
           T == stops \cup {1}
           keep == CHOOSE i \in T : \A j \in stops : j <= i
<1>1. Len(dir) \in Nat \ {0} /\ dir[1] = Slash
  BY EmptySeq DEF Strings, IsAbsolute
<1>2. T \subseteq 0 .. Len(dir) /\ 1 \in T /\ \A i \in T : i >= 1 /\ i <= Len(dir)
  BY <1>1 DEF Positions
<1>3. \E i \in T : \A j \in T : j <= i
  <2> HIDE DEF T
  <2> QED
    BY <1>1, <1>2, GreatestNumber
<1>4. keep \in T
  <2>1. \E i \in T : \A j \in stops : j <= i
    BY <1>3
  <2> HIDE DEF T, stops
  <2> QED
    BY <2>1
<1>5. keep \in 1 .. Len(dir)
  <2> HIDE DEF T, keep
  <2> QED
    BY <1>1, <1>2, <1>4
<1>6. SubSeq(dir, 1, keep) \in Strings /\ IsAbsolute(SubSeq(dir, 1, keep))
  <2> HIDE DEF keep
  <2>1. \A i \in 1 .. keep : dir[i] \in Chars
    BY <1>1, <1>5, ElementOfSeq DEF Strings
  <2>2. /\ SubSeq(dir, 1, keep) \in Strings
        /\ Len(SubSeq(dir, 1, keep)) = keep
        /\ SubSeq(dir, 1, keep)[1] = Slash
    BY <1>1, <1>5, <2>1, SubSeqProperties DEF Strings
  <2>3. SubSeq(dir, 1, keep) # <<>>
    BY <1>5, <2>2, EmptySeq
  <2> QED
    BY <2>2, <2>3 DEF IsAbsolute
<1> QED
  BY <1>6 DEF CDUP

LEMMA PathInvariant == PathSpec => []PathInv
<1>1. PathInit => PathInv
  <2> SUFFICES ASSUME PathInit PROVE PathInv
    OBVIOUS
  <2>1. <<>> \in Strings /\ <<Slash>> \in Strings
    BY EmptySeq DEF Strings, Chars
  <2> QED
    BY <2>1 DEF PathInit, PathInv, IsAbsolute
<1>2. PathInv /\ [Receive]_pathVars => PathInv'
  <2> SUFFICES ASSUME PathInv, [Receive]_pathVars PROVE PathInv'
    OBVIOUS
  <2>1. CASE Receive
    <3>1. line' \in Strings
      <4>1. PICK k \in 0 .. MaxLine : line' \in [1 .. k -> Chars]
        BY <2>1 DEF Receive, Texts
      <4>2. k \in Nat
        BY PureAssumption
      <4> QED
        BY <4>1, <4>2, SeqDef DEF Strings
    <3>2. cwd' = absPath(Split(line').right, cwd) \/ cwd' = CDUP(cwd)
      BY <2>1 DEF Receive
    <3>3. Split(line').right \in Strings
      BY <3>1, SplitGivesStrings
    <3> QED
      BY <3>1, <3>2, <3>3, PathIsAbsolute, CdupIsAbsolute DEF PathInv
  <2>2. CASE UNCHANGED pathVars
    BY <2>2 DEF pathVars, PathInv
  <2> QED
    BY <2>1, <2>2
<1> QED
  BY <1>1, <1>2, PTL DEF PathSpec

\* Whatever lines are sent, of any length: the working directory is never empty
\* and stays absolute (absPath() and CDUP, functions.c:19-36, ftp.c:139-157).
THEOREM CwdStaysAbsolute == PathSpec => []CwdAbsolute
<1>1. PathInv => CwdAbsolute
  BY DEF PathInv, CwdAbsolute
<1> QED
  BY <1>1, PathInvariant, PTL

\* Taken apart at one of its characters and put together again, a string is what
\* it was.
LEMMA PutTogether ==
  ASSUME NEW str \in Strings, NEW i \in 1 .. Len(str)
  PROVE  SubSeq(str, 1, i - 1) \o <<str[i]>> \o SubSeq(str, i + 1, Len(str)) = str
<1>1. Len(str) \in Nat /\ \A k \in 1 .. Len(str) : str[k] \in Chars
  BY LenProperties, ElementOfSeq DEF Strings
<1>2. PICK l, m, r : /\ l = SubSeq(str, 1, i - 1) /\ m = <<str[i]>>
                     /\ r = SubSeq(str, i + 1, Len(str))
  OBVIOUS
<1>3. /\ l \in Strings /\ Len(l) = i - 1
      /\ \A k \in 1 .. i - 1 : l[k] = str[k]
  BY <1>1, <1>2, SubSeqProperties DEF Strings
<1>4. /\ r \in Strings /\ Len(r) = Len(str) - i
      /\ \A k \in 1 .. Len(str) - i : r[k] = str[i + k]
  BY <1>1, <1>2, SubSeqProperties DEF Strings
<1>5. m \in Strings /\ Len(m) = 1 /\ m[1] = str[i]
  BY <1>1, <1>2 DEF Strings
<1>6. /\ l \o m \in Strings /\ Len(l \o m) = i
      /\ \A k \in 1 .. i : (l \o m)[k] = str[k]
  <2>1. /\ l \o m \in Strings /\ Len(l \o m) = Len(l) + Len(m)
        /\ \A k \in 1 .. Len(l) + Len(m) :
              (l \o m)[k] = IF k <= Len(l) THEN l[k] ELSE m[k - Len(l)]
    BY <1>3, <1>5, ConcatProperties DEF Strings
  <2>2. ASSUME NEW k \in 1 .. i PROVE (l \o m)[k] = str[k]
    <3>1. k <= i - 1 \/ k - (i - 1) = 1
      BY <1>1
    <3> QED
      BY <1>1, <1>3, <1>5, <2>1, <3>1
  <2> QED
    BY <1>1, <1>3, <1>5, <2>1, <2>2
<1>7. /\ (l \o m) \o r \in Strings /\ Len((l \o m) \o r) = Len(str)
      /\ \A k \in 1 .. Len(str) : ((l \o m) \o r)[k] = str[k]
  <2> DEFINE lm == l \o m
  <2> HIDE DEF lm
  <2>0. lm \in Strings /\ Len(lm) = i /\ \A k \in 1 .. i : lm[k] = str[k]
    BY <1>6 DEF lm
  <2>1. /\ lm \o r \in Strings /\ Len(lm \o r) = Len(lm) + Len(r)
        /\ \A k \in 1 .. Len(lm) + Len(r) :
              (lm \o r)[k] = IF k <= Len(lm) THEN lm[k] ELSE r[k - Len(lm)]
    BY <1>4, <2>0, ConcatProperties DEF Strings
  <2>2. ASSUME NEW k \in 1 .. Len(str) PROVE (lm \o r)[k] = str[k]
    <3>0. k <= i \/ k > i
      BY <1>1
    <3>1. CASE k <= i
      BY <1>1, <1>4, <2>0, <2>1, <3>1
    <3>2. CASE k > i
      <4>1. k - i \in 1 .. Len(str) - i /\ i + (k - i) = k
        BY <1>1, <3>2
      <4> QED
        BY <1>1, <1>4, <2>0, <2>1, <3>2, <4>1
    <3> QED
      BY <3>0, <3>1, <3>2
  <2> QED
    BY <1>1, <1>4, <2>0, <2>1, <2>2 DEF lm
<1>8. (l \o m) \o r = str
  <2> DEFINE all == (l \o m) \o r
  <2> HIDE DEF all
  <2>1. all \in Seq(Chars) /\ str \in Seq(Chars) /\ Len(all) = Len(str)
        /\ \A k \in 1 .. Len(str) : all[k] = str[k]
    BY <1>7 DEF all, Strings
  <2>2. all = str
    BY <2>1, SeqEqual
  <2> QED
    BY <2>2 DEF all
<1> QED
  BY <1>2, <1>8

\* ssplit() parts every line at its first blank: command and parameter are whole
\* as far as their buffers hold them, and cut there, for buffers of any sizes and
\* lines of any length (functions.c:52-72, ftp.c:103-112).
THEOREM SplitsAtFirstBlank == PathSpec => []SplitAtFirstBlank
<1> DEFINE n == BeforeBlank(line)
           more == n < Len(line) - 1
           l == SubSeq(line, 1, Smaller(n, MaxCmd))
           r == SubSeq(line, n + 2, Smaller(Len(line), n + 1 + MaxParam))
<1>1. /\ Split(line).ret = more /\ Split(line).left = l
      /\ more => Split(line).right = r
      /\ ~more => Split(line).right = <<>>
  <2> HIDE DEF l, r, more
  <2>1. Split(line) = [ret |-> more, left |-> l, right |-> IF more THEN r ELSE <<>>]
    BY DEF Split, ssplit, l, r, more
  <2>2. \A a, b, c : LET s == [ret |-> a, left |-> b, right |-> c]
                     IN s.ret = a /\ s.left = b /\ s.right = c
    OBVIOUS
  <2> QED
    BY <2>1, <2>2
<1>2. PathInv => /\ Len(line) \in Nat
                 /\ n \in 0 .. Len(line) /\ (n = Len(line) \/ line[n + 1] = Blank)
                 /\ \A j \in 1 .. n : line[j] # Blank
  BY BlankIsFound, LenProperties DEF PathInv, Strings
<1>3. ASSUME PathInv, NEW i \in 1 .. Len(line) - 1, line[i] = Blank,
             \A j \in 1 .. i - 1 : line[j] # Blank
      PROVE  /\ Split(line).ret
             /\ Split(line).left = SubSeq(line, 1, Smaller(i - 1, MaxCmd))
             /\ Split(line).right = SubSeq(line, i + 1, Smaller(Len(line), i + MaxParam))
             /\ i - 1 <= MaxCmd /\ Len(line) - i <= MaxParam =>
                  Split(line).left \o <<Blank>> \o Split(line).right = line
  <2>1. n = i - 1
    <3> HIDE DEF n
    <3>1. ~(n >= i)
      BY <1>2, <1>3
    <3>2. ~(n < i - 1)
      <4> SUFFICES ASSUME n < i - 1 PROVE FALSE
        OBVIOUS
      <4>1. n + 1 \in 1 .. i - 1 /\ n # Len(line)
        BY <1>2, <1>3
      <4> QED
        BY <1>2, <1>3, <4>1
    <3> QED
      BY <1>2, <1>3, <3>1, <3>2
  <2>2. more /\ n + 2 = i + 1 /\ n + 1 + MaxParam = i + MaxParam
    <3> HIDE DEF n
    <3> QED
      BY <1>2, <1>3, <2>1, PureAssumption
  <2>3. /\ l = SubSeq(line, 1, Smaller(i - 1, MaxCmd))
        /\ r = SubSeq(line, i + 1, Smaller(Len(line), i + MaxParam))
    <3> HIDE DEF n
    <3> QED
      BY <2>1, <2>2
  <2>4. ASSUME i - 1 <= MaxCmd, Len(line) - i <= MaxParam
        PROVE  l \o <<Blank>> \o r = line
    <3>1. Smaller(i - 1, MaxCmd) = i - 1 /\ Smaller(Len(line), i + MaxParam) = Len(line)
      BY <1>2, <1>3, <2>4, PureAssumption DEF Smaller
    <3>2. /\ l = SubSeq(line, 1, i - 1) /\ r = SubSeq(line, i + 1, Len(line))
          /\ i \in 1 .. Len(line)
      <4> HIDE DEF l, r
      <4> QED
        BY <1>2, <1>3, <2>3, <3>1
    <3> HIDE DEF l, r
    <3> QED
      BY <1>3, <3>2, PutTogether DEF PathInv
  <2> HIDE DEF l, r, more
  <2> QED
    BY <1>1, <2>2, <2>3, <2>4
<1>4. ASSUME PathInv, \A i \in 1 .. Len(line) - 1 : line[i] # Blank
      PROVE  ~Split(line).ret /\ Split(line).right = <<>>
  <2>1. ~more
    <3> HIDE DEF n
    <3>1. more => n + 1 \in 1 .. Len(line) - 1 /\ n # Len(line)
      BY <1>2, <1>4
    <3> QED
      BY <1>2, <1>4, <3>1
  <2> HIDE DEF l, r, more
  <2> QED
    BY <1>1, <2>1
<1>5. PathInv => SplitAtFirstBlank
  BY <1>3, <1>4 DEF SplitAtFirstBlank
<1> QED
  BY <1>5, PathInvariant, PTL

\* CWD into a subdirectory and CDUP lead back to the directory, with its slash.
LEMMA CdupLeadsBack ==
  ASSUME NEW dir \in Strings, IsAbsolute(dir), NEW name \in Strings,
         NEW body \in Strings,
         body = IF name # <<>> /\ name[Len(name)] = Slash
                THEN SubSeq(name, 1, Len(name) - 1) ELSE name,
         body # <<>>, Positions(body, Slash) = {}, Len(name) > 1
  PROVE  CDUP(absPath(name, dir)) = WithSlash(dir)
<1> DEFINE W == WithSlash(dir)
           p == W \o name
           last == Len(p) - 1
           stops == {i \in Positions(p, Slash) : 1 < i /\ i < last}
           T == stops \cup {1}
           keep == CHOOSE i \in T : \A j \in stops : j <= i
<1>1. /\ W \in Strings /\ Len(W) \in Nat \ {0} /\ W[1] = Slash /\ W[Len(W)] = Slash
  BY SlashIsAtTheEnd
<1>2. Len(name) \in Nat /\ Len(name) >= 2
  BY LenProperties DEF Strings
<1>3. \A i \in 1 .. Len(name) - 1 : name[i] # Slash
  <2>1. CASE name # <<>> /\ name[Len(name)] = Slash
    <3>1. \A i \in 1 .. Len(name) - 1 : name[i] \in Chars
      BY <1>2, ElementOfSeq DEF Strings
    <3>2. /\ Len(SubSeq(name, 1, Len(name) - 1)) = Len(name) - 1
          /\ \A i \in 1 .. Len(name) - 1 : SubSeq(name, 1, Len(name) - 1)[i] = name[i]
      BY <1>2, <3>1, SubSeqProperties
    <3> QED
      BY <1>2, <2>1, <3>2 DEF Positions
  <2>2. CASE ~(name # <<>> /\ name[Len(name)] = Slash)
    BY <1>2, <2>2 DEF Positions
  <2> QED
    BY <2>1, <2>2
<1>4. absPath(name, dir) = p
  BY <1>2, <1>3 DEF absPath, IsAbsolute
<1>5. /\ p \in Strings
      /\ Len(p) = Len(W) + Len(name)
      /\ \A i \in 1 .. Len(p) : p[i] = IF i <= Len(W) THEN W[i] ELSE name[i - Len(W)]
  <2> HIDE DEF W
  <2> QED
    BY <1>1, <1>2, ConcatProperties DEF Strings
<1>6. Len(W) \in T /\ \A j \in T : j <= Len(W)
  <2>1. \/ Len(W) = 1
        \/ Len(W) \in 1 .. Len(p) /\ p[Len(W)] = Slash /\ 1 < Len(W) /\ Len(W) < last
    <3>1. Len(W) \in Int /\ Len(W) >= 1 /\ Len(W) \in 1 .. Len(p) /\ Len(W) < last
      <4> HIDE DEF W
      <4> QED
        BY <1>1, <1>2, <1>5
    <3>2. p[Len(W)] = Slash
      <4> HIDE DEF W, p
      <4> QED
        BY <1>1, <1>5, <3>1
    <3>3. Len(W) = 1 \/ 1 < Len(W)
      <4>1. \A w \in Nat \ {0} : w = 1 \/ 1 < w
        OBVIOUS
      <4> QED
        BY <1>1, <4>1
    <3> QED
      BY <3>1, <3>2, <3>3, Zenon
  <2>2. Len(W) \in T
    BY <2>1 DEF Positions
  <2>3. ASSUME NEW j \in T, j > Len(W) PROVE FALSE
    <3>1. j \in 1 .. Len(p) /\ p[j] = Slash /\ j < last
      BY <1>1, <2>3 DEF Positions
    <3>2. j - Len(W) \in 1 .. Len(name) - 1 /\ p[j] = name[j - Len(W)]
      <4> HIDE DEF W
      <4> QED
        BY <1>1, <1>2, <1>5, <2>3, <3>1
    <3> QED
      BY <1>3, <3>1, <3>2
  <2>4. \A j \in T : j \in Int
    <3>1. Len(p) \in Nat
      BY LenProperties, <1>5 DEF Strings
    <3> QED
      BY <3>1 DEF Positions
  <2> QED
    BY <1>1, <2>2, <2>3, <2>4
<1>7. keep = Len(W)
  <2>1. \A j \in T : j \in Int
    <3>1. Len(p) \in Nat
      BY LenProperties, <1>5 DEF Strings
    <3> QED
      BY <3>1 DEF Positions
  <2>2. Len(W) \in stops \cup {1} /\ stops \subseteq T
    BY <1>6
  <2>3. \A j \in stops : j > 1
    BY DEF Positions
  <2> HIDE DEF stops, W
  <2>4. \E i \in T : \A j \in stops : j <= i
    BY <1>6
  <2>5. keep \in T /\ \A j \in stops : j <= keep
    BY <2>4
  <2> HIDE DEF keep
  <2>6. keep <= Len(W) /\ (Len(W) \in stops => Len(W) <= keep)
    BY <1>6, <2>5
  <2>7. keep \in Int /\ (keep = 1 \/ keep \in stops)
    BY <2>1, <2>5
  <2>8. keep >= 1
    BY <1>1, <2>1, <2>5, <2>7, <2>3
  <2> QED
    BY <1>1, <2>2, <2>6, <2>7, <2>8
<1>8. SubSeq(p, 1, Len(W)) = W
  <2> HIDE DEF W
  <2>1. SubSeq(p, 1, Len(W)) = SubSeq(W, 1, Len(W))
    <3>1. 1 \in 1 .. Len(W) /\ Len(W) \in 1 .. Len(W)
      BY <1>1
    <3> QED
      BY <1>1, <3>1, SubSeqOfConcat1 DEF Strings
  <2>2. SubSeq(W, 1, Len(W)) = W
    BY <1>1, SubSeqFull DEF Strings
  <2> QED
    BY <2>1, <2>2
<1>9. ~(last < 2)
  <2> HIDE DEF W
  <2> QED
    BY <1>1, <1>2, <1>5
<1>10. CDUP(p) = IF last < 2 THEN p ELSE SubSeq(p, 1, keep)
  BY DEF CDUP
<1> QED
  <2> HIDE DEF W, p, last, T, keep
  <2>1. CDUP(p) = W
    BY <1>7, <1>8, <1>9, <1>10
  <2> QED
    BY <1>4, <2>1 DEF W

\* From any directory, of any length: CWD into a subdirectory of a name that ends
\* in a slash or has two characters, and CDUP, lead back (ftp.c:139-157).
THEOREM CdupLeadsBackAlways == PathSpec => []CdupUndoesCwd
<1>1. PathInv => CdupUndoesCwd
  <2> SUFFICES ASSUME PathInv PROVE CdupUndoesCwd
    OBVIOUS
  <2> DEFINE name == Split(line).right
             body == IF name # <<>> /\ name[Len(name)] = Slash
                     THEN SubSeq(name, 1, Len(name) - 1) ELSE name
  <2>1. name \in Strings
    BY SplitGivesStrings DEF PathInv
  <2>2. body \in Strings
    <3> HIDE DEF name
    <3>1. Len(name) \in Nat
      BY <2>1, LenProperties DEF Strings
    <3>2. \A i \in 1 .. Len(name) - 1 : name[i] \in Chars
      BY <2>1, <3>1, ElementOfSeq DEF Strings
    <3>3. SubSeq(name, 1, Len(name) - 1) \in Strings
      BY <3>1, <3>2, SubSeqProperties DEF Strings
    <3> QED
      BY <2>1, <3>3
  <2>3. body # <<>> /\ Positions(body, Slash) = {} /\ Len(name) > 1 =>
            CDUP(absPath(name, cwd)) = WithSlash(cwd)
    <3>1. cwd \in Strings /\ IsAbsolute(cwd)
      BY DEF PathInv
    <3> HIDE DEF name
    <3> QED
      BY <2>1, <2>2, <3>1, CdupLeadsBack
  <2> QED
    BY <2>3 DEF CdupUndoesCwd
<1> QED
  BY <1>1, PathInvariant, PTL
=============================================================================
