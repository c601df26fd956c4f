------------------------------ MODULE Startup ------------------------------
(***************************************************************************)
(* Start-up in user mode (YaoBase::YaoBase): the two parties are separate  *)
(* jobs of NodeAmnt processes each.  init_network pairs them: the root     *)
(* evaluator gathers the hosts of its processes and tells the root         *)
(* generator, which scatters them; every generator process connects to the *)
(* evaluator process of its rank, trying again while nobody listens.       *)
(* init_environ checks the parameters and makes all processes use the      *)
(* root evaluator's claw-free collection.  Then the protocol begins, here  *)
(* a given exchange of messages per pair.                                  *)
(*                                                                         *)
(* MPI_Abort, exit and SIGPIPE end a whole job; the other job is not told. *)
(***************************************************************************)
EXTENDS NetIO

CONSTANTS NodeAmnt,
          IP_SERVER_PORT,
          PORT_BASE,
          Hosts,       \* a host is a byte: its address as it is sent
          MAX_TRIES,   \* connect attempts: how often sec doubles up to MAX_SLEEP
          BACKLOG,     \* the argument of listen
          Claws,       \* encodings of claw-free collections
          Traffic      \* Traffic[r]: what is said, and by whom, once pair r has started

VARIABLES pc,        \* pc[p]: where process p is
          dead,      \* the jobs that have ended early
          host,      \* host[r]: the machine evaluator r runs on
          flaw,      \* flaw[j]: what is wrong with job j's parameters or files, if anything
          gathered,  \* the ranks the root's MPI_Gather has heard of
          ips,       \* ips[j]: the addresses the root of job j has
          remote_ip, \* remote_ip[r]: the address generator r was given
          listening, \* addresses with a server socket
          backlog,   \* backlog[a]: who is connected there and not accepted yet
          tries,     \* tries[p]: failed attempts of the current connect
          remote,    \* remote[p]: who p's socket leads to
          claw,      \* claw[p]: p's claw-free collection
          turn,      \* turn[p]: messages of the protocol p is through with
          said, heard \* per link, the messages written and read (history)

netting == <<gathered, ips, remote_ip, listening, backlog, tries, remote>>
vars == <<netvars, pc, dead, host, flaw, netting, claw, turn, said, heard>>

Rank == 0 .. NodeAmnt - 1
Process == {"gen", "evl"} \X Rank
Gen(r) == <<"gen", r>>
Evl(r) == <<"evl", r>>
Job(p) == p[1]
node_rank(p) == p[2]
Roots == {Gen(0), Evl(0)}

\* (Mutant: the rank does not enter.)
BasePort(r) == PORT_BASE
Port(r) == PORT_BASE + r
Address == Hosts \X ({IP_SERVER_PORT} \cup {Port(r) : r \in Rank})
Nobody == <<"nobody", 0>>
NoClaw == <<>>
Undealt == -1

Link(p, q, port) == [from |-> p, to |-> q, port |-> port]
IpLink == Link(Evl(0), Gen(0), IP_SERVER_PORT)
ToPeer(p) == Link(p, remote[p], Port(node_rank(p)))
FromPeer(p) == Link(remote[p], p, Port(node_rank(p)))

ASSUME StartupAssumption ==
    /\ NodeAmnt \in Nat \ {0} /\ Hosts \subseteq Byte
    /\ PORT_BASE \in Nat /\ IP_SERVER_PORT \notin {Port(r) : r \in Rank}
    /\ MAX_TRIES \in Nat \ {0} /\ BACKLOG \in Nat \ {0}
    /\ Claws # {} /\ NoClaw \notin Claws

\* What a process may send: bytes whose number has room in the header.
Sendable(m) == m \in Seq(Byte) /\ Fits(Len(m))

\* The links there are, and that no message is too long for the type of sz.
ASSUME LinksAssumption ==
    /\ IpLink \in Links
    /\ \A r \in Rank : {Link(Evl(r), Gen(r), Port(r)), Link(Gen(r), Evl(r), Port(r))} \subseteq Links
    /\ Fits(NodeAmnt) /\ \A c \in Claws : Sendable(c)
    /\ \A r \in Rank : /\ Len(Traffic[r]) \in Nat
                       /\ \A k \in 1 .. Len(Traffic[r]) : Sendable(Traffic[r][k].bytes)

Init ==
    /\ NetInit
    /\ pc = [p \in Process |-> IF Job(p) = "evl" THEN "gather"
                               ELSE IF p = Gen(0) THEN "ip_connect" ELSE "scatter"]
    /\ dead = {}
    /\ host \in [Rank -> Hosts]
    /\ flaw \in [{"gen", "evl"} -> {"none", "environ", "private"}]
    /\ gathered = {}
    /\ ips = [j \in {"gen", "evl"} |-> <<>>]
    /\ remote_ip = [r \in Rank |-> Undealt]
    /\ listening = {}
    /\ backlog = [a \in Address |-> <<>>]
    /\ tries = [p \in Process |-> 0]
    /\ remote = [p \in Process |-> Nobody]
    /\ claw \in {c \in [Process -> Claws \cup {NoClaw}] :
                    \A p \in Process : c[p] # NoClaw <=> p = Evl(0)}
    /\ turn = [p \in Process |-> 0]
    /\ said = [l \in Links |-> <<>>]
    /\ heard = [l \in Links |-> <<>>]

Goto(p, to) == pc' = [pc EXCEPT ![p] = to]

-----------------------------------------------------------------------------
(***************************************************************************)
(* Calls of write_bytes and read_bytes, as the processes make them.        *)
(***************************************************************************)
Write(l, bytes) ==
    /\ WriteBytes(l, bytes)
    /\ said' = [said EXCEPT ![l] = Append(@, bytes)]
    /\ UNCHANGED heard

Hear(l) ==
    /\ EndRead(l)
    /\ heard' = [heard EXCEPT ![l] = Append(@, Message(l))]
    /\ UNCHANGED said

Silent == UNCHANGED <<netvars, said, heard>>

-----------------------------------------------------------------------------
(***************************************************************************)
(* init_network, the evaluator's side.                                     *)
(***************************************************************************)
\* MPI_Gather: a slave hands its address over and goes on.
Gather(p) ==
    /\ Job(p) = "evl" /\ pc[p] = "gather"
    /\ gathered' = gathered \cup {node_rank(p)}
    /\ Goto(p, IF p = Evl(0) THEN "gathering" ELSE "listen")
    /\ UNCHANGED <<dead, host, flaw, ips, remote_ip, listening, backlog, tries, remote,
                   claw, turn>>
    /\ Silent

\* The root has all addresses and opens the server socket for the generator.
IpListen(p) ==
    /\ p = Evl(0) /\ pc[p] = "gathering" /\ gathered = Rank
    /\ ips' = [ips EXCEPT !["evl"] = [i \in 1 .. NodeAmnt |-> host[i - 1]]]
    /\ listening' = listening \cup {<<host[0], IP_SERVER_PORT>>}
    /\ Goto(p, "ip_accept")
    /\ UNCHANGED <<dead, host, flaw, gathered, remote_ip, backlog, tries, remote, claw, turn>>
    /\ Silent

IpAccept(p) ==
    LET a == <<host[0], IP_SERVER_PORT>> IN
    /\ p = Evl(0) /\ pc[p] = "ip_accept" /\ backlog[a] # <<>>
    /\ backlog' = [backlog EXCEPT ![a] = Tail(@)]
    /\ Write(IpLink, ips["evl"])
    /\ Goto(p, "ip_write")
    /\ UNCHANGED <<dead, host, flaw, gathered, ips, remote_ip, listening, tries, remote,
                   claw, turn>>

\* The server socket goes out of scope.
IpWritten(p) ==
    /\ p = Evl(0) /\ pc[p] = "ip_write" /\ Written(IpLink)
    /\ EndWrite(IpLink)
    /\ listening' = listening \ {<<host[0], IP_SERVER_PORT>>}
    /\ Goto(p, "listen")
    /\ UNCHANGED <<dead, host, flaw, gathered, ips, remote_ip, backlog, tries, remote, claw,
                   turn, said, heard>>

Listen(p) ==
    /\ Job(p) = "evl" /\ pc[p] = "listen"
    /\ listening' = listening \cup {<<host[node_rank(p)], Port(node_rank(p))>>}
    /\ Goto(p, "accept")
    /\ UNCHANGED <<dead, host, flaw, gathered, ips, remote_ip, backlog, tries, remote, claw,
                   turn>>
    /\ Silent

Accept(p) ==
    LET a == <<host[node_rank(p)], Port(node_rank(p))>> IN
    /\ Job(p) = "evl" /\ pc[p] = "accept" /\ backlog[a] # <<>>
    /\ remote' = [remote EXCEPT ![p] = Head(backlog[a])]
    /\ backlog' = [backlog EXCEPT ![a] = Tail(@)]
    /\ Goto(p, "environ")
    /\ UNCHANGED <<dead, host, flaw, gathered, ips, remote_ip, listening, tries, claw, turn>>
    /\ Silent

-----------------------------------------------------------------------------
(***************************************************************************)
(* init_network, the generator's side.  The kernel completes a connection  *)
(* as soon as there is a server socket with room in its backlog.           *)
(***************************************************************************)
Goal(p) == IF pc[p] = "ip_connect" THEN <<host[0], IP_SERVER_PORT>>
                                   ELSE <<remote_ip[node_rank(p)], Port(node_rank(p))>>

Connecting(p) == Job(p) = "gen" /\ pc[p] \in {"ip_connect", "connect"}

\* The evaluator whose server socket has address a.
Owner(a) == CHOOSE q \in Process : Job(q) = "evl" /\ a = <<host[node_rank(q)], Port(node_rank(q))>>

Reachable(a) == a \in listening /\ "evl" \notin dead

Connect(p) ==
    LET a == Goal(p) IN
    /\ Connecting(p) /\ Reachable(a) /\ Len(backlog[a]) < BACKLOG
    /\ backlog' = [backlog EXCEPT ![a] = Append(@, p)]
    /\ tries' = [tries EXCEPT ![p] = 0]
    /\ remote' = IF pc[p] = "connect" THEN [remote EXCEPT ![p] = Owner(a)] ELSE remote
    /\ Goto(p, IF pc[p] = "connect" THEN "environ" ELSE "ip_read")
    /\ UNCHANGED <<dead, host, flaw, gathered, ips, remote_ip, listening, claw, turn>>
    /\ Silent

\* (Mutant: a generator that is refused gives up at once.)
RefusedOnce(p) ==
    /\ Connecting(p) /\ ~Reachable(Goal(p))
    /\ tries' = [tries EXCEPT ![p] = @ + 1]
    /\ dead' = dead \cup {"gen"}
    /\ UNCHANGED <<pc, host, flaw, gathered, ips, remote_ip, listening, backlog, remote, claw,
                   turn>>
    /\ Silent

\* Refused: sleep, make a new socket and try again, or give up.
Refused(p) ==
    /\ Connecting(p) /\ ~Reachable(Goal(p))
    /\ tries' = [tries EXCEPT ![p] = @ + 1]
    /\ dead' = IF tries[p] + 1 = MAX_TRIES THEN dead \cup {"gen"} ELSE dead
    /\ UNCHANGED <<pc, host, flaw, gathered, ips, remote_ip, listening, backlog, remote, claw,
                   turn>>
    /\ Silent

IpRead(p) ==
    /\ p = Gen(0) /\ pc[p] = "ip_read"
    /\ ReadBytes(IpLink)
    /\ Goto(p, "ip_reading")
    /\ UNCHANGED <<dead, host, flaw, netting, claw, turn, said, heard>>

\* The root has the addresses and deals them out (MPI_Scatter).
Scatter(p) ==
    /\ p = Gen(0) /\ pc[p] = "ip_reading" /\ Read(IpLink)
    /\ Hear(IpLink)
    /\ ips' = [ips EXCEPT !["gen"] = Message(IpLink)]
    /\ remote_ip' = [r \in Rank |-> ips'["gen"][r + 1]]
    /\ Goto(p, "connect")
    /\ UNCHANGED <<dead, host, flaw, gathered, listening, backlog, tries, remote, claw, turn>>

Scattered(p) ==
    /\ Job(p) = "gen" /\ pc[p] = "scatter" /\ remote_ip[node_rank(p)] # Undealt
    /\ Goto(p, "connect")
    /\ UNCHANGED <<dead, host, flaw, netting, claw, turn>>
    /\ Silent

-----------------------------------------------------------------------------
(***************************************************************************)
(* init_environ and init_private.                                          *)
(***************************************************************************)
CheckParams(p) ==
    /\ pc[p] = "environ" /\ flaw[Job(p)] # "environ"
    /\ Goto(p, "clawfree")
    /\ UNCHANGED <<dead, host, flaw, netting, claw, turn>>
    /\ Silent

ReadPrivate(p) ==
    /\ pc[p] = "private" /\ flaw[Job(p)] # "private"
    /\ Goto(p, "start")
    /\ UNCHANGED <<dead, host, flaw, netting, claw, turn>>
    /\ Silent

\* MPI_Abort: k is no multiple of 8, s none of node_amnt, the circuit cannot be
\* loaded; or, once the claw-free collection is shared, there is no input file.
Abort(p) ==
    /\ pc[p] \in {"environ", "private"} /\ flaw[Job(p)] = pc[p]
    /\ dead' = dead \cup {Job(p)}
    /\ UNCHANGED <<pc, host, flaw, netting, claw, turn>>
    /\ Silent

SyncClawFree(p) ==
    /\ pc[p] = "clawfree" /\ p \in Roots
    /\ \/ /\ p = Evl(0) /\ Write(ToPeer(p), claw[p])
       \/ /\ p = Gen(0) /\ ReadBytes(FromPeer(p)) /\ UNCHANGED <<said, heard>>
    /\ Goto(p, "sync")
    /\ UNCHANGED <<dead, host, flaw, netting, claw, turn>>

\* (Mutant: the root generator broadcasts its own.)
SyncedOwn(p) ==
    /\ pc[p] = "sync"
    /\ \/ /\ p = Evl(0) /\ Written(ToPeer(p)) /\ EndWrite(ToPeer(p))
          /\ UNCHANGED <<said, heard>>
       \/ /\ p = Gen(0) /\ Read(FromPeer(p)) /\ Hear(FromPeer(p))
    /\ Goto(p, "private")
    /\ UNCHANGED <<dead, host, flaw, netting, claw, turn>>

\* The root is through and broadcasts what it has.
Synced(p) ==
    /\ pc[p] = "sync"
    /\ \/ /\ p = Evl(0) /\ Written(ToPeer(p)) /\ EndWrite(ToPeer(p))
          /\ UNCHANGED <<claw, said, heard>>
       \/ /\ p = Gen(0) /\ Read(FromPeer(p)) /\ Hear(FromPeer(p))
          /\ claw' = [claw EXCEPT ![p] = Message(FromPeer(p))]
    /\ Goto(p, "private")
    /\ UNCHANGED <<dead, host, flaw, netting, turn>>

Running == {"private", "start", "talk", "done"}

\* A slave's MPI_Bcast returns once its root has called it.
Bcast(p) ==
    LET root == <<Job(p), 0>> IN
    /\ pc[p] = "clawfree" /\ p \notin Roots /\ pc[root] \in Running
    /\ claw' = [claw EXCEPT ![p] = claw[root]]
    /\ Goto(p, "private")
    /\ UNCHANGED <<dead, host, flaw, netting, turn>>
    /\ Silent

-----------------------------------------------------------------------------
(***************************************************************************)
(* start(): message by message, one end writes and the other reads.        *)
(***************************************************************************)
Current(p) == Traffic[node_rank(p)][turn[p] + 1]

Talk(p) ==
    /\ pc[p] = "start" /\ turn[p] < Len(Traffic[node_rank(p)])
    /\ \/ /\ Current(p).by = Job(p) /\ Write(ToPeer(p), Current(p).bytes)
       \/ /\ Current(p).by # Job(p) /\ ReadBytes(FromPeer(p)) /\ UNCHANGED <<said, heard>>
    /\ Goto(p, "talk")
    /\ UNCHANGED <<dead, host, flaw, netting, claw, turn>>

Talked(p) ==
    /\ pc[p] = "talk"
    /\ \/ /\ Current(p).by = Job(p) /\ Written(ToPeer(p)) /\ EndWrite(ToPeer(p))
          /\ UNCHANGED <<said, heard>>
       \/ /\ Current(p).by # Job(p) /\ Read(FromPeer(p)) /\ Hear(FromPeer(p))
    /\ turn' = [turn EXCEPT ![p] = @ + 1]
    /\ Goto(p, "start")
    /\ UNCHANGED <<dead, host, flaw, netting, claw>>

Done(p) ==
    /\ pc[p] = "start" /\ turn[p] = Len(Traffic[node_rank(p)])
    /\ Goto(p, "done")
    /\ UNCHANGED <<dead, host, flaw, netting, claw, turn>>
    /\ Silent

-----------------------------------------------------------------------------
(***************************************************************************)
(* The sockets at work, for processes that are alive.                      *)
(***************************************************************************)
NetStep(p) ==
    /\ \E l \in Links : (l.from = p /\ Send(l)) \/ (l.to = p /\ Recv(l))
    /\ UNCHANGED <<pc, dead, host, flaw, netting, claw, turn, said, heard>>

\* The connection to a job that is gone is reset: what was on its way is lost.
ConnectionReset(p) ==
    /\ \E l \in Links : l.to = p /\ Job(l.from) \in dead /\ Reset(l)
    /\ UNCHANGED <<pc, dead, host, flaw, netting, claw, turn, said, heard>>

\* Writing to it raises SIGPIPE.
BrokenPipe(p) ==
    /\ \E l \in Links : l.from = p /\ Job(l.to) \in dead /\ out[l].pend # <<>>
    /\ dead' = dead \cup {Job(p)}
    /\ UNCHANGED <<pc, host, flaw, netting, claw, turn>>
    /\ Silent

Step(p) ==
    /\ Job(p) \notin dead
    /\ \/ Gather(p) \/ IpListen(p) \/ IpAccept(p) \/ IpWritten(p) \/ Listen(p) \/ Accept(p)
       \/ Connect(p) \/ Refused(p) \/ IpRead(p) \/ Scatter(p) \/ Scattered(p)
       \/ CheckParams(p) \/ ReadPrivate(p) \/ Abort(p) \/ SyncClawFree(p) \/ Synced(p) \/ Bcast(p)
       \/ Talk(p) \/ Talked(p) \/ Done(p)
       \/ NetStep(p)

Fault(p) == Job(p) \notin dead /\ (ConnectionReset(p) \/ BrokenPipe(p))

AllDone == \A p \in Process : pc[p] = "done"

\* Nothing more to do, or a job has ended and the other may wait for it for ever.
Finished == (AllDone \/ dead # {}) /\ UNCHANGED vars

Next == (\E p \in Process : Step(p) \/ Fault(p)) \/ Finished

Spec == Init /\ [][Next]_vars /\ \A p \in Process : WF_vars(Step(p))

-----------------------------------------------------------------------------
(***************************************************************************)
(* Whatever pieces the kernel makes of the messages, and whenever a job    *)
(* ends, the messages read from a connection are the first of those        *)
(* written to it, whole and in order (write_bytes, read_bytes, my_read).   *)
(***************************************************************************)
WholeMessages == \A l \in Links : IsPrefix(heard[l], said[l])

(***************************************************************************)
(* A process is only ever connected to the process of the other party that *)
(* has its rank, although addresses pass through gather, a socket and      *)
(* scatter, and processes may share a host (init_network).                 *)
(***************************************************************************)
Partners ==
    \A p, q \in Process :
        remote[p] = q => Job(p) # Job(q) /\ node_rank(p) = node_rank(q)

(***************************************************************************)
(* A process that starts the protocol uses the root evaluator's claw-free  *)
(* collection, read from a socket or broadcast (init_environ).             *)
(***************************************************************************)
SameClawFree ==
    \A p \in Process : pc[p] \in Running => claw[p] = claw[Evl(0)]

\* A reason for a job to end: a flaw that Abort has met, or all attempts made.
Excused ==
    \/ \E p \in Process : Job(p) \in dead /\ pc[p] = flaw[Job(p)]
    \/ \E p \in Process : tries[p] = MAX_TRIES

(***************************************************************************)
(* The parties do not wait for each other: either the protocol runs to its *)
(* end, or a job has ended early.  And one ends early only for a reason:   *)
(* parameters or files that MPI_Abort is for, or a generator that has made *)
(* all its attempts to connect before its partner listened (ClientSocket). *)
(* Of the job that is left nothing is asked: my_read may loop for ever on  *)
(* a connection that is closed.                                            *)
(***************************************************************************)
Started == <>(AllDone \/ (dead # {} /\ Excused))
=============================================================================
