------------------------------ MODULE Acceptor ------------------------------
(***************************************************************************)
(* The Acceptor of a TcpServer (net/core/Acceptor.cpp) and the table of    *)
(* file descriptors of its process.  When accept finds the table full the  *)
(* handler gives up idleFd_, accepts one client into its place, closes it  *)
(* and opens idleFd_ again.  These are separate system calls: any thread   *)
(* of the process may open or close a file between two of them.            *)
(*                                                                         *)
(* The descriptors of connections belong to the module that extends this   *)
(* one; the operators below take their number, `open`, as a parameter.     *)
(* MaxFds is what the limit of the process leaves for connections, for     *)
(* idleFd_ and for the rest of the program.                                *)
(***************************************************************************)
EXTENDS Naturals

CONSTANTS
  MaxFds,         \* the size of the table
  MaxClients,     \* bound: the clients that ever connect
  MaxOthers       \* bound: the descriptors other code holds at a time

ASSUME MaxFdsAssumption == MaxFds \in Nat \ {0}
ASSUME ClientsAssumption == MaxClients \in Nat /\ MaxOthers \in Nat

VARIABLES
  listening_,     \* Acceptor::listening_
  idleFd_,        \* is idleFd_ an open descriptor?
  acceptPc,       \* how far handleRead is, see AcceptPcs
  backlog,        \* the clients that wait to be accepted
  arrived,        \* the clients that have connected so far
  others          \* the descriptors other code holds

acceptorVars == <<listening_, idleFd_, acceptPc, backlog, arrived, others>>

\* Outside handleRead; before its second accept, with idleFd_ closed; before
\* it opens idleFd_ again.
AcceptPcs == {"idle", "refuse", "reopen"}

\* The constructor, whose open("/dev/null") finds the table empty.
AcceptorInit ==
  /\ listening_ = FALSE
  /\ idleFd_ = TRUE
  /\ acceptPc = "idle"
  /\ backlog = 0
  /\ arrived = 0
  /\ others = 0

FreeFds(open) == MaxFds - (open + others + (IF idleFd_ THEN 1 ELSE 0))

Listen ==
  /\ listening_' = TRUE
  /\ UNCHANGED <<idleFd_, acceptPc, backlog, arrived, others>>

\* The listening socket is readable.
HasClient == listening_ /\ backlog > 0

\* handleRead when accept succeeds: the rest of it is newConnectionCallback_.
Accept(open) ==
  /\ acceptPc = "idle"
  /\ FreeFds(open) > 0
  /\ backlog' = backlog - 1
  /\ UNCHANGED <<listening_, idleFd_, acceptPc, arrived, others>>

\* Mutant of IdleAfterClose: the reserve is not given up.
KeepsIdle == idleFd_

\* close(idleFd_)
IdleAfterClose == FALSE

\* handleRead when accept fails with EMFILE, up to close(idleFd_).
TableFull(open) ==
  /\ acceptPc = "idle"
  /\ FreeFds(open) = 0
  /\ idleFd_' = IdleAfterClose
  /\ acceptPc' = "refuse"
  /\ UNCHANGED <<listening_, backlog, arrived, others>>

\* The second accept, and the close of what it returned: a client is turned
\* away, unless another thread was faster.
Refuse(open) ==
  /\ acceptPc = "refuse"
  /\ backlog' = IF FreeFds(open) > 0 THEN backlog - 1 ELSE backlog
  /\ acceptPc' = "reopen"
  /\ UNCHANGED <<listening_, idleFd_, arrived, others>>

\* open("/dev/null"), which fails when the table is full again.
Reopen(open) ==
  /\ acceptPc = "reopen"
  /\ idleFd_' = (idleFd_ \/ FreeFds(open) > 0)
  /\ acceptPc' = "idle"
  /\ UNCHANGED <<listening_, backlog, arrived, others>>

\* ~Acceptor, and ~Socket of the listening socket.
CloseAcceptor ==
  /\ listening_' = FALSE
  /\ idleFd_' = FALSE
  /\ backlog' = 0
  /\ UNCHANGED <<acceptPc, arrived, others>>

\* A client connects: the kernel completes the handshake.
ClientArrives ==
  /\ listening_
  /\ arrived < MaxClients
  /\ arrived' = arrived + 1
  /\ backlog' = backlog + 1
  /\ UNCHANGED <<listening_, idleFd_, acceptPc, others>>

\* Other code of the process opens and closes files.
OtherOpens(open) ==
  /\ others < MaxOthers
  /\ FreeFds(open) > 0
  /\ others' = others + 1
  /\ UNCHANGED <<listening_, idleFd_, acceptPc, backlog, arrived>>

OtherCloses ==
  /\ others > 0
  /\ others' = others - 1
  /\ UNCHANGED <<listening_, idleFd_, acceptPc, backlog, arrived>>

\* The type of every variable; the table is never overfull.
AcceptorTypeOK(open) ==
  /\ listening_ \in BOOLEAN
  /\ idleFd_ \in BOOLEAN
  /\ acceptPc \in AcceptPcs
  /\ arrived \in 0 .. MaxClients
  /\ backlog \in 0 .. arrived
  /\ others \in 0 .. MaxOthers
  /\ FreeFds(open) \in 0 .. MaxFds
=============================================================================
