------------------------------- MODULE Daemon -------------------------------
(***************************************************************************)
(* The parent process of proxy_remote (and of proxy_local, which differs   *)
(* only in having no ctcp_port): it accepts connections up to a maximum,   *)
(* forks a child for each, counts them in con_cnt, and counts them out     *)
(* again in its SIGCHLD handler, which may run between any two of its      *)
(* instructions.  A child binds the port it was given, negotiates under an *)
(* alarm, waits for a SYN without one, serves, and exits.                  *)
(***************************************************************************)
EXTENDS Integers, FiniteSets

CONSTANTS max_con_cnt,
          START_PORT,
          MaxForks     \* bound: children forked in all

ASSUME DaemonAssumption ==
  max_con_cnt \in Nat \ {0} /\ START_PORT \in Nat /\ MaxForks \in Nat

VARIABLES
  con_cnt, ctcp_port,
  loop,      \* the parent: "top" of its loop, in "accept", at "fork", after it
             \* ("load" and "store" are the halves of ++con_cnt), "exited"
  reg,       \* what ++con_cnt has loaded and incremented
  forked,    \* children forked so far; they are 1..forked
  stage,     \* of a child: "none", "new", "neg", "listen", "serve", "zombie", "reaped"
  port,      \* the port a child was given
  sigchld    \* a SIGCHLD is pending

dvars == <<con_cnt, ctcp_port, loop, reg, forked, stage, port, sigchld>>
parent   == <<con_cnt, ctcp_port, loop, reg, forked>>

Children == 1..MaxForks
In(S)    == {c \in Children : stage[c] \in S}
Live     == In({"new", "neg", "listen", "serve"})

DaemonInit ==
  /\ con_cnt = 0 /\ ctcp_port = START_PORT
  /\ loop = "top" /\ reg = 0 /\ forked = 0
  /\ stage = [c \in Children |-> "none"]
  /\ port = [c \in Children |-> START_PORT]
  /\ sigchld = FALSE
-----------------------------------------------------------------------------
(* A bug MaxRespected must notice: one connection too many.                *)
BelowMaxOrEqual == con_cnt <= max_con_cnt

(* The test at the top of the loop; at the maximum it sleeps a second and  *)
(* tests again.                                                            *)
BelowMax == con_cnt < max_con_cnt

Top ==
  /\ loop = "top" /\ BelowMax
  /\ loop' = "accept"
  /\ UNCHANGED <<con_cnt, ctcp_port, reg, forked, stage, port, sigchld>>

(* A connection comes; the filter refuses it, or not.  accept() may fail.  *)
Accept ==
  /\ loop = "accept"
  /\ loop' \in {"top", "fork"}
  /\ UNCHANGED <<con_cnt, ctcp_port, reg, forked, stage, port, sigchld>>

ForkFails ==
  /\ loop = "fork"
  /\ loop' = "top"
  /\ UNCHANGED <<con_cnt, ctcp_port, reg, forked, stage, port, sigchld>>

Fork ==
  /\ loop = "fork" /\ forked < MaxForks
  /\ forked' = forked + 1
  /\ stage' = [stage EXCEPT ![forked'] = "new"]
  /\ port' = [port EXCEPT ![forked'] = ctcp_port]
  /\ loop' = "load"
  /\ UNCHANGED <<con_cnt, ctcp_port, reg, sigchld>>

(* ++con_cnt loads, adds and stores: con_cnt is a plain int that the       *)
(* handler changes too.                                                    *)
Load ==
  /\ loop = "load"
  /\ reg' = con_cnt + 1 /\ loop' = "store"
  /\ UNCHANGED <<con_cnt, ctcp_port, forked, stage, port, sigchld>>

(* The rest of the condition: || leaves ctcp_port alone at the maximum.    *)
(* MAX_PORT only makes it log.                                             *)
Store ==
  /\ loop = "store"
  /\ con_cnt' = reg
  /\ ctcp_port' = IF reg >= max_con_cnt THEN ctcp_port ELSE ctcp_port + 1
  /\ loop' = "top"
  /\ UNCHANGED <<reg, forked, stage, port, sigchld>>

(* A bug ZombiesReaped must notice: if instead of while around waitpid, so *)
(* that of two children that exit together one is reaped.                  *)
OneWaited(z) == IF z = {} THEN {{}} ELSE {{c} : c \in z}

(* The children that waitpid returns in the handler's loop.                *)
Waited(z) == {z}

(* SIGCHLD: accept() and sleep() return early, EINTR.                      *)
handle_sig ==
  /\ sigchld /\ loop # "exited"
  /\ sigchld' = FALSE
  /\ \E w \in Waited(In({"zombie"})) :
       /\ stage' = [c \in Children |-> IF c \in w THEN "reaped" ELSE stage[c]]
       /\ con_cnt' = con_cnt - Cardinality(w)
  /\ loop' = IF loop = "accept" THEN "top" ELSE loop
  /\ UNCHANGED <<ctcp_port, reg, forked, port>>

(* SIGTERM: the parent exits and leaves its children alone.                *)
Terminate ==
  /\ loop # "exited"
  /\ loop' = "exited"
  /\ UNCHANGED <<con_cnt, ctcp_port, reg, forked, stage, port, sigchld>>
-----------------------------------------------------------------------------
Step(c, from, to) ==
  /\ stage[c] = from
  /\ stage' = [stage EXCEPT ![c] = to]
  /\ sigchld' = (sigchld \/ to = "zombie")
  /\ UNCHANGED <<parent, port>>

Bound(p) == \E c \in In({"neg", "listen", "serve"}) : port[c] = p

(* open_srvctcp binds the port, or fails if somebody has it, and the child *)
(* exits.                                                                  *)
Open(c) ==
  \/ ~Bound(port[c]) /\ Step(c, "new", "neg")
  \/ Bound(port[c]) /\ Step(c, "new", "zombie")

(* The negotiation succeeds; or it fails, or SIGALRM ends it.              *)
Negotiate(c) == Step(c, "neg", "listen") \/ Step(c, "neg", "zombie")

(* listen_srvctcp gets its first packet, a SYN or something else.          *)
Listen(c) == Step(c, "listen", "serve") \/ Step(c, "listen", "zombie")

Finish(c) == Step(c, "serve", "zombie")

AcceptLoop == Top \/ Accept \/ ForkFails \/ Fork \/ Load \/ Store

DaemonNext ==
  \/ AcceptLoop
  \/ handle_sig
  \/ Terminate
  \/ \E c \in Children : Open(c) \/ Negotiate(c) \/ Listen(c) \/ Finish(c)

DaemonSpec == DaemonInit /\ [][DaemonNext]_dvars

(* A pending signal is handled; nobody has to connect, or to finish.       *)
DaemonFairSpec == DaemonSpec /\ WF_dvars(handle_sig)
-----------------------------------------------------------------------------
(* Types: con_cnt may be below zero for a moment, when a child exits       *)
(* before it has been counted.                                             *)
TypeOK ==
  /\ con_cnt \in Int /\ reg \in Int /\ ctcp_port \in Nat
  /\ loop \in {"top", "accept", "fork", "load", "store", "exited"}
  /\ forked \in 0..MaxForks
  /\ stage \in [Children -> {"none", "new", "neg", "listen", "serve", "zombie", "reaped"}]
  /\ \A c \in Children : (c > forked) <=> (stage[c] = "none")
  /\ port \in [Children -> Nat] /\ sigchld \in BOOLEAN

(* Whatever the handler does to con_cnt between two instructions of the    *)
(* accept loop, the daemon never has more than max_con_cnt children.       *)
MaxRespected == Cardinality(Live) <= max_con_cnt

(* Every child that exits is reaped, although signals of children that     *)
(* exit close together are merged into one.                                *)
ZombiesReaped ==
  \A c \in Children : stage[c] = "zombie" ~> (stage[c] = "reaped" \/ loop = "exited")

(* What the accept loop's comment says: it turns connections away only     *)
(* while it works with the maximum number of them.                         *)
FullOnlyWhenFull ==
  loop = "top" /\ ~BelowMax => Cardinality(Live \cup In({"zombie"})) >= max_con_cnt

(* The port given to a child is nobody's.                                  *)
PortIsFree == \A c \in Children : stage[c] = "new" => ~Bound(port[c])
=============================================================================
