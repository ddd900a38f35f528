------------------------------- MODULE Chain --------------------------------
(***************************************************************************)
(* ILibBaseChain: the links the microstack thread calls in rounds of       *)
(* PreSelect, select and PostSelect, how links join and leave a running    *)
(* chain (ILibChain_SafeAdd, ILibChain_SafeRemove), and how it ends.       *)
(*                                                                         *)
(* The base Timer is the first link and stands for itself: what SafeAdd    *)
(* and SafeRemove hand over are its timers of 0 ms, "requests", which it   *)
(* runs in its PreSelect in the order of the calls (module LifeTime).      *)
(* Threads follow the rules of the API: a link is added once, removed only *)
(* after it was added, and nothing is asked of a chain that was stopped.   *)
(***************************************************************************)
EXTENDS Naturals, Sequences, SequencesExt

CONSTANTS
  Client,       \* threads of the application
  Microstack,   \* the thread that runs ILibStartChain
  Link,         \* objects that extend ILibChain
  MaxRequests   \* bound: requests that wait at a time

ASSUME ChainAssumption == Microstack \notin Client /\ MaxRequests \in Nat

Thread  == Client \cup {Microstack}
Request == [op : {"add", "remove"}, link : Link]

VARIABLES
  links,     \* the links after the base Timer
  requests,  \* SafeData on the list of the base Timer
  batch,     \* those its PreSelect has taken off
  added,     \* links handed to AddToChain or SafeAdd
  dead,      \* links whose Destroy was called
  dropped,   \* history: links whose addition ended with the chain
  polled,    \* links that filled the fd sets of this round
  pc, pos,   \* where the microstack thread is
  timed,     \* does the Timer limit the block time of this round?
  pipe,      \* is a byte in the terminate pipe?
  TerminateFlag,
  stopper    \* the threads inside ILibStopChain, past its first statement

vars == <<links, requests, batch, added, dead, dropped, polled, pc, pos, timed, pipe,
          TerminateFlag, stopper>>

Location == {"created", "check", "sinks", "pre", "block", "select", "drain",
             "post", "destroy", "ended"}

Init ==
  /\ links = <<>> /\ requests = <<>> /\ batch = <<>>
  /\ added = {} /\ dead = {} /\ dropped = {} /\ polled = {}
  /\ pc = "created" /\ pos = 1
  /\ timed = FALSE /\ pipe = FALSE /\ TerminateFlag = FALSE /\ stopper = {}

(* The application runs on the microstack thread inside the PreSelect and   *)
(* PostSelect of a link, and in timed callbacks of the base Timer.          *)
Runs(t) == /\ t \notin stopper
           /\ ~TerminateFlag
           /\ t = Microstack => pc = "sinks" \/ (pc \in {"pre", "post"} /\ pos > 1)

PipeIsOpen == pc \notin {"created", "ended"}

WakesIfBusy(queue) == queue # <<>>
WakesChain(queue) == queue = <<>>

FoundBeforeLast(l) == {i \in 1 .. Len(links) - 1 : links[i] = l}
Found(l) == {i \in 1 .. Len(links) : links[i] = l}

StillLinked(i) == links
CutOff(i) == SubSeq(links, 1, i - 1)
Unlinked(i) == RemoveAt(links, i)

AddedBy(queue) == {l \in Link : [op |-> "add", link |-> l] \in Range(queue)}

UnblocksFirst(step) == step = 2
SetsFlag(step) == step = 1
-----------------------------------------------------------------------------
(* Calls of the application                                                 *)

AddToChain(l) ==
  /\ pc = "created" /\ l \notin added /\ ~TerminateFlag
  /\ links' = Append(links, l)
  /\ added' = added \cup {l}
  /\ UNCHANGED <<requests, batch, dead, dropped, polled, pc, pos, timed, pipe,
                 TerminateFlag, stopper>>

Ask(op, l) ==
  /\ Len(requests) < MaxRequests
  /\ requests' = Append(requests, [op |-> op, link |-> l])
  /\ pipe' = (pipe \/ (WakesChain(requests) /\ PipeIsOpen))
  /\ UNCHANGED <<links, batch, dead, dropped, polled, pc, pos, timed, TerminateFlag, stopper>>

SafeAdd(t, l) ==
  /\ Runs(t) /\ l \notin added
  /\ added' = added \cup {l}
  /\ Ask("add", l)

SafeRemove(t, l) ==
  /\ Runs(t) /\ l \in added
  /\ UNCHANGED added
  /\ Ask("remove", l)

(* ILibStopChain is two statements.                                         *)
Stop(t, step) ==
  /\ TerminateFlag' = (TerminateFlag \/ SetsFlag(step))
  /\ pipe' = (pipe \/ (~SetsFlag(step) /\ PipeIsOpen))
  /\ UNCHANGED <<links, requests, batch, added, dead, dropped, polled, pc, pos, timed>>

StopChain(t) ==
  /\ Runs(t) /\ stopper = {}
  /\ stopper' = {t}
  /\ Stop(t, 1)

StopChainReturns(t) ==
  /\ t \in stopper
  /\ stopper' = {}
  /\ Stop(t, 2)
-----------------------------------------------------------------------------
(* ILibStartChain.  While application code runs on its thread the chain     *)
(* waits for it.                                                            *)

Free == Microstack \notin stopper

(* The test of the loop; the fd sets are cleared for a new round.           *)
Round ==
  /\ polled' = {}
  /\ pos' = 1
  /\ pc' = IF TerminateFlag THEN "destroy" ELSE "check"

Start ==
  /\ pc = "created" /\ Round
  /\ UNCHANGED <<links, requests, batch, added, dead, dropped, timed, pipe, TerminateFlag, stopper>>

(* PreSelect of the base Timer                                              *)
Check ==
  /\ pc = "check"
  /\ batch' = requests
  /\ requests' = <<>>
  /\ pc' = "sinks"
  /\ UNCHANGED <<links, added, dead, dropped, polled, pos, timed, pipe, TerminateFlag, stopper>>

SafeAddSink ==
  /\ pc = "sinks" /\ Free /\ batch # <<>> /\ Head(batch).op = "add"
  /\ links' = Append(links, Head(batch).link)
  /\ batch' = Tail(batch)
  /\ UNCHANGED <<requests, added, dead, dropped, polled, pc, pos, timed, pipe, TerminateFlag, stopper>>

SafeRemoveSink ==
  /\ pc = "sinks" /\ Free /\ batch # <<>> /\ Head(batch).op = "remove"
  /\ LET l == Head(batch).link
     IN  \/ Found(l) = {} /\ UNCHANGED <<links, dead>>
         \/ \E i \in Found(l) : links' = Unlinked(i) /\ dead' = dead \cup {l}
  /\ batch' = Tail(batch)
  /\ UNCHANGED <<requests, added, dropped, polled, pc, pos, timed, pipe, TerminateFlag, stopper>>

CheckDone ==
  /\ pc = "sinks" /\ Free /\ batch = <<>>
  /\ timed' = (requests # <<>>)
  /\ pc' = "pre"
  /\ UNCHANGED <<links, requests, batch, added, dead, dropped, polled, pos, pipe, TerminateFlag, stopper>>

(* One call of a link; its own code may ask for more before the next step.  *)
PreSelect ==
  /\ pc = "pre" /\ Free /\ pos <= Len(links)
  /\ polled' = polled \cup {links[pos]}
  /\ pos' = pos + 1
  /\ UNCHANGED <<links, requests, batch, added, dead, dropped, pc, timed, pipe, TerminateFlag, stopper>>

PreSelectDone ==
  /\ pc = "pre" /\ Free /\ pos > Len(links)
  /\ pos' = 1 /\ pc' = "select"
  /\ UNCHANGED <<links, requests, batch, added, dead, dropped, polled, timed, pipe, TerminateFlag, stopper>>

SelectReturns ==
  /\ pc = "select"
  /\ pipe \/ timed
  /\ pc' = IF pipe THEN "drain" ELSE "post"
  /\ UNCHANGED <<links, requests, batch, added, dead, dropped, polled, pos, timed, pipe,
                 TerminateFlag, stopper>>

(* A socket of a link, or its block time.                                   *)
LinkReady ==
  /\ pc = "select" /\ ~pipe /\ polled # {}
  /\ pc' = "post"
  /\ UNCHANGED <<links, requests, batch, added, dead, dropped, polled, pos, timed, pipe,
                 TerminateFlag, stopper>>

DrainPipe ==
  /\ pc = "drain"
  /\ pipe' = FALSE
  /\ pc' = "post"
  /\ UNCHANGED <<links, requests, batch, added, dead, dropped, polled, pos, timed,
                 TerminateFlag, stopper>>

PostSelect ==
  /\ pc = "post" /\ Free /\ pos <= Len(links)
  /\ pos' = pos + 1
  /\ UNCHANGED <<links, requests, batch, added, dead, dropped, polled, pc, timed, pipe,
                 TerminateFlag, stopper>>

PostSelectDone ==
  /\ pc = "post" /\ Free /\ pos > Len(links)
  /\ Round
  /\ UNCHANGED <<links, requests, batch, added, dead, dropped, timed, pipe, TerminateFlag, stopper>>

(* The Timer is destroyed first, and the requests on its list with it.      *)
Destroy ==
  /\ pc = "destroy"
  /\ requests' = <<>>
  /\ dropped' = dropped \cup AddedBy(requests)
  /\ IF pos <= Len(links)
     THEN dead' = dead \cup {links[pos]} /\ pos' = pos + 1 /\ UNCHANGED <<links, pc>>
     ELSE links' = <<>> /\ pos' = 1 /\ pc' = "ended" /\ UNCHANGED dead
  /\ UNCHANGED <<batch, added, polled, timed, pipe, TerminateFlag, stopper>>
-----------------------------------------------------------------------------
Application(t) ==
  \/ \E l \in Link : SafeAdd(t, l) \/ SafeRemove(t, l)
  \/ StopChain(t)

Sinks == SafeAddSink \/ SafeRemoveSink

ChainSteps ==
  \/ Start \/ Check \/ Sinks \/ CheckDone \/ PreSelect \/ PreSelectDone
  \/ SelectReturns \/ DrainPipe \/ PostSelect \/ PostSelectDone \/ Destroy

Next ==
  \/ \E l \in Link : AddToChain(l)
  \/ \E t \in Thread : Application(t) \/ StopChainReturns(t)
  \/ ChainSteps \/ LinkReady

Spec == Init /\ [][Next]_vars

(* Threads run when they can, and links do not block.                       *)
FairSpec ==
  /\ Spec
  /\ WF_vars(ChainSteps)
  /\ \A t \in Thread : WF_vars(StopChainReturns(t))
-----------------------------------------------------------------------------
TypeOK ==
  /\ links \in Seq(Link)
  /\ requests \in Seq(Request) /\ Len(requests) <= MaxRequests
  /\ batch \in Seq(Request) /\ Len(batch) <= MaxRequests
  /\ added \subseteq Link /\ dead \subseteq added /\ polled \subseteq added
  /\ pc \in Location /\ pos \in 1 .. Len(links) + 1
  /\ timed \in BOOLEAN /\ pipe \in BOOLEAN /\ TerminateFlag \in BOOLEAN
  /\ stopper \subseteq Thread

(* PostSelect gets the fd sets its link filled in the PreSelect of the same *)
(* round, although links come and go while the chain runs.                  *)
PostSelectAfterPreSelect ==
  pc \in {"select", "drain", "post"} => Range(links) \subseteq polled

(* select never sleeps over a request, nor over the stop of the chain: its  *)
(* time is limited, or a byte is in the pipe, or on its way from another    *)
(* thread.                                                                  *)
SelectIsWoken ==
  pc = "select" =>
    /\ requests # <<>> => timed \/ pipe
    /\ TerminateFlag => pipe \/ stopper \cap Client # {}

(* A link is on the chain once, and not after it was destroyed and freed:   *)
(* it is destroyed once however removals and the end of the chain meet.     *)
LinksAreLive ==
  /\ IsInjective(links)
  /\ \A i \in DOMAIN links :
       links[i] \in dead => pc = "destroy" /\ i < pos

(* No link gets lost between SafeAdd, SafeRemove and the end of the chain,  *)
(* but those whose addition was still waiting when the chain ended: only    *)
(* their SafeData is freed.                                                 *)
LinksAccounted ==
  added = UNION {Range(links), AddedBy(requests), AddedBy(batch), dead, dropped}

(* A removed link goes, even one whose addition still waits.                *)
RemovedLinksGo ==
  \A l \in Link :
    [op |-> "remove", link |-> l] \in Range(requests) ~> (l \in dead \/ TerminateFlag)

(* ILibStopChain ends the chain with every link on it destroyed, whatever   *)
(* the microstack thread is doing when it is called.                        *)
StopEndsChain ==
  TerminateFlag ~> /\ pc = "ended"
                   /\ links = <<>>
=============================================================================
