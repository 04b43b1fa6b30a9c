------------------------------ MODULE TypeMux ------------------------------
(***************************************************************************)
(* The event multiplexer (src/model/event/event.go): Post delivers an      *)
(* event to the subscriptions of its type, each over an unbuffered         *)
(* channel, while others subscribe, unsubscribe and stop the mux.          *)
(*                                                                         *)
(* A step is what runs between two points where a goroutine can block: the *)
(* three locks (mux.mutex, and closeMu and postMu of a subscription) and   *)
(* the select of deliver.                                                  *)
(***************************************************************************)
EXTENDS Integers, FiniteSets, Sequences, SequencesExt

CONSTANTS
    Types,         \* event types
    Subs,          \* subscriptions that are ever made
    Posters,       \* goroutines that post
    Unsubscribers, \* goroutines that unsubscribe
    Stopper,       \* the goroutine that stops the mux
    NoOne,         \* holder of a free lock
    MaxPosts       \* bound on the events each poster posts

ASSUME TypeMuxAssumption ==
    /\ MaxPosts \in Nat
    /\ NoOne \notin Unsubscribers \cup {Stopper}
    /\ Stopper \notin Unsubscribers

Closers == Unsubscribers \cup {Stopper}

Events == [type: Types, poster: Posters, number: 1..MaxPosts]

VARIABLES
    subm,     \* mux.subm: the subscriptions of each type
    stopped,  \* mux.stopped
    muxMu,    \* the holder of mux.mutex over a blocking operation
    made,     \* the types of a subscription, {} before Subscribe
    closed,   \* s.closed and the closing of s.closing
    postC,    \* "open" channel, "closed" channel, or "nil" (closed and cleared)
    closeMu,  \* the holder of s.closeMu
    readers,  \* the holders of s.postMu for reading
    writer,   \* someone waits for s.postMu for writing: no new readers
    busy,     \* the receiver of s handles an event and does not receive
    posts,    \* the number of Post calls of each poster
    event,    \* the event of the last Post call of each poster
    todo,     \* the subscriptions it still delivers the event to
    target,   \* the subscription a closer closes, or NoOne
    phase,    \* where in closewait it is, "idle" outside
    stopping, \* the subscriptions Stop still has to close
    panicked, \* a channel was closed twice, or sent to when closed
    received, \* history: the events each receiver got
    quiet,    \* history: the subscriptions some closewait has returned for
    posted    \* history: the subscriptions each event was posted to

muxVars   == <<subm, stopped, muxMu, made>>
subVars   == <<closed, postC, closeMu, writer>>
postVars  == <<posts, event, todo>>
closeVars == <<target, phase, stopping>>
vars      == <<muxVars, subVars, readers, busy, postVars, closeVars, panicked,
               received, quiet, posted>>

TypeOK ==
    /\ subm \in [Types -> Seq(Subs)]
    /\ stopped \in BOOLEAN
    /\ muxMu \in {NoOne, Stopper}
    /\ made \in [Subs -> SUBSET Types]
    /\ closed \in [Subs -> BOOLEAN]
    /\ postC \in [Subs -> {"open", "closed", "nil"}]
    /\ closeMu \in [Subs -> Closers \cup {NoOne}]
    /\ readers \in [Subs -> SUBSET Posters]
    /\ writer \in [Subs -> BOOLEAN]
    /\ busy \in [Subs -> BOOLEAN]
    /\ posts \in [Posters -> 0..MaxPosts]
    /\ event \in [Posters -> Events \cup {NoOne}]
    /\ todo \in [Posters -> Seq(Subs)]
    /\ target \in [Closers -> Subs \cup {NoOne}]
    /\ phase \in [Closers -> {"idle", "close", "ask", "finish"}]
    /\ stopping \subseteq Subs
    /\ panicked \in BOOLEAN
    /\ received \in [Subs -> Seq(Events)]
    /\ quiet \subseteq Subs
    /\ posted \in [Posters -> [1..MaxPosts -> SUBSET Subs]]

Init ==
    /\ subm = [t \in Types |-> <<>>]
    /\ stopped = FALSE
    /\ muxMu = NoOne
    /\ made = [s \in Subs |-> {}]
    /\ closed = [s \in Subs |-> FALSE]
    /\ postC = [s \in Subs |-> "open"]
    /\ closeMu = [s \in Subs |-> NoOne]
    /\ readers = [s \in Subs |-> {}]
    /\ writer = [s \in Subs |-> FALSE]
    /\ busy = [s \in Subs |-> FALSE]
    /\ posts = [p \in Posters |-> 0]
    /\ event = [p \in Posters |-> NoOne]
    /\ todo = [p \in Posters |-> <<>>]
    /\ target = [c \in Closers |-> NoOne]
    /\ phase = [c \in Closers |-> "idle"]
    /\ stopping = {}
    /\ panicked = FALSE
    /\ received = [s \in Subs |-> <<>>]
    /\ quiet = {}
    /\ posted = [p \in Posters |-> [n \in 1..MaxPosts |-> {}]]

-----------------------------------------------------------------------------
(* Mutant: a subscription is registered twice for its types. *)
SubscribeTwice(s, T) ==
    /\ ~panicked /\ made[s] = {} /\ muxMu = NoOne /\ ~stopped
    /\ made' = [made EXCEPT ![s] = T]
    /\ subm' = [t \in Types |-> IF t \in T THEN subm[t] \o <<s, s>> ELSE subm[t]]
    /\ UNCHANGED <<stopped, muxMu, subVars, readers, busy, postVars, closeVars, panicked,
                   received, quiet, posted>>

(* Subscribe for the types T.  On a stopped mux it only closes the channel.
   (A caller that names a type twice gets a panic; T names each once.)     *)
Subscribe(s, T) ==
    /\ ~panicked /\ made[s] = {} /\ muxMu = NoOne
    /\ made' = [made EXCEPT ![s] = T]
    /\ \/ /\ ~stopped
          /\ subm' = [t \in Types |-> IF t \in T THEN Append(subm[t], s) ELSE subm[t]]
          /\ UNCHANGED postC
       \/ /\ stopped
          /\ postC' = [postC EXCEPT ![s] = "closed"]
          /\ UNCHANGED subm
    /\ UNCHANGED <<stopped, muxMu, closed, closeMu, writer, readers, busy, postVars,
                   closeVars, panicked, received, quiet,
                   posted>>

(* Post reads the subscriptions of the type under the lock and lets it go
   before it delivers.  After Stop it returns ErrMuxClosed.                *)
Post(p, t) ==
    LET n == posts[p] + 1
        e == [type |-> t, poster |-> p, number |-> n]
    IN  /\ ~panicked /\ todo[p] = <<>> /\ posts[p] < MaxPosts /\ muxMu = NoOne
        /\ posts' = [posts EXCEPT ![p] = n]
        /\ event' = [event EXCEPT ![p] = e]
        /\ \/ /\ ~stopped
              /\ todo' = [todo EXCEPT ![p] = subm[t]]
              /\ posted' = [posted EXCEPT ![p][n] = ToSet(subm[t])]
           \/ /\ stopped
              /\ UNCHANGED <<todo, posted>>
        /\ UNCHANGED <<muxVars, subVars, readers, busy, closeVars, panicked, received,
                       quiet>>

(* deliver takes postMu for reading; a waiting writer goes first. *)
DeliverLock(p) ==
    /\ ~panicked /\ todo[p] # <<>>
    /\ LET s == Head(todo[p])
       IN  /\ p \notin readers[s] /\ ~writer[s]
           /\ readers' = [readers EXCEPT ![s] = @ \cup {p}]
    /\ UNCHANGED <<muxVars, subVars, busy, postVars, closeVars, panicked, received, quiet,
                   posted>>

(* The select sends when the receiver receives.  A nil channel is never
   ready, a closed one always is, and panics.  Then deliver unlocks and Post
   goes on.                                                                *)
DeliverSend(p) ==
    /\ ~panicked /\ todo[p] # <<>>
    /\ LET s == Head(todo[p])
       IN  /\ p \in readers[s]
           /\ postC[s] = "closed" \/ (postC[s] = "open" /\ ~busy[s])
           /\ panicked' = (postC[s] = "closed")
           /\ busy' = [busy EXCEPT ![s] = TRUE]
           /\ received' = [received EXCEPT ![s] = Append(@, event[p])]
           /\ readers' = [readers EXCEPT ![s] = @ \ {p}]
           /\ todo' = [todo EXCEPT ![p] = Tail(@)]
    /\ UNCHANGED <<muxVars, subVars, posts, event, closeVars, quiet, posted>>

(* Mutant: the select has a default case and drops the event if the receiver
   is busy.                                                                *)
DeliverDefault(p) ==
    /\ ~panicked /\ todo[p] # <<>>
    /\ LET s == Head(todo[p])
       IN  /\ p \in readers[s] /\ (closed[s] \/ busy[s])
           /\ readers' = [readers EXCEPT ![s] = @ \ {p}]
           /\ todo' = [todo EXCEPT ![p] = Tail(@)]
    /\ UNCHANGED <<muxVars, subVars, busy, posts, event, closeVars, panicked, received,
                   quiet, posted>>

(* Mutant: the select does not listen to s.closing. *)
DeliverStubborn(p) == FALSE /\ DeliverDefault(p)

(* The select returns without sending once s.closing is closed. *)
DeliverClosing(p) ==
    /\ ~panicked /\ todo[p] # <<>>
    /\ LET s == Head(todo[p])
       IN  /\ p \in readers[s] /\ closed[s]
           /\ readers' = [readers EXCEPT ![s] = @ \ {p}]
           /\ todo' = [todo EXCEPT ![p] = Tail(@)]
    /\ UNCHANGED <<muxVars, subVars, busy, posts, event, closeVars, panicked, received,
                   quiet, posted>>

(* The receiver is done with an event and receives again. *)
Handle(s) ==
    /\ ~panicked /\ busy[s]
    /\ busy' = [busy EXCEPT ![s] = FALSE]
    /\ UNCHANGED <<muxVars, subVars, readers, postVars, closeVars, panicked, received, quiet,
                   posted>>

-----------------------------------------------------------------------------
(* The first position of an item in a slice, 0 if it is not there. *)
find(slice, item) ==
    LET at == {i \in 1..Len(slice) : slice[i] = item}
    IN  IF at = {} THEN 0 ELSE CHOOSE i \in at : \A j \in at : i <= j

(* del takes the subscription out of one slice of subm. *)
del(slice, s) ==
    LET pos == find(slice, s)
    IN  IF pos = 0 THEN slice ELSE RemoveAt(slice, pos)

(* Unsubscribe first removes the subscription from all types: it makes new
   slices, the ones that Post has read stay as they are.                   *)
Unsubscribe(c, s) ==
    /\ ~panicked /\ phase[c] = "idle" /\ made[s] # {} /\ muxMu = NoOne
    /\ subm' = [t \in Types |-> del(subm[t], s)]
    /\ target' = [target EXCEPT ![c] = s]
    /\ phase' = [phase EXCEPT ![c] = "close"]
    /\ UNCHANGED <<stopped, muxMu, made, subVars, readers, busy, postVars, stopping, panicked,
                   received, quiet, posted>>

(* closewait returns to its caller. *)
CloseReturns(c) ==
    /\ phase' = [phase EXCEPT ![c] = "idle"]
    /\ target' = [target EXCEPT ![c] = NoOne]
    /\ quiet' = quiet \cup {target[c]}

(* Mutant: closewait does not wait for the deliveries. *)
CloseUnwaited(c) ==
    /\ ~panicked /\ phase[c] = "close"
    /\ closed' = [closed EXCEPT ![target[c]] = TRUE]
    /\ CloseReturns(c)
    /\ UNCHANGED <<muxVars, postC, closeMu, writer, readers, busy, postVars, stopping,
                   panicked, received, posted>>

(* Mutant: closewait does not look at s.closed. *)
CloseAgain(c) ==
    /\ ~panicked /\ phase[c] = "close"
    /\ LET s == target[c]
       IN  /\ closeMu[s] = NoOne
           /\ closeMu' = [closeMu EXCEPT ![s] = c]
           /\ closed' = [closed EXCEPT ![s] = TRUE]
           /\ phase' = [phase EXCEPT ![c] = "ask"]
           /\ UNCHANGED <<target, quiet>>
    /\ UNCHANGED <<muxVars, postC, writer, readers, busy, postVars, stopping, panicked,
                   received, posted>>

(* closewait locks closeMu.  If somebody has closed the subscription, that is
   all; otherwise it closes s.closing, which lets deliveries return.       *)
CloseStart(c) ==
    /\ ~panicked /\ phase[c] = "close"
    /\ LET s == target[c]
       IN  /\ closeMu[s] = NoOne
           /\ \/ /\ closed[s]
                 /\ CloseReturns(c)
                 /\ UNCHANGED <<closeMu, closed>>
              \/ /\ ~closed[s]
                 /\ closeMu' = [closeMu EXCEPT ![s] = c]
                 /\ closed' = [closed EXCEPT ![s] = TRUE]
                 /\ phase' = [phase EXCEPT ![c] = "ask"]
                 /\ UNCHANGED <<target, quiet>>
    /\ UNCHANGED <<muxVars, postC, writer, readers, busy, postVars, stopping, panicked,
                   received, posted>>

(* It asks for postMu: from now on no delivery starts. *)
CloseAsk(c) ==
    /\ ~panicked /\ phase[c] = "ask"
    /\ writer' = [writer EXCEPT ![target[c]] = TRUE]
    /\ phase' = [phase EXCEPT ![c] = "finish"]
    /\ UNCHANGED <<muxVars, closed, postC, closeMu, readers, busy, postVars, target, stopping,
                   panicked, received, quiet, posted>>

(* It gets postMu when the last delivery has returned, and closes the
   channel and clears it.  Closing a closed or a cleared one panics.       *)
CloseFinish(c) ==
    /\ ~panicked /\ phase[c] = "finish"
    /\ LET s == target[c]
       IN  /\ readers[s] = {}
           /\ panicked' = (postC[s] # "open")
           /\ postC' = [postC EXCEPT ![s] = IF @ = "open" THEN "nil" ELSE @]
           /\ writer' = [writer EXCEPT ![s] = FALSE]
           /\ closeMu' = [closeMu EXCEPT ![s] = NoOne]
    /\ CloseReturns(c)
    /\ UNCHANGED <<muxVars, closed, readers, busy, postVars, stopping, received, posted>>

(* Stop holds mux.mutex while it closes every subscription, in no particular
   order.                                                                  *)
Stop ==
    /\ ~panicked /\ phase[Stopper] = "idle" /\ muxMu = NoOne
    /\ muxMu' = Stopper
    /\ stopping' = UNION {ToSet(subm[t]) : t \in Types}
    /\ UNCHANGED <<subm, stopped, made, subVars, readers, busy, postVars, target, phase,
                   panicked, received, quiet, posted>>

StopNext(s) ==
    /\ ~panicked /\ phase[Stopper] = "idle" /\ s \in stopping
    /\ target' = [target EXCEPT ![Stopper] = s]
    /\ phase' = [phase EXCEPT ![Stopper] = "close"]
    /\ stopping' = stopping \ {s}
    /\ UNCHANGED <<muxVars, subVars, readers, busy, postVars, panicked, received, quiet,
                   posted>>

StopReturns ==
    /\ ~panicked /\ phase[Stopper] = "idle" /\ muxMu = Stopper /\ stopping = {}
    /\ subm' = [t \in Types |-> <<>>]
    /\ stopped' = TRUE
    /\ muxMu' = NoOne
    /\ UNCHANGED <<made, subVars, readers, busy, postVars, closeVars, panicked, received,
                   quiet, posted>>

-----------------------------------------------------------------------------
Deliver(p) == DeliverLock(p) \/ DeliverSend(p) \/ DeliverClosing(p)

Close(c) == CloseStart(c) \/ CloseAsk(c) \/ CloseFinish(c)

FinishStop == StopReturns \/ \E s \in Subs : StopNext(s)

Next ==
    \/ \E s \in Subs, T \in SUBSET Types \ {{}} : Subscribe(s, T)
    \/ \E p \in Posters, t \in Types : Post(p, t)
    \/ \E p \in Posters : Deliver(p)
    \/ \E s \in Subs : Handle(s)
    \/ \E c \in Unsubscribers, s \in Subs : Unsubscribe(c, s)
    \/ \E c \in Closers : Close(c)
    \/ Stop
    \/ FinishStop

Spec == Init /\ [][Next]_vars

(* The scheduler runs every goroutine that is not blocked; nobody has to call
   an operation and no receiver has to receive.                            *)
Fairness ==
    /\ \A p \in Posters : WF_vars(Deliver(p))
    /\ \A c \in Closers : WF_vars(Close(c))
    /\ WF_vars(FinishStop)

FairSpec == Spec /\ Fairness

-----------------------------------------------------------------------------
(* However Post, Unsubscribe (called more than once) and Stop overlap, no
   channel is closed twice and nothing is sent on a closed one, as long as
   nobody has subscribed to a stopped mux.  (Subscribe gives such a caller a
   closed channel that closewait closes again; every other channel goes
   straight from open to nil.  The panic of a Subscribe that names a type
   twice is its caller's and is not among these.)                          *)
PanicsOnlyIfLate == panicked => \E s \in Subs : postC[s] = "closed"

(* Once closewait has returned to an Unsubscribe or a Stop, the receiver gets
   nothing more: also for the caller that found the subscription closed by
   somebody else and for a Post that has read it before.                   *)
QuietAfterClose == [][\A s \in quiet : received'[s] = received[s]]_vars

(* Events of one poster reach a receiver in the order they were posted, each
   at most once and only if it subscribed to their type.                   *)
InOrder ==
    \A s \in Subs : \A i \in 1..Len(received[s]) :
        /\ received[s][i].type \in made[s]
        /\ \A j \in 1..(i - 1) :
              received[s][j].poster = received[s][i].poster =>
                  received[s][j].number < received[s][i].number

(* When Post returns, every subscription it was posted to has the event or
   has been closed: an Unsubscribe of one receiver costs no other an event. *)
NoMissed ==
    \A p \in Posters : \A n \in 1..posts[p] : \A s \in posted[p][n] :
        \/ closed[s]
        \/ n = posts[p] /\ s \in ToSet(todo[p])
        \/ \E i \in 1..Len(received[s]) :
              received[s][i].poster = p /\ received[s][i].number = n

(* Every Unsubscribe and every Stop returns, even if no receiver ever takes
   an event off its channel.                                               *)
CloseTerminates ==
    /\ \A c \in Closers : phase[c] # "idle" ~> phase[c] = "idle" \/ panicked
    /\ muxMu = Stopper ~> muxMu = NoOne \/ panicked

(* Every Post returns if every receiver is done with each event in the end. *)
PostTerminates ==
    (\A s \in Subs : []<>~busy[s]) =>
        \A p \in Posters : todo[p] # <<>> ~> todo[p] = <<>> \/ panicked
=============================================================================
