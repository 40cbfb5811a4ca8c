------------------------- MODULE DirectSessionProofs -------------------------
(***************************************************************************)
(* The session is correct for any number of threads, signatures, feeds and *)
(* fetches, and for every choice of who calls it, which graphs wait and    *)
(* whether a step may time out.  The inductive invariant says, for each    *)
(* thread, what its place in a call has to do with its RunState, with the  *)
(* step's executors and with the books of a partial run.                   *)
(***************************************************************************)
EXTENDS DirectSession, TLAPS

\* Where the call of a thread has a RunState, and where it is before that.
InStep == {"lookup", "check", "send", "receive", "finish", "wait", "cancel",
           "collect", "count", "free", "join"}
BeforeStep == {"idle", "find", "create", "insert", "start"}

RunPlaces     == BeforeStep \cup {"wait", "cancel", "collect", "count", "free",
                                  "join", "done"}
PartialPlaces == BeforeStep \cup (InStep \ {"collect", "count"})
                            \cup {"ready", "done"}

Places        == Outside \cup BeforeStep \cup InStep \cup {"mark", "destroy"}

\* Which places the threads of each kind reach; the owner has the session for
\* itself from the moment it begins to destroy it.
PlaceInv ==
    /\ \A t \in Runs : pc[t] \in RunPlaces
    /\ \A t \in Partials : pc[t] \in PartialPlaces
    /\ pc[Owner] \in {"idle", "mark", "destroy", "done"}
    /\ pc[Owner] # "idle" => \A t \in Clients \cup Closers : pc[t] \in Outside
    /\ destroyed => pc[Owner] = "done" /\ partial_runs = {}

\* The life of a RunState: who may have one, and the step that goes with it.
LifeInv(t) ==
    LET r == run_state[t] IN
    /\ r.alive <=> r.step # "none"
    /\ r.executors_done <=> r.step = "ended"
    /\ pc[t] \in InStep => r.alive
    /\ r.alive => pc[t] \in InStep \cup {"ready"}
    /\ pc[t] = "ready" /\ pc[Owner] \in {"idle", "mark"} => r.alive
    /\ t \in Partials => (r.alive <=> t \in partial_runs)
    /\ r.alive \/ pc[t] = "start" =>
          ek[t] # Nobody /\ executors[Signature[t]] = ek[t]

\* Where the errors of a Run come from.
ErrorInv(t) ==
    LET r == run_state[t] IN
    /\ r.step \in {"notify", "ended"} /\ r.status = "OK" => r.error = "OK"
    /\ r.status = "Internal" \/ r.rendez = "Internal" => r.error = "Internal"
    /\ "Cancelled" \in {r.status, r.rendez, r.error} => cancelled
    /\ r.dead \subseteq r.sent /\ r.sent \subseteq FetchesOf(t)
    /\ pc[t] \in {"wait", "cancel", "collect"} => r.received = {}
    /\ pc[t] = "cancel" => r.status # "OK"
    /\ pc[t] = "collect" /\ r.status = "OK" => r.step = "ended"
    /\ pc[t] \in {"collect", "count", "free"} /\ r.step # "ended" => cancelled

\* What the status of a Run says of its step.
OutcomeInv(t) ==
    LET r == run_state[t] IN
    pc[t] \in {"count", "free", "join"} =>
        /\ result[t] = "OK" =>
              /\ r.step = "ended" /\ r.error = "OK" /\ r.status = "OK"
              /\ r.received = FetchesOf(t) /\ r.dead = {}
        /\ result[t] = "Internal" => r.error = "Internal"
        /\ result[t] = "Cancelled" => cancelled

\* The books of a partial run at each place of a PRun.
BooksInv(t) ==
    LET r == run_state[t]
        c == args[t] IN
    /\ pc[t] \in {"ready", "lookup", "check", "send"} /\ r.alive =>
          /\ r.pending_inputs = FeedsOf(t) \ r.fed
          /\ FeedsOf(t) \cup FetchesOf(t) # {} =>
                r.pending_inputs \cup r.pending_outputs # {}
    /\ pc[t] \in {"ready", "lookup", "check", "send", "receive"} /\ r.alive =>
          r.pending_outputs = FetchesOf(t) \ r.received
    /\ pc[t] \in {"check", "send", "receive"} =>
          c.fetches \subseteq r.pending_outputs
    /\ pc[t] = "send" =>
          \A f \in c.fetches : Needs[f] \cap (r.pending_inputs \ c.feeds) = {}
    /\ pc[t] = "receive" =>
          \A f \in c.fetches : Needs[f] \cap (FeedsOf(t) \ r.fed) = {}
    /\ pc[t] = "receive" \/ (pc[t] = "finish" /\ result[t] = "OK") =>
          r.pending_inputs \ c.feeds = FeedsOf(t) \ r.fed
    /\ pc[t] = "finish" /\ result[t] = "OK" =>
          r.pending_outputs \ c.fetches = FetchesOf(t) \ r.received

ThreadInv(t) == /\ LifeInv(t)
                /\ t \in Runs => ErrorInv(t) /\ OutcomeInv(t)
                /\ t \in Partials => BooksInv(t)

IInv == TypeOK /\ PlaceInv /\ \A t \in Clients : ThreadInv(t)

-----------------------------------------------------------------------------
\* Nothing that the invariant of thread u speaks of changes, except that the
\* session may be cancelled and that executors may be added for other keys.
Untouched(u) ==
    /\ run_state'[u] = run_state[u]
    /\ pc'[u] = pc[u] /\ ek'[u] = ek[u] /\ result'[u] = result[u]
    /\ u \in Partials => args'[u] = args[u]
    /\ u \in partial_runs' <=> u \in partial_runs
    /\ cancelled => cancelled'
    /\ executors[Signature[u]] # Nobody =>
          executors'[Signature[u]] = executors[Signature[u]]
    /\ pc'[Owner] \in {"idle", "mark"} => pc[Owner] \in {"idle", "mark"}

\* A thread whose part of the session a step leaves alone keeps its invariant.
LEMMA UntouchedInv ==
    ASSUME NEW u \in Clients, ThreadInv(u), Untouched(u)
    PROVE  ThreadInv(u)'
<1>1. LifeInv(u)'
  BY DEF ThreadInv, Untouched, LifeInv
<1>2. ASSUME u \in Runs PROVE ErrorInv(u)' /\ OutcomeInv(u)'
  BY <1>2 DEF ThreadInv, Untouched, ErrorInv, OutcomeInv, FetchesOf
<1>3. ASSUME u \in Partials PROVE BooksInv(u)'
  BY <1>3 DEF ThreadInv, Untouched, BooksInv, FeedsOf, FetchesOf
<1> QED
  BY <1>1, <1>2, <1>3 DEF ThreadInv

\* Who is who among the threads.
LEMMA Kinds ==
    /\ \A t \in Clients : t \in Threads /\ t # Owner /\ t \notin Closers
    /\ \A t \in Clients : (t \in Runs \/ t \in Partials) /\ Signature[t] \in Signatures
    /\ \A t \in Runs : t \in Clients /\ t \notin Partials
    /\ \A t \in Partials : t \in Clients /\ t \notin Runs
    /\ Owner \in Threads /\ Owner \notin Closers /\ Closers \subseteq Threads
  BY SessionAssumption DEF Threads, Clients

\* What a thread is fed and fetches is made of feeds and fetches.
LEMMA FeedsAndFetches ==
    ASSUME NEW t \in Clients
    PROVE  /\ FeedsOf(t) \subseteq AllFeeds
           /\ FetchesOf(t) \subseteq AllFetches
  BY Kinds DEF FeedsOf, FetchesOf, AllFeeds, AllFetches

\* A session that nobody has called yet satisfies the invariant.
LEMMA InitInv == Init => IInv
<1> SUFFICES ASSUME Init PROVE IInv
  OBVIOUS
<1>1. NoRunState \in RunStateType
  BY DEF NoRunState, RunStateType, Status
<1>2. TypeOK
  BY <1>1, Kinds DEF Init, TypeOK, Outside, Status
<1>3. PlaceInv
  BY Kinds DEF Init, PlaceInv, RunPlaces, PartialPlaces, BeforeStep, Outside
<1>4. ASSUME NEW t \in Clients PROVE ThreadInv(t)
  <2>1. run_state[t] = NoRunState /\ pc[t] = "idle"
    BY Kinds DEF Init
  <2>2. LifeInv(t)
    BY <2>1 DEF LifeInv, NoRunState, InStep, Init
  <2>3. ErrorInv(t) /\ OutcomeInv(t)
    BY <2>1 DEF ErrorInv, OutcomeInv, NoRunState
  <2>4. BooksInv(t)
    BY <2>1 DEF BooksInv, NoRunState
  <2> QED
    BY <2>2, <2>3, <2>4 DEF ThreadInv
<1> QED
  BY <1>2, <1>3, <1>4 DEF IInv

-----------------------------------------------------------------------------
\* A client that moves inside a call: the owner has not begun to destroy the
\* session, and the places stay as they should be.
LEMMA ClientMoves ==
    ASSUME IInv, NEW t \in Clients, NEW l,
           pc[t] \notin Outside \/ pc[Owner] = "idle",
           pc' = [pc EXCEPT ![t] = l],
           t \in Runs => l \in RunPlaces,
           t \in Partials => l \in PartialPlaces,
           destroyed' = destroyed
    PROVE  /\ PlaceInv'
           /\ pc'[t] = l /\ \A u \in Threads \ {t} : pc'[u] = pc[u]
           /\ pc[Owner] = "idle" /\ pc'[Owner] = "idle" /\ ~destroyed
           /\ pc' \in [Threads -> Places]
<1>1. pc[Owner] = "idle" /\ ~destroyed
  BY Kinds DEF IInv, PlaceInv
<1>2. pc \in [Threads -> Places]
  BY DEF IInv, TypeOK, Places, BeforeStep, InStep, Outside
<1>3. pc'[t] = l /\ \A u \in Threads \ {t} : pc'[u] = pc[u]
  BY <1>2, Kinds
<1>4. l \in Places
  BY Kinds DEF Places, RunPlaces, PartialPlaces, BeforeStep, InStep, Outside
<1>5. pc' \in [Threads -> Places]
  BY <1>2, <1>4
<1>6. PlaceInv'
  BY <1>1, <1>3, Kinds DEF IInv, PlaceInv
<1> QED
  BY <1>1, <1>3, <1>5, <1>6, Kinds

\* The invariant after a step of thread t.
LEMMA ClientStep ==
    ASSUME IInv, NEW t \in Clients, TypeOK', PlaceInv', ThreadInv(t)',
           \A u \in Clients \ {t} : Untouched(u)
    PROVE  IInv'
  BY UntouchedInv DEF IInv

\* Run or PRunSetup is called; on a closed session it returns at once.
LEMMA EnterStep == ASSUME IInv, NEW t \in Clients, Enter(t) PROVE IInv'
<1>1. PICK l \in {"done", "find"} : pc' = [pc EXCEPT ![t] = l]
  BY DEF Enter, Return, Goto
<1>2. /\ pc[t] = "idle" /\ pc[Owner] = "idle"
      /\ result' = result \/ result' = [result EXCEPT ![t] = "Cancelled"]
      /\ UNCHANGED <<shared, run_state, ek, args, filled, options, destroyed>>
  BY DEF Enter, Return
<1>3. /\ PlaceInv' /\ pc'[Owner] = "idle"
      /\ pc'[t] = l /\ \A u \in Threads \ {t} : pc'[u] = pc[u]
  BY <1>1, <1>2, ClientMoves DEF RunPlaces, PartialPlaces, BeforeStep
<1>4. TypeOK'
  BY <1>1, <1>2, ClientMoves
     DEF IInv, TypeOK, shared, Status, Places, RunPlaces, PartialPlaces,
         BeforeStep, InStep
<1>5. \A u \in Clients \ {t} : Untouched(u)
  BY <1>2, <1>3, Kinds DEF IInv, TypeOK, Untouched, shared
<1>6. ThreadInv(t)
  BY DEF IInv
<1>7. LifeInv(t)'
  BY <1>2, <1>3, <1>6 DEF ThreadInv, LifeInv, InStep, shared
<1>8. ASSUME t \in Runs PROVE ErrorInv(t)' /\ OutcomeInv(t)'
  BY <1>2, <1>3, <1>6, <1>8 DEF ThreadInv, ErrorInv, OutcomeInv, shared, FetchesOf
<1>9. BooksInv(t)'
  BY <1>3 DEF BooksInv
<1> QED
  BY <1>3, <1>4, <1>5, <1>7, <1>8, <1>9, ClientStep DEF ThreadInv

\* executors_ is looked up.
LEMMA FindExecutorsStep ==
    ASSUME IInv, NEW t \in Clients, FindExecutors(t) PROVE IInv'
<1>1. PICK l \in {"create", "start"} :
          /\ pc' = [pc EXCEPT ![t] = l]
          /\ l = "start" => ek'[t] # Nobody
  BY DEF FindExecutors, Goto
<1>2. /\ pc[t] = "find"
      /\ ek' = [ek EXCEPT ![t] = executors[Signature[t]]]
      /\ UNCHANGED <<shared, run_state, args, result, filled, options, destroyed>>
  BY DEF FindExecutors
<1>3. /\ PlaceInv' /\ pc'[Owner] = "idle"
      /\ pc'[t] = l /\ \A u \in Threads \ {t} : pc'[u] = pc[u]
  BY <1>1, <1>2, ClientMoves DEF RunPlaces, PartialPlaces, BeforeStep, Outside
<1>4. TypeOK'
  BY <1>1, <1>2, ClientMoves, Kinds
     DEF IInv, TypeOK, shared, Places, RunPlaces, PartialPlaces, BeforeStep,
         InStep, Outside
<1>5. ek'[t] = executors[Signature[t]] /\ \A u \in Clients \ {t} : ek'[u] = ek[u]
  BY <1>2 DEF IInv, TypeOK
<1>6. \A u \in Clients \ {t} : Untouched(u)
  BY <1>2, <1>3, <1>5, Kinds DEF Untouched, shared
<1>7. ThreadInv(t)
  BY DEF IInv
<1>8. LifeInv(t)'
  BY <1>1, <1>2, <1>3, <1>5, <1>7 DEF ThreadInv, LifeInv, InStep, shared
<1>9. ASSUME t \in Runs PROVE ErrorInv(t)' /\ OutcomeInv(t)'
  BY <1>2, <1>3, <1>7, <1>9 DEF ThreadInv, ErrorInv, OutcomeInv, shared, FetchesOf
<1>10. BooksInv(t)'
  BY <1>3 DEF BooksInv
<1> QED
  BY <1>3, <1>4, <1>6, <1>8, <1>9, <1>10, ClientStep DEF ThreadInv

\* The executors are created, or creating them fails.
LEMMA CreateExecutorsStep ==
    ASSUME IInv, NEW t \in Clients, CreateExecutors(t) PROVE IInv'
<1>1. PICK l \in {"insert", "done"} : pc' = [pc EXCEPT ![t] = l]
  BY DEF CreateExecutors, Return, Goto
<1>2. /\ pc[t] = "create"
      /\ result' = result \/ result' = [result EXCEPT ![t] = "InvalidArgument"]
      /\ UNCHANGED <<shared, run_state, ek, args, filled, options, destroyed>>
  BY DEF CreateExecutors, Return
<1>3. /\ PlaceInv' /\ pc'[Owner] = "idle" /\ pc' \in [Threads -> Places]
      /\ pc'[t] = l /\ \A u \in Threads \ {t} : pc'[u] = pc[u]
  BY <1>1, <1>2, ClientMoves DEF RunPlaces, PartialPlaces, BeforeStep, Outside
<1>4. TypeOK'
  BY <1>2, <1>3
     DEF IInv, TypeOK, shared, Status, Places, BeforeStep, InStep, Outside
<1>5. \A u \in Clients \ {t} : Untouched(u)
  BY <1>2, <1>3, Kinds DEF IInv, TypeOK, Untouched, shared
<1>6. ThreadInv(t)
  BY DEF IInv
<1>7. LifeInv(t)'
  BY <1>2, <1>3, <1>6 DEF ThreadInv, LifeInv, InStep, shared
<1>8. ASSUME t \in Runs PROVE ErrorInv(t)' /\ OutcomeInv(t)'
  BY <1>2, <1>3, <1>6, <1>8 DEF ThreadInv, ErrorInv, OutcomeInv, shared, FetchesOf
<1>9. BooksInv(t)'
  BY <1>3 DEF BooksInv
<1> QED
  BY <1>3, <1>4, <1>5, <1>7, <1>8, <1>9, ClientStep DEF ThreadInv

\* The executors are inserted unless another thread has done so; no entry of
\* executors_ that a step may be using is replaced.
LEMMA InsertExecutorsStep ==
    ASSUME IInv, NEW t \in Clients, InsertExecutors(t) PROVE IInv'
<1> DEFINE k == Signature[t]
<1>1. /\ pc[t] = "insert" /\ pc' = [pc EXCEPT ![t] = "start"]
      /\ UNCHANGED <<closed, cancelled, lock, partial_runs, run_state, args,
                     result, filled, options, destroyed>>
      /\ ek' = [ek EXCEPT ![t] = executors'[k]]
      /\ executors' = [executors EXCEPT ![k] = IF @ = Nobody THEN t ELSE @]
  BY DEF InsertExecutors, Goto
<1>2. /\ PlaceInv' /\ pc'[Owner] = "idle" /\ pc' \in [Threads -> Places]
      /\ pc'[t] = "start" /\ \A u \in Threads \ {t} : pc'[u] = pc[u]
  BY <1>1, ClientMoves DEF RunPlaces, PartialPlaces, BeforeStep, Outside
<1>3. /\ k \in Signatures /\ t # Nobody
      /\ executors \in [Signatures -> Clients \cup {Nobody}]
      /\ ek \in [Clients -> Clients \cup {Nobody}]
  BY Kinds, SessionAssumption DEF IInv, TypeOK
<1>4. /\ executors'[k] # Nobody /\ executors'[k] \in Clients \cup {Nobody}
      /\ \A j \in Signatures : executors[j] # Nobody => executors'[j] = executors[j]
      /\ executors' \in [Signatures -> Clients \cup {Nobody}]
  BY <1>1, <1>3
<1>5. /\ ek'[t] = executors'[k] /\ \A u \in Clients \ {t} : ek'[u] = ek[u]
      /\ ek' \in [Clients -> Clients \cup {Nobody}]
  BY <1>1, <1>3, <1>4
<1>6. TypeOK'
  BY <1>1, <1>2, <1>4, <1>5
     DEF IInv, TypeOK, Places, BeforeStep, InStep, Outside
<1>7. \A u \in Clients \ {t} : Untouched(u)
  BY <1>1, <1>2, <1>4, <1>5, Kinds DEF Untouched
<1>8. ThreadInv(t)
  BY DEF IInv
<1>9. LifeInv(t)'
  BY <1>1, <1>2, <1>4, <1>5, <1>8 DEF ThreadInv, LifeInv, InStep
<1>10. ASSUME t \in Runs PROVE ErrorInv(t)' /\ OutcomeInv(t)'
  BY <1>1, <1>2, <1>8, <1>10 DEF ThreadInv, ErrorInv, OutcomeInv, FetchesOf
<1>11. BooksInv(t)'
  BY <1>2 DEF BooksInv
<1> QED
  BY <1>2, <1>6, <1>7, <1>9, <1>10, <1>11, ClientStep DEF ThreadInv

\* The RunState of a step that begins.
LEMMA StartedFacts ==
    ASSUME NEW t \in Clients, NEW fs \in SUBSET FeedsOf(t)
    PROVE  LET r == Started(t, fs) IN
           /\ r \in RunStateType
           /\ r.alive /\ r.step = "running" /\ ~r.executors_done
           /\ r.status = "OK" /\ r.rendez = "OK" /\ r.error = "OK"
           /\ r.sent = {} /\ r.dead = {} /\ r.received = {} /\ r.fed = fs
           /\ r.pending_inputs = FeedsOf(t) /\ r.pending_outputs = FetchesOf(t)
  BY FeedsAndFetches DEF Started, NoRunState, RunStateType, Status

\* Run starts its step, with everything fed.
LEMMA StartRunStep == ASSUME IInv, NEW t \in Clients, StartRun(t) PROVE IInv'
<1> DEFINE r == Started(t, FeedsOf(t))
<1>1. /\ t \in Runs /\ pc[t] = "start" /\ pc' = [pc EXCEPT ![t] = "wait"]
      /\ run_state' = [run_state EXCEPT ![t] = r]
      /\ UNCHANGED <<shared, ek, args, result, filled, options, destroyed>>
  BY DEF StartRun, Goto
<1>2. /\ PlaceInv' /\ pc'[Owner] = "idle" /\ pc' \in [Threads -> Places]
      /\ pc'[t] = "wait" /\ \A u \in Threads \ {t} : pc'[u] = pc[u]
  BY <1>1, Kinds, ClientMoves DEF RunPlaces, BeforeStep, Outside
<1>3. /\ run_state' \in [Clients -> RunStateType]
      /\ run_state'[t] = r /\ \A u \in Clients \ {t} : run_state'[u] = run_state[u]
  BY <1>1, StartedFacts DEF IInv, TypeOK
<1>4. TypeOK'
  BY <1>1, <1>2, <1>3
     DEF IInv, TypeOK, shared, Places, BeforeStep, InStep, Outside
<1>5. \A u \in Clients \ {t} : Untouched(u)
  BY <1>1, <1>2, <1>3, Kinds DEF Untouched, shared
<1>6. ThreadInv(t)
  BY DEF IInv
<1> HIDE DEF r
<1>7. /\ r.alive /\ r.step = "running" /\ ~r.executors_done
      /\ r.status = "OK" /\ r.rendez = "OK" /\ r.error = "OK"
      /\ r.sent = {} /\ r.dead = {} /\ r.received = {}
  BY StartedFacts DEF r
<1>8. LifeInv(t)'
  BY <1>1, <1>2, <1>3, <1>6, <1>7, Kinds DEF ThreadInv, LifeInv, InStep, shared
<1>9. ErrorInv(t)' /\ OutcomeInv(t)'
  BY <1>2, <1>3, <1>7 DEF ErrorInv, OutcomeInv
<1> QED
  BY <1>1, <1>2, <1>4, <1>5, <1>8, <1>9, Kinds, ClientStep DEF ThreadInv

\* PRunSetup starts a step that has been fed nothing, and returns its handle.
LEMMA StartPartialRunStep ==
    ASSUME IInv, NEW t \in Clients, StartPartialRun(t) PROVE IInv'
<1> DEFINE r == Started(t, {})
<1>1. /\ t \in Partials /\ pc[t] = "start" /\ pc' = [pc EXCEPT ![t] = "ready"]
      /\ run_state' = [run_state EXCEPT ![t] = r]
      /\ partial_runs' = partial_runs \cup {t}
      /\ result' = [result EXCEPT ![t] = "OK"]
      /\ UNCHANGED <<closed, cancelled, lock, executors, ek, args, filled,
                     options, destroyed>>
  BY DEF StartPartialRun, Goto, Return
<1>2. /\ PlaceInv' /\ pc'[Owner] = "idle" /\ pc' \in [Threads -> Places]
      /\ pc'[t] = "ready" /\ \A u \in Threads \ {t} : pc'[u] = pc[u]
  BY <1>1, Kinds, ClientMoves DEF PartialPlaces, BeforeStep, Outside
<1>3. /\ run_state' \in [Clients -> RunStateType]
      /\ run_state'[t] = r /\ \A u \in Clients \ {t} : run_state'[u] = run_state[u]
  BY <1>1, StartedFacts DEF IInv, TypeOK
<1>4. TypeOK'
  BY <1>1, <1>2, <1>3
     DEF IInv, TypeOK, Places, BeforeStep, InStep, Outside, Status
<1>5. \A u \in Clients \ {t} : Untouched(u)
  BY <1>1, <1>2, <1>3, Kinds DEF IInv, TypeOK, Untouched
<1>6. ThreadInv(t)
  BY DEF IInv
<1> HIDE DEF r
<1>7. /\ r.alive /\ r.step = "running" /\ ~r.executors_done
      /\ r.received = {} /\ r.fed = {}
      /\ r.pending_inputs = FeedsOf(t) /\ r.pending_outputs = FetchesOf(t)
  BY StartedFacts DEF r
<1>8. LifeInv(t)'
  BY <1>1, <1>2, <1>3, <1>6, <1>7 DEF ThreadInv, LifeInv, InStep
<1>9. BooksInv(t)'
  BY <1>2, <1>3, <1>7 DEF BooksInv
<1> QED
  BY <1>1, <1>2, <1>4, <1>5, <1>8, <1>9, Kinds, ClientStep DEF ThreadInv

-----------------------------------------------------------------------------
\* A step of the executors changes the RunState of thread t only, and neither
\* its life nor its books.
LEMMA ExecutorsInv ==
    ASSUME IInv, NEW t \in Clients, NEW r \in RunStateType,
           Update(t, r), filled' \in BOOLEAN,
           run_state[t].step # "none", r.step # "none",
           r.executors_done <=> r.step = "ended",
           r.alive = run_state[t].alive, r.fed = run_state[t].fed,
           r.received = run_state[t].received,
           r.pending_inputs = run_state[t].pending_inputs,
           r.pending_outputs = run_state[t].pending_outputs,
           t \in Runs => ErrorInv(t)' /\ OutcomeInv(t)'
    PROVE  IInv'
<1>1. /\ run_state' \in [Clients -> RunStateType]
      /\ run_state'[t] = r /\ \A u \in Clients \ {t} : run_state'[u] = run_state[u]
      /\ UNCHANGED <<shared, ek, args, pc, result, options, destroyed>>
  BY DEF IInv, TypeOK, Update
<1>2. TypeOK'
  BY <1>1 DEF IInv, TypeOK, shared
<1>3. PlaceInv'
  BY <1>1 DEF IInv, PlaceInv, shared
<1>4. \A u \in Clients \ {t} : Untouched(u)
  BY <1>1 DEF Untouched, shared
<1>5. ThreadInv(t)
  BY DEF IInv
<1>6. LifeInv(t)'
  BY <1>1, <1>5 DEF ThreadInv, LifeInv, shared
<1>7. ASSUME t \in Partials PROVE BooksInv(t)'
  BY <1>1, <1>5, <1>7 DEF ThreadInv, BooksInv, FeedsOf, FetchesOf
<1> QED
  BY <1>2, <1>3, <1>4, <1>6, <1>7, ClientStep DEF ThreadInv

\* The type of a thread's RunState.
LEMMA RunStateTyped ==
    ASSUME IInv, NEW t \in Clients
    PROVE  run_state[t] \in RunStateType
  BY DEF IInv, TypeOK

\* An output is sent: only ever one of the step's fetches.
LEMMA SendOutputStep ==
    ASSUME IInv, NEW t \in Clients, NEW f \in FetchesOf(t), SendOutput(t, f)
    PROVE  IInv'
<1>1. PICK dead \in {{}, {f} \cap MayBeDead} :
         Update(t, [run_state[t] EXCEPT !.sent = @ \cup {f},
                                        !.dead = @ \cup dead])
  BY DEF SendOutput
<1> DEFINE r == [run_state[t] EXCEPT !.sent = @ \cup {f}, !.dead = @ \cup dead]
<1>2. run_state[t].step = "running" /\ filled' = filled
  BY DEF SendOutput
<1>3. /\ r \in RunStateType
      /\ r.sent = run_state[t].sent \cup {f} /\ r.dead = run_state[t].dead \cup dead
      /\ \A l \in DOMAIN run_state[t] \ {"sent", "dead"} : r[l] = run_state[t][l]
  BY RunStateTyped, FeedsAndFetches DEF RunStateType
<1> HIDE DEF r
<1>4. /\ r.step = run_state[t].step /\ r.alive = run_state[t].alive
      /\ r.executors_done = run_state[t].executors_done
      /\ r.fed = run_state[t].fed /\ r.received = run_state[t].received
      /\ r.pending_inputs = run_state[t].pending_inputs
      /\ r.pending_outputs = run_state[t].pending_outputs
      /\ r.status = run_state[t].status /\ r.rendez = run_state[t].rendez
      /\ r.error = run_state[t].error
  BY <1>3, RunStateTyped DEF RunStateType
<1>5. run_state'[t] = r /\ UNCHANGED <<pc, result, shared>>
  BY <1>1 DEF IInv, TypeOK, Update, r
<1>6. ThreadInv(t)
  BY DEF IInv
<1>7. ASSUME t \in Runs PROVE ErrorInv(t)' /\ OutcomeInv(t)'
  BY <1>2, <1>3, <1>4, <1>5, <1>6, <1>7
     DEF ThreadInv, LifeInv, ErrorInv, OutcomeInv, shared, FetchesOf
<1> QED
  BY <1>1, <1>2, <1>3, <1>4, <1>6, <1>7, ExecutorsInv
     DEF r, IInv, TypeOK, ThreadInv, LifeInv

\* The first error of the executors aborts the rendezvous, unless the client
\* has aborted it before.
LEMMA StepFailsStep ==
    ASSUME IInv, NEW t \in Clients, NEW e \in {"Internal", "Cancelled", "InvalidArgument"},
           StepFails(t, e)
    PROVE  IInv'
<1> DEFINE r == [run_state[t] EXCEPT !.error = e, !.rendez = First(@, e)]
<1>1. /\ Update(t, r) /\ filled' = filled
      /\ run_state[t].step = "running" /\ run_state[t].error = "OK"
      /\ e = "Cancelled" => cancelled \/ run_state[t].rendez = "Cancelled"
  BY DEF StepFails
<1>2. /\ r \in RunStateType
      /\ r.error = e /\ r.rendez = First(run_state[t].rendez, e)
      /\ \A l \in DOMAIN run_state[t] \ {"error", "rendez"} : r[l] = run_state[t][l]
  BY RunStateTyped DEF RunStateType, First, Status
<1> HIDE DEF r
<1>3. /\ r.step = run_state[t].step /\ r.alive = run_state[t].alive
      /\ r.executors_done = run_state[t].executors_done
      /\ r.fed = run_state[t].fed /\ r.received = run_state[t].received
      /\ r.pending_inputs = run_state[t].pending_inputs
      /\ r.pending_outputs = run_state[t].pending_outputs
      /\ r.status = run_state[t].status
      /\ r.sent = run_state[t].sent /\ r.dead = run_state[t].dead
  BY <1>2, RunStateTyped DEF RunStateType
<1>4. run_state'[t] = r /\ UNCHANGED <<pc, result, shared>>
  BY <1>1 DEF IInv, TypeOK, Update
<1>5. ThreadInv(t)
  BY DEF IInv
<1>6. ASSUME t \in Runs PROVE ErrorInv(t)' /\ OutcomeInv(t)'
  BY <1>1, <1>2, <1>3, <1>4, <1>5, <1>6
     DEF ThreadInv, LifeInv, ErrorInv, OutcomeInv, shared, FetchesOf, First
<1> QED
  BY <1>1, <1>2, <1>3, <1>5, <1>6, ExecutorsInv
     DEF IInv, TypeOK, ThreadInv, LifeInv

\* The last executor ends.
LEMMA StepEndsStep == ASSUME IInv, NEW t \in Clients, StepEnds(t) PROVE IInv'
<1> DEFINE r == [run_state[t] EXCEPT !.step = "update"]
<1>1. /\ Update(t, r) /\ filled' \in BOOLEAN
      /\ run_state[t].step = "running"
  BY DEF StepEnds
<1>2. /\ r \in RunStateType /\ r.step = "update"
      /\ \A l \in DOMAIN run_state[t] \ {"step"} : r[l] = run_state[t][l]
  BY RunStateTyped DEF RunStateType
<1> HIDE DEF r
<1>3. /\ r.alive = run_state[t].alive
      /\ r.executors_done = run_state[t].executors_done
      /\ r.fed = run_state[t].fed /\ r.received = run_state[t].received
      /\ r.pending_inputs = run_state[t].pending_inputs
      /\ r.pending_outputs = run_state[t].pending_outputs
      /\ r.status = run_state[t].status /\ r.rendez = run_state[t].rendez
      /\ r.error = run_state[t].error
      /\ r.sent = run_state[t].sent /\ r.dead = run_state[t].dead
  BY <1>2, RunStateTyped DEF RunStateType
<1>4. run_state'[t] = r /\ UNCHANGED <<pc, result, shared>>
  BY <1>1 DEF IInv, TypeOK, Update
<1>5. ThreadInv(t)
  BY DEF IInv
<1>6. ASSUME t \in Runs PROVE ErrorInv(t)' /\ OutcomeInv(t)'
  BY <1>1, <1>2, <1>3, <1>4, <1>5, <1>6
     DEF ThreadInv, ErrorInv, OutcomeInv, shared, FetchesOf
<1> QED
  BY <1>1, <1>2, <1>3, <1>5, <1>6, ExecutorsInv
     DEF IInv, ThreadInv, LifeInv

\* The barrier's callback merges the error into the status.
LEMMA UpdateStatusStep ==
    ASSUME IInv, NEW t \in Clients, UpdateStatus(t) PROVE IInv'
<1> DEFINE s == First(run_state[t].status, run_state[t].error)
<1> DEFINE r == [run_state[t] EXCEPT !.step = "notify", !.status = s]
<1>1. /\ Update(t, r) /\ filled' = filled /\ run_state[t].step = "update"
  BY DEF UpdateStatus
<1>2. /\ r \in RunStateType /\ r.step = "notify" /\ r.status = s
      /\ \A l \in DOMAIN run_state[t] \ {"step", "status"} : r[l] = run_state[t][l]
  BY RunStateTyped DEF RunStateType, First
<1> HIDE DEF r
<1>3. /\ r.alive = run_state[t].alive
      /\ r.executors_done = run_state[t].executors_done
      /\ r.fed = run_state[t].fed /\ r.received = run_state[t].received
      /\ r.pending_inputs = run_state[t].pending_inputs
      /\ r.pending_outputs = run_state[t].pending_outputs
      /\ r.rendez = run_state[t].rendez /\ r.error = run_state[t].error
      /\ r.sent = run_state[t].sent /\ r.dead = run_state[t].dead
  BY <1>2, RunStateTyped DEF RunStateType
<1>4. run_state'[t] = r /\ UNCHANGED <<pc, result, shared>>
  BY <1>1 DEF IInv, TypeOK, Update
<1>5. ThreadInv(t)
  BY DEF IInv
<1>6. ASSUME t \in Runs PROVE ErrorInv(t)' /\ OutcomeInv(t)'
  BY <1>1, <1>2, <1>3, <1>4, <1>5, <1>6
     DEF ThreadInv, ErrorInv, OutcomeInv, shared, FetchesOf, First
<1> QED
  BY <1>1, <1>2, <1>3, <1>5, <1>6, ExecutorsInv
     DEF IInv, TypeOK, ThreadInv, LifeInv

\* ... and notifies the thread that waits.
LEMMA NotifyStep == ASSUME IInv, NEW t \in Clients, Notify(t) PROVE IInv'
<1> DEFINE r == [run_state[t] EXCEPT !.step = "ended", !.executors_done = TRUE]
<1>1. /\ Update(t, r) /\ filled' = filled /\ run_state[t].step = "notify"
  BY DEF Notify
<1>2. /\ r \in RunStateType /\ r.step = "ended" /\ r.executors_done
      /\ \A l \in DOMAIN run_state[t] \ {"step", "executors_done"} :
            r[l] = run_state[t][l]
  BY RunStateTyped DEF RunStateType
<1> HIDE DEF r
<1>3. /\ r.alive = run_state[t].alive
      /\ r.fed = run_state[t].fed /\ r.received = run_state[t].received
      /\ r.pending_inputs = run_state[t].pending_inputs
      /\ r.pending_outputs = run_state[t].pending_outputs
      /\ r.status = run_state[t].status
      /\ r.rendez = run_state[t].rendez /\ r.error = run_state[t].error
      /\ r.sent = run_state[t].sent /\ r.dead = run_state[t].dead
  BY <1>2, RunStateTyped DEF RunStateType
<1>4. run_state'[t] = r /\ UNCHANGED <<pc, result, shared>>
  BY <1>1 DEF IInv, TypeOK, Update
<1>5. ThreadInv(t)
  BY DEF IInv
<1>6. ASSUME t \in Runs PROVE ErrorInv(t)' /\ OutcomeInv(t)'
  BY <1>1, <1>2, <1>3, <1>4, <1>5, <1>6
     DEF ThreadInv, ErrorInv, OutcomeInv, shared, FetchesOf
<1> QED
  BY <1>1, <1>2, <1>3, <1>5, <1>6, ExecutorsInv
     DEF IInv, TypeOK, ThreadInv, LifeInv

-----------------------------------------------------------------------------
\* A step of a client inside a call, which has its executors: it changes its
\* own things, and it may cancel the session.
LEMMA CallInv ==
    ASSUME IInv, NEW t \in Clients, NEW l,
           pc[t] \notin Outside \/ pc[Owner] = "idle",
           pc' = [pc EXCEPT ![t] = l],
           t \in Runs => l \in RunPlaces,
           t \in Partials => l \in PartialPlaces,
           run_state' \in [Clients -> RunStateType],
           result' \in [Clients -> Status],
           \A u \in Clients \ {t} : run_state'[u] = run_state[u]
                                    /\ result'[u] = result[u],
           args' \in [Partials -> Calls \cup {NoCall}],
           \A u \in Partials \ {t} : args'[u] = args[u],
           partial_runs' \subseteq Partials,
           \A u \in Clients \ {t} : u \in partial_runs' <=> u \in partial_runs,
           lock' \in Partials \cup {Nobody},
           cancelled' \in BOOLEAN, cancelled => cancelled',
           UNCHANGED <<closed, executors, ek, filled, options, destroyed>>,
           ThreadInv(t)'
    PROVE  IInv'
<1>1. /\ PlaceInv' /\ pc'[Owner] = "idle" /\ pc' \in [Threads -> Places]
      /\ pc'[t] = l /\ \A u \in Threads \ {t} : pc'[u] = pc[u]
      /\ pc[Owner] = "idle"
  BY ClientMoves
<1>2. TypeOK'
  BY <1>1 DEF IInv, TypeOK, Places, BeforeStep, InStep, Outside
<1>3. \A u \in Clients \ {t} : Untouched(u)
  BY <1>1, Kinds DEF Untouched
<1> QED
  BY <1>1, <1>2, <1>3, ClientStep

\* The executors are done before the timeout.
LEMMA WaitForNotificationStep ==
    ASSUME IInv, NEW t \in Clients, WaitForNotification(t) PROVE IInv'
<1>1. /\ pc[t] = "wait" /\ run_state[t].executors_done
      /\ pc' = [pc EXCEPT ![t] = AfterWait(t)]
      /\ UNCHANGED <<shared, run_state, ek, args, result, filled, options, destroyed>>
  BY DEF WaitForNotification, Goto
<1>2. pc'[t] = AfterWait(t) /\ pc'[Owner] = pc[Owner]
  BY <1>1, Kinds DEF IInv, TypeOK
<1>3. ThreadInv(t)
  BY DEF IInv
<1>4. LifeInv(t)'
  BY <1>1, <1>2, <1>3 DEF ThreadInv, LifeInv, InStep, AfterWait, shared
<1>5. ASSUME t \in Runs PROVE ErrorInv(t)' /\ OutcomeInv(t)'
  BY <1>1, <1>2, <1>3, <1>5
     DEF ThreadInv, LifeInv, ErrorInv, OutcomeInv, AfterWait, shared, FetchesOf
<1>6. BooksInv(t)'
  BY <1>2 DEF BooksInv, AfterWait
<1>7. ThreadInv(t)'
  BY <1>4, <1>5, <1>6 DEF ThreadInv
<1> QED
  BY <1>1, <1>7, Kinds, CallInv
     DEF IInv, TypeOK, shared, AfterWait, RunPlaces, PartialPlaces, InStep, Outside

\* The timeout is recorded ...
LEMMA TimeOutStep == ASSUME IInv, NEW t \in Clients, TimeOut(t) PROVE IInv'
<1> DEFINE r == [run_state[t] EXCEPT !.status = First(@, "Deadline")]
<1>1. /\ pc[t] = "wait" /\ pc' = [pc EXCEPT ![t] = "cancel"]
      /\ run_state' = [run_state EXCEPT ![t] = r]
      /\ UNCHANGED <<shared, ek, args, result, filled, options, destroyed>>
  BY DEF TimeOut, Goto
<1>2. /\ r \in RunStateType /\ r.status = First(run_state[t].status, "Deadline")
      /\ \A l \in DOMAIN run_state[t] \ {"status"} : r[l] = run_state[t][l]
  BY RunStateTyped DEF RunStateType, First, Status
<1>3. /\ run_state' \in [Clients -> RunStateType] /\ run_state'[t] = r
      /\ \A u \in Clients \ {t} : run_state'[u] = run_state[u]
      /\ pc'[t] = "cancel" /\ pc'[Owner] = pc[Owner]
  BY <1>1, <1>2, Kinds DEF IInv, TypeOK
<1> HIDE DEF r
<1>4. /\ r.step = run_state[t].step /\ r.alive = run_state[t].alive
      /\ r.executors_done = run_state[t].executors_done
      /\ r.received = run_state[t].received
      /\ r.rendez = run_state[t].rendez /\ r.error = run_state[t].error
      /\ r.sent = run_state[t].sent /\ r.dead = run_state[t].dead
  BY <1>2, RunStateTyped DEF RunStateType
<1>5. ThreadInv(t)
  BY DEF IInv
<1>6. LifeInv(t)'
  BY <1>1, <1>3, <1>4, <1>5 DEF ThreadInv, LifeInv, InStep, shared
<1>7. ASSUME t \in Runs PROVE ErrorInv(t)' /\ OutcomeInv(t)'
  BY <1>1, <1>2, <1>3, <1>4, <1>5, <1>7
     DEF ThreadInv, ErrorInv, OutcomeInv, shared, FetchesOf, First
<1>8. BooksInv(t)'
  BY <1>3 DEF BooksInv
<1>9. ThreadInv(t)'
  BY <1>6, <1>7, <1>8 DEF ThreadInv
<1> QED
  BY <1>1, <1>3, <1>9, CallInv
     DEF IInv, TypeOK, shared, RunPlaces, PartialPlaces, InStep, Outside

\* ... before the session is cancelled.
LEMMA TimeOutCancelsStep ==
    ASSUME IInv, NEW t \in Clients, TimeOutCancels(t) PROVE IInv'
<1>1. /\ pc[t] = "cancel" /\ cancelled' = TRUE
      /\ pc' = [pc EXCEPT ![t] = AfterWait(t)]
      /\ UNCHANGED <<closed, lock, executors, partial_runs, run_state, ek, args,
                     result, filled, options, destroyed>>
  BY DEF TimeOutCancels, Goto
<1>2. pc'[t] = AfterWait(t) /\ pc'[Owner] = pc[Owner]
  BY <1>1, Kinds DEF IInv, TypeOK
<1>3. ThreadInv(t)
  BY DEF IInv
<1>4. LifeInv(t)'
  BY <1>1, <1>2, <1>3 DEF ThreadInv, LifeInv, InStep, AfterWait
<1>5. ASSUME t \in Runs PROVE ErrorInv(t)' /\ OutcomeInv(t)'
  BY <1>1, <1>2, <1>3, <1>5
     DEF ThreadInv, ErrorInv, OutcomeInv, AfterWait, FetchesOf
<1>6. BooksInv(t)'
  BY <1>2 DEF BooksInv, AfterWait
<1>7. ThreadInv(t)'
  BY <1>4, <1>5, <1>6 DEF ThreadInv
<1> QED
  BY <1>1, <1>7, Kinds, CallInv
     DEF IInv, TypeOK, AfterWait, RunPlaces, PartialPlaces, InStep, Outside

\* What receiving the fetches fs with status s does to the RunState.
LEMMA RecvOutputsFacts ==
    ASSUME IInv, NEW t \in Clients, NEW s \in Status,
           NEW fs \in SUBSET AllFetches, RecvOutputs(t, fs, s)
    PROVE  LET o == run_state[t]
               r == run_state'[t] IN
           /\ Received(o, fs, s)
           /\ run_state' \in [Clients -> RunStateType]
           /\ \A u \in Clients \ {t} : run_state'[u] = run_state[u]
           /\ r.rendez = First(o.rendez, s)
           /\ r.received = IF s = "OK" THEN o.received \cup fs ELSE o.received
           /\ r.step = o.step /\ r.alive = o.alive
           /\ r.executors_done = o.executors_done
           /\ r.status = o.status /\ r.error = o.error
           /\ r.sent = o.sent /\ r.dead = o.dead /\ r.fed = o.fed
           /\ r.pending_inputs = o.pending_inputs
           /\ r.pending_outputs = o.pending_outputs
<1> DEFINE o == run_state[t]
           rc == IF s = "OK" THEN o.received \cup fs ELSE o.received
           r == [o EXCEPT !.rendez = First(o.rendez, s), !.received = rc]
<1>1. Received(o, fs, s) /\ run_state' = [run_state EXCEPT ![t] = r]
  BY DEF RecvOutputs
<1>2. /\ r \in RunStateType
      /\ r.rendez = First(o.rendez, s) /\ r.received = rc
      /\ \A l \in DOMAIN o \ {"rendez", "received"} : r[l] = o[l]
  BY RunStateTyped DEF RunStateType, First
<1> HIDE DEF r
<1>3. /\ r.step = o.step /\ r.alive = o.alive
      /\ r.executors_done = o.executors_done
      /\ r.status = o.status /\ r.error = o.error
      /\ r.sent = o.sent /\ r.dead = o.dead /\ r.fed = o.fed
      /\ r.pending_inputs = o.pending_inputs
      /\ r.pending_outputs = o.pending_outputs
  BY <1>2, RunStateTyped DEF RunStateType
<1>4. /\ run_state' \in [Clients -> RunStateType] /\ run_state'[t] = r
      /\ \A u \in Clients \ {t} : run_state'[u] = run_state[u]
  BY <1>1, <1>2 DEF IInv, TypeOK
<1> QED
  BY <1>1, <1>2, <1>3, <1>4

\* Run returns the step's error, or the outputs: all of them, and alive.
LEMMA CollectStep ==
    ASSUME IInv, NEW t \in Clients, NEW s \in Status, Collect(t, s) PROVE IInv'
<1> DEFINE l == IF s = "OK" THEN "count" ELSE "free"
<1>1. /\ pc[t] = "collect" /\ pc' = [pc EXCEPT ![t] = l]
      /\ result' = [result EXCEPT ![t] = s]
      /\ UNCHANGED <<shared, ek, args, filled, options, destroyed>>
  BY DEF Collect, Return, Goto
<1>2. t \in Runs /\ t \notin Partials
  BY <1>1, Kinds DEF IInv, PlaceInv, PartialPlaces, BeforeStep, InStep
<1>3. /\ pc'[t] = l /\ pc'[Owner] = pc[Owner]
      /\ result'[t] = s /\ result' \in [Clients -> Status]
      /\ \A u \in Clients \ {t} : result'[u] = result[u]
  BY <1>1, Kinds DEF IInv, TypeOK
<1>4. ThreadInv(t)
  BY DEF IInv
<1>5. CASE s = run_state[t].status /\ s # "OK" /\ UNCHANGED run_state
  <2>1. LifeInv(t)'
    BY <1>1, <1>3, <1>4, <1>5 DEF ThreadInv, LifeInv, InStep, shared
  <2>2. ErrorInv(t)' /\ OutcomeInv(t)'
    BY <1>1, <1>2, <1>3, <1>4, <1>5
       DEF ThreadInv, ErrorInv, OutcomeInv, shared, FetchesOf
  <2>3. ThreadInv(t)'
    BY <1>2, <2>1, <2>2 DEF ThreadInv
  <2> QED
    BY <1>1, <1>2, <1>3, <1>5, <2>3, CallInv
       DEF IInv, TypeOK, shared, RunPlaces, Outside
<1>6. CASE run_state[t].status = "OK" /\ RecvOutputs(t, FetchesOf(t), s)
  <2> DEFINE o == run_state[t]
             r == run_state'[t]
  <2>1. /\ Received(o, FetchesOf(t), s)
        /\ run_state' \in [Clients -> RunStateType]
        /\ \A u \in Clients \ {t} : run_state'[u] = run_state[u]
        /\ r.rendez = First(o.rendez, s)
        /\ r.received = IF s = "OK" THEN o.received \cup FetchesOf(t) ELSE o.received
        /\ r.step = o.step /\ r.alive = o.alive
        /\ r.executors_done = o.executors_done
        /\ r.status = o.status /\ r.error = o.error
        /\ r.sent = o.sent /\ r.dead = o.dead
    BY <1>6, RecvOutputsFacts, FeedsAndFetches
  <2>2. o.step = "ended" /\ o.error = "OK" /\ o.received = {}
    BY <1>1, <1>2, <1>4, <1>6 DEF ThreadInv, ErrorInv
  <2>3. s = "Internal" => o.error = "Internal"
    BY <1>2, <1>4, <2>1 DEF Received, ThreadInv, ErrorInv
  <2>4. s = "Cancelled" => cancelled
    BY <1>2, <1>4, <2>1 DEF Received, ThreadInv, ErrorInv
  <2>5. s = "OK" => r.received = FetchesOf(t) /\ o.dead = {}
    BY <1>2, <1>4, <2>1, <2>2 DEF Received, ThreadInv, ErrorInv
  <2> HIDE DEF o, r
  <2>6. LifeInv(t)'
    BY <1>1, <1>3, <1>4, <2>1 DEF ThreadInv, LifeInv, InStep, shared, o, r
  <2>7. ErrorInv(t)'
    BY <1>1, <1>2, <1>3, <1>4, <2>1, <2>2, <2>3, <2>4
       DEF ThreadInv, ErrorInv, shared, FetchesOf, First, o, r
  <2>8. OutcomeInv(t)'
    BY <1>1, <1>2, <1>3, <1>6, <2>1, <2>2, <2>3, <2>4, <2>5
       DEF OutcomeInv, shared, FetchesOf, o, r
  <2>9. ThreadInv(t)'
    BY <1>2, <2>6, <2>7, <2>8 DEF ThreadInv
  <2> QED
    BY <1>1, <1>2, <1>3, <2>1, <2>9, CallInv
       DEF IInv, TypeOK, shared, RunPlaces, Outside
<1> QED
  BY <1>5, <1>6 DEF Collect

\* The step is counted.
LEMMA CountStepStep == ASSUME IInv, NEW t \in Clients, CountStep(t) PROVE IInv'
<1>1. /\ pc[t] = "count" /\ pc' = [pc EXCEPT ![t] = "free"]
      /\ UNCHANGED <<shared, run_state, ek, args, result, filled, options, destroyed>>
  BY DEF CountStep, Goto
<1>2. pc'[t] = "free" /\ pc'[Owner] = pc[Owner]
  BY <1>1, Kinds DEF IInv, TypeOK
<1>3. t \in Runs /\ t \notin Partials
  BY <1>1, Kinds DEF IInv, PlaceInv, PartialPlaces, BeforeStep, InStep
<1>4. ThreadInv(t)
  BY DEF IInv
<1>5. LifeInv(t)'
  BY <1>1, <1>2, <1>4 DEF ThreadInv, LifeInv, InStep, shared
<1>6. OutcomeInv(t)'
  BY <1>1, <1>2, <1>3, <1>4 DEF ThreadInv, OutcomeInv, shared, FetchesOf
<1>7. ErrorInv(t)'
  BY <1>1, <1>2, <1>3, <1>4
     DEF ThreadInv, ErrorInv, shared, FetchesOf
<1>8. ThreadInv(t)'
  BY <1>3, <1>5, <1>6, <1>7 DEF ThreadInv
<1> QED
  BY <1>1, <1>3, <1>8, CallInv
     DEF IInv, TypeOK, shared, RunPlaces, Outside

\* ~RunState aborts the rendezvous of a step that is not done; of a Run only
\* after a timeout, when the session has been cancelled.
LEMMA AbortRunFacts ==
    ASSUME IInv, NEW t \in Clients, AbortRun(t)
    PROVE  LET o == run_state[t]
               r == run_state'[t] IN
           /\ ~o.executors_done
           /\ run_state' \in [Clients -> RunStateType]
           /\ \A u \in Clients \ {t} : run_state'[u] = run_state[u]
           /\ r.rendez = First(o.rendez, "Cancelled")
           /\ r.received = o.received
           /\ r.step = o.step /\ r.alive = o.alive
           /\ r.executors_done = o.executors_done
           /\ r.status = o.status /\ r.error = o.error
           /\ r.sent = o.sent /\ r.dead = o.dead /\ r.fed = o.fed
           /\ r.pending_inputs = o.pending_inputs
           /\ r.pending_outputs = o.pending_outputs
<1> DEFINE o == run_state[t]
           r == [o EXCEPT !.rendez = First(o.rendez, "Cancelled")]
<1>1. ~o.executors_done /\ run_state' = [run_state EXCEPT ![t] = r]
  BY DEF AbortRun
<1>2. /\ r \in RunStateType /\ r.rendez = First(o.rendez, "Cancelled")
      /\ \A l \in DOMAIN o \ {"rendez"} : r[l] = o[l]
  BY RunStateTyped DEF RunStateType, First, Status
<1> HIDE DEF r
<1>3. /\ r.step = o.step /\ r.alive = o.alive /\ r.received = o.received
      /\ r.executors_done = o.executors_done
      /\ r.status = o.status /\ r.error = o.error
      /\ r.sent = o.sent /\ r.dead = o.dead /\ r.fed = o.fed
      /\ r.pending_inputs = o.pending_inputs
      /\ r.pending_outputs = o.pending_outputs
  BY <1>2, RunStateTyped DEF RunStateType
<1>4. /\ run_state' \in [Clients -> RunStateType] /\ run_state'[t] = r
      /\ \A u \in Clients \ {t} : run_state'[u] = run_state[u]
  BY <1>1, <1>2 DEF IInv, TypeOK
<1> QED
  BY <1>1, <1>2, <1>3, <1>4

\* A client aborts a step.
LEMMA AbortStepStep == ASSUME IInv, NEW t \in Clients, AbortStep(t) PROVE IInv'
<1> DEFINE o == run_state[t]
           r == run_state'[t]
<1>1. /\ pc[t] = "free" /\ pc' = [pc EXCEPT ![t] = "join"]
      /\ UNCHANGED <<shared, ek, args, result, filled, options, destroyed>>
  BY DEF AbortStep, Goto
<1>2. pc'[t] = "join" /\ pc'[Owner] = pc[Owner]
  BY <1>1, Kinds DEF IInv, TypeOK
<1>3. /\ ~o.executors_done
      /\ run_state' \in [Clients -> RunStateType]
      /\ \A u \in Clients \ {t} : run_state'[u] = run_state[u]
      /\ r.rendez = First(o.rendez, "Cancelled")
      /\ r.received = o.received
      /\ r.step = o.step /\ r.alive = o.alive
      /\ r.executors_done = o.executors_done
      /\ r.status = o.status /\ r.error = o.error
      /\ r.sent = o.sent /\ r.dead = o.dead
  BY AbortRunFacts DEF AbortStep
<1>4. ThreadInv(t)
  BY DEF IInv
<1> HIDE DEF o, r
<1>5. LifeInv(t)'
  BY <1>1, <1>2, <1>3, <1>4 DEF ThreadInv, LifeInv, InStep, shared, o, r
<1>6. ASSUME t \in Runs PROVE ErrorInv(t)' /\ OutcomeInv(t)'
  <2>1. o.step # "ended" /\ cancelled
    BY <1>1, <1>3, <1>4, <1>6 DEF ThreadInv, LifeInv, ErrorInv, o
  <2> QED
    BY <1>1, <1>2, <1>3, <1>4, <1>6, <2>1
       DEF ThreadInv, ErrorInv, OutcomeInv, shared, FetchesOf, First, o, r
<1>7. BooksInv(t)'
  BY <1>2 DEF BooksInv
<1>8. ThreadInv(t)'
  BY <1>5, <1>6, <1>7 DEF ThreadInv
<1> QED
  BY <1>1, <1>3, <1>8, CallInv
     DEF IInv, TypeOK, shared, RunPlaces, PartialPlaces, InStep, Outside

\* The call ends: the RunState is freed, after its step.
LEMMA EndCallStep == ASSUME IInv, NEW t \in Clients, EndCall(t) PROVE IInv'
<1>1. /\ pc[t] \in {"free", "join"} /\ pc' = [pc EXCEPT ![t] = "done"]
      /\ run_state' = [run_state EXCEPT ![t] = NoRunState]
      /\ partial_runs' = partial_runs \ {t}
      /\ lock' = IF lock = t THEN Nobody ELSE lock
      /\ UNCHANGED <<closed, cancelled, executors, ek, args, result, filled,
                     options, destroyed>>
  BY DEF EndCall, FreeRunState, Goto
<1>2. NoRunState \in RunStateType
  BY DEF NoRunState, RunStateType, Status
<1>3. /\ pc'[t] = "done" /\ pc'[Owner] = pc[Owner]
      /\ run_state' \in [Clients -> RunStateType] /\ run_state'[t] = NoRunState
      /\ \A u \in Clients \ {t} : run_state'[u] = run_state[u]
  BY <1>1, <1>2, Kinds DEF IInv, TypeOK
<1>4. LifeInv(t)'
  BY <1>1, <1>3 DEF LifeInv, InStep, NoRunState
<1>5. ErrorInv(t)' /\ OutcomeInv(t)'
  BY <1>3 DEF ErrorInv, OutcomeInv, NoRunState
<1>6. BooksInv(t)'
  BY <1>3 DEF BooksInv
<1>7. ThreadInv(t)'
  BY <1>4, <1>5, <1>6 DEF ThreadInv
<1> QED
  BY <1>1, <1>3, <1>7, CallInv
     DEF IInv, TypeOK, RunPlaces, PartialPlaces, Outside

-----------------------------------------------------------------------------
\* The feeds and fetches of the PRun in progress.
LEMMA ArgsTyped ==
    ASSUME IInv, NEW t \in Partials
    PROVE  /\ args[t] \in Calls \cup {NoCall}
           /\ args[t].feeds \in SUBSET AllFeeds
           /\ args[t].fetches \in SUBSET AllFetches
<1>1. args[t] \in Calls \cup {NoCall}
  BY DEF IInv, TypeOK
<1>2. NoCall.feeds = {} /\ NoCall.fetches = {}
  BY DEF NoCall
<1>3. \A c \in Calls : c.feeds \in SUBSET AllFeeds /\ c.fetches \in SUBSET AllFetches
  BY SessionAssumption DEF AllFeeds, AllFetches
<1> QED
  BY <1>1, <1>2, <1>3

\* PRun is called: its partial run is still there.
LEMMA BeginPRunStep ==
    ASSUME IInv, NEW t \in Partials, NEW c \in Calls, BeginPRun(t, c) PROVE IInv'
<1>1. /\ pc[t] = "ready" /\ pc[Owner] = "idle" /\ pc' = [pc EXCEPT ![t] = "lookup"]
      /\ args' = [args EXCEPT ![t] = c]
      /\ UNCHANGED <<shared, run_state, ek, result, filled, options, destroyed>>
  BY DEF BeginPRun, Goto
<1>2. t \in Clients /\ t \notin Runs
  BY Kinds
<1>3. pc'[t] = "lookup" /\ pc'[Owner] = pc[Owner]
  BY <1>1, <1>2, Kinds DEF IInv, TypeOK
<1>4. /\ args' \in [Partials -> Calls \cup {NoCall}]
      /\ \A u \in Partials \ {t} : args'[u] = args[u]
  BY <1>1 DEF IInv, TypeOK
<1>5. ThreadInv(t)
  BY <1>2 DEF IInv
<1>6. LifeInv(t)'
  BY <1>1, <1>3, <1>5 DEF ThreadInv, LifeInv, InStep, shared
<1>7. BooksInv(t)'
  BY <1>1, <1>3, <1>5 DEF ThreadInv, BooksInv, FeedsOf, FetchesOf
<1>8. ThreadInv(t)'
  BY <1>2, <1>6, <1>7 DEF ThreadInv
<1> QED
  BY <1>1, <1>2, <1>4, <1>8, CallInv
     DEF IInv, TypeOK, shared, PartialPlaces, InStep

\* The request goes on to place l, or it is rejected and the run is as before.
LEMMA LookUpRunStep == ASSUME IInv, NEW t \in Partials, LookUpRun(t) PROVE IInv'
<1>1. PICK l \in {"check", "ready"} :
         /\ pc' = [pc EXCEPT ![t] = l]
         /\ l = "check" =>
               /\ args' = args
               /\ args[t].feeds \subseteq run_state[t].pending_inputs
               /\ args[t].fetches \subseteq run_state[t].pending_outputs
  BY DEF LookUpRun, Reject, Goto
<1>2. /\ pc[t] = "lookup"
      /\ args' = args \/ args' = [args EXCEPT ![t] = NoCall]
      /\ UNCHANGED <<shared, run_state, ek, result, filled, options, destroyed>>
  BY DEF LookUpRun, Reject
<1>3. t \in Clients /\ t \notin Runs
  BY Kinds
<1>4. pc'[t] = l /\ pc'[Owner] = pc[Owner]
  BY <1>1, <1>3, Kinds DEF IInv, TypeOK
<1>5. /\ args' \in [Partials -> Calls \cup {NoCall}]
      /\ \A u \in Partials \ {t} : args'[u] = args[u]
  BY <1>2 DEF IInv, TypeOK
<1>6. ThreadInv(t)
  BY <1>3 DEF IInv
<1>7. LifeInv(t)'
  BY <1>2, <1>4, <1>6 DEF ThreadInv, LifeInv, InStep, shared
<1>8. BooksInv(t)'
  BY <1>1, <1>2, <1>4, <1>6 DEF ThreadInv, LifeInv, InStep, BooksInv, FeedsOf, FetchesOf
<1>9. ThreadInv(t)'
  BY <1>3, <1>7, <1>8 DEF ThreadInv
<1> QED
  BY <1>1, <1>2, <1>3, <1>5, <1>9, CallInv
     DEF IInv, TypeOK, shared, PartialPlaces, InStep, Outside

\* The fetches are checked against the feeds that are still missing.
LEMMA CheckFetchStep == ASSUME IInv, NEW t \in Partials, CheckFetch(t) PROVE IInv'
<1> DEFINE missing == run_state[t].pending_inputs \ args[t].feeds
<1>1. PICK l \in {"send", "ready"} :
         /\ pc' = [pc EXCEPT ![t] = l]
         /\ l = "send" =>
               /\ args' = args
               /\ \A f \in args[t].fetches : Needs[f] \cap missing = {}
  BY DEF CheckFetch, Reject, Goto
<1>2. /\ pc[t] = "check"
      /\ args' = args \/ args' = [args EXCEPT ![t] = NoCall]
      /\ UNCHANGED <<shared, run_state, ek, result, filled, options, destroyed>>
  BY DEF CheckFetch, Reject
<1>3. t \in Clients /\ t \notin Runs
  BY Kinds
<1>4. pc'[t] = l /\ pc'[Owner] = pc[Owner]
  BY <1>1, <1>3, Kinds DEF IInv, TypeOK
<1>5. /\ args' \in [Partials -> Calls \cup {NoCall}]
      /\ \A u \in Partials \ {t} : args'[u] = args[u]
  BY <1>2 DEF IInv, TypeOK
<1>6. ThreadInv(t)
  BY <1>3 DEF IInv
<1>7. LifeInv(t)'
  BY <1>2, <1>4, <1>6 DEF ThreadInv, LifeInv, InStep, shared
<1>8. BooksInv(t)'
  BY <1>1, <1>2, <1>4, <1>6 DEF ThreadInv, LifeInv, InStep, BooksInv, FeedsOf, FetchesOf
<1>9. ThreadInv(t)'
  BY <1>3, <1>7, <1>8 DEF ThreadInv
<1> QED
  BY <1>1, <1>2, <1>3, <1>5, <1>9, CallInv
     DEF IInv, TypeOK, shared, PartialPlaces, InStep, Outside

\* The feeds are sent, unless the rendezvous has been aborted.
LEMMA SendInputsStep == ASSUME IInv, NEW t \in Partials, SendInputs(t) PROVE IInv'
<1> DEFINE o == run_state[t]
<1>1. /\ pc[t] = "send"
      /\ UNCHANGED <<shared, ek, args, filled, options, destroyed>>
  BY DEF SendInputs
<1>2. t \in Clients /\ t \notin Runs
  BY Kinds
<1>3. ThreadInv(t)
  BY <1>2 DEF IInv
<1>4. CASE /\ o.rendez # "OK"
           /\ pc' = [pc EXCEPT ![t] = "finish"]
           /\ result' = [result EXCEPT ![t] = o.rendez]
           /\ UNCHANGED run_state
  <2>1. o.rendez \in Status
    BY <1>2, RunStateTyped DEF RunStateType
  <2>2. /\ pc'[t] = "finish" /\ pc'[Owner] = pc[Owner]
        /\ result'[t] # "OK" /\ result' \in [Clients -> Status]
        /\ \A u \in Clients \ {t} : result'[u] = result[u]
    BY <1>2, <1>4, <2>1, Kinds DEF IInv, TypeOK
  <2>3. LifeInv(t)'
    BY <1>1, <1>3, <1>4, <2>2 DEF ThreadInv, LifeInv, InStep, shared
  <2>4. BooksInv(t)'
    BY <2>2 DEF BooksInv
  <2>5. ThreadInv(t)'
    BY <1>2, <2>3, <2>4 DEF ThreadInv
  <2> QED
    BY <1>1, <1>2, <1>4, <2>2, <2>5, CallInv
       DEF IInv, TypeOK, shared, PartialPlaces, InStep, Outside
<1>5. CASE /\ pc' = [pc EXCEPT ![t] = "receive"]
           /\ result' = [result EXCEPT ![t] = "OK"]
           /\ run_state' = [run_state EXCEPT ![t].fed = @ \cup args[t].feeds]
  <2> DEFINE r == [o EXCEPT !.fed = @ \cup args[t].feeds]
  <2>1. /\ r \in RunStateType /\ r.fed = o.fed \cup args[t].feeds
        /\ \A l \in DOMAIN o \ {"fed"} : r[l] = o[l]
    BY <1>2, RunStateTyped, ArgsTyped DEF RunStateType
  <2>2. run_state' = [run_state EXCEPT ![t] = r]
    BY <1>5
  <2>3. /\ run_state' \in [Clients -> RunStateType] /\ run_state'[t] = r
        /\ \A u \in Clients \ {t} : run_state'[u] = run_state[u]
    BY <1>2, <2>1, <2>2 DEF IInv, TypeOK
  <2> HIDE DEF r
  <2>4. /\ r.step = o.step /\ r.alive = o.alive /\ r.received = o.received
        /\ r.executors_done = o.executors_done
        /\ r.pending_inputs = o.pending_inputs
        /\ r.pending_outputs = o.pending_outputs
    BY <1>2, <2>1, RunStateTyped DEF RunStateType
  <2>5. /\ pc'[t] = "receive" /\ pc'[Owner] = pc[Owner]
        /\ result'[t] = "OK" /\ result' \in [Clients -> Status]
        /\ \A u \in Clients \ {t} : result'[u] = result[u]
    BY <1>2, <1>5, Kinds DEF IInv, TypeOK, Status
  <2>6. LifeInv(t)'
    BY <1>1, <1>3, <2>3, <2>4, <2>5 DEF ThreadInv, LifeInv, InStep, shared
  <2>7. o.alive /\ FeedsOf(t) \ r.fed = o.pending_inputs \ args[t].feeds
    BY <1>1, <1>3, <2>1 DEF ThreadInv, LifeInv, BooksInv, InStep
  <2>8. BooksInv(t)'
    BY <1>1, <1>3, <2>3, <2>4, <2>5, <2>7
       DEF ThreadInv, BooksInv, FeedsOf, FetchesOf
  <2>9. ThreadInv(t)'
    BY <1>2, <2>6, <2>8 DEF ThreadInv
  <2> QED
    BY <1>1, <1>2, <1>5, <2>3, <2>5, <2>9, CallInv
       DEF IInv, TypeOK, shared, PartialPlaces, InStep, Outside
<1> QED
  BY <1>4, <1>5 DEF SendInputs, Return, Goto

\* The outputs are received, or not.
LEMMA ReceiveStep ==
    ASSUME IInv, NEW t \in Partials, NEW s \in Status, Receive(t, s) PROVE IInv'
<1> DEFINE o == run_state[t]
           r == run_state'[t]
           fs == args[t].fetches
<1>1. /\ pc[t] = "receive" /\ pc' = [pc EXCEPT ![t] = "finish"]
      /\ result' = [result EXCEPT ![t] = s]
      /\ RecvOutputs(t, fs, s)
      /\ UNCHANGED <<shared, ek, args, filled, options, destroyed>>
  BY DEF Receive, Return, Goto
<1>2. t \in Clients /\ t \notin Runs
  BY Kinds
<1>3. /\ run_state' \in [Clients -> RunStateType]
      /\ \A u \in Clients \ {t} : run_state'[u] = run_state[u]
      /\ r.received = IF s = "OK" THEN o.received \cup fs ELSE o.received
      /\ r.step = o.step /\ r.alive = o.alive
      /\ r.executors_done = o.executors_done /\ r.fed = o.fed
      /\ r.pending_inputs = o.pending_inputs
      /\ r.pending_outputs = o.pending_outputs
  BY <1>1, <1>2, RecvOutputsFacts, ArgsTyped
<1>4. /\ pc'[t] = "finish" /\ pc'[Owner] = pc[Owner]
      /\ result'[t] = s /\ result' \in [Clients -> Status]
      /\ \A u \in Clients \ {t} : result'[u] = result[u]
  BY <1>1, <1>2, Kinds DEF IInv, TypeOK
<1>5. ThreadInv(t)
  BY <1>2 DEF IInv
<1> HIDE DEF o, r
<1>6. LifeInv(t)'
  BY <1>1, <1>3, <1>4, <1>5 DEF ThreadInv, LifeInv, InStep, shared, o, r
<1>7. BooksInv(t)'
  BY <1>1, <1>3, <1>4, <1>5
     DEF ThreadInv, LifeInv, InStep, BooksInv, FeedsOf, FetchesOf, o, r
<1>8. ThreadInv(t)'
  BY <1>2, <1>6, <1>7 DEF ThreadInv
<1> QED
  BY <1>1, <1>2, <1>3, <1>4, <1>8, CallInv
     DEF IInv, TypeOK, shared, PartialPlaces, InStep, Outside

\* What was fed and fetched is no longer pending; without anything left, or
\* after an error, the thread waits for its step.
LEMMA FinishPRunStep == ASSUME IInv, NEW t \in Partials, FinishPRun(t) PROVE IInv'
<1> DEFINE o == run_state[t]
           pi == IF result[t] = "OK" THEN LeftInputs(t) ELSE o.pending_inputs
           po == IF result[t] = "OK" THEN LeftOutputs(t) ELSE o.pending_outputs
           r == [o EXCEPT !.pending_inputs = pi, !.pending_outputs = po]
           l == IF MayContinue(t) THEN "ready" ELSE "wait"
<1>1. /\ pc[t] = "finish" /\ pc' = [pc EXCEPT ![t] = l]
      /\ run_state' = [run_state EXCEPT ![t] = r]
      /\ lock' = IF MayContinue(t) THEN Nobody ELSE t
      /\ args' = [args EXCEPT ![t] = NoCall]
      /\ UNCHANGED <<closed, cancelled, executors, partial_runs, ek, result,
                     filled, options, destroyed>>
  BY DEF FinishPRun, Goto
<1>2. t \in Clients /\ t \notin Runs
  BY Kinds
<1>3. /\ r \in RunStateType /\ r.pending_inputs = pi /\ r.pending_outputs = po
      /\ \A f \in DOMAIN o \ {"pending_inputs", "pending_outputs"} : r[f] = o[f]
  BY <1>2, RunStateTyped DEF RunStateType, LeftInputs, LeftOutputs
<1>4. /\ run_state' \in [Clients -> RunStateType] /\ run_state'[t] = r
      /\ \A u \in Clients \ {t} : run_state'[u] = run_state[u]
  BY <1>1, <1>2, <1>3 DEF IInv, TypeOK
<1>5. /\ pc'[t] = l /\ pc'[Owner] = pc[Owner]
      /\ args' \in [Partials -> Calls \cup {NoCall}]
      /\ \A u \in Partials \ {t} : args'[u] = args[u]
  BY <1>1, <1>2, Kinds DEF IInv, TypeOK
<1> HIDE DEF r
<1>6. /\ r.step = o.step /\ r.alive = o.alive /\ r.received = o.received
      /\ r.executors_done = o.executors_done /\ r.fed = o.fed
  BY <1>2, <1>3, RunStateTyped DEF RunStateType
<1>7. ThreadInv(t)
  BY <1>2 DEF IInv
<1>8. LifeInv(t)'
  BY <1>1, <1>4, <1>5, <1>6, <1>7 DEF ThreadInv, LifeInv, InStep
<1>9. BooksInv(t)'
  BY <1>1, <1>3, <1>4, <1>5, <1>6, <1>7
     DEF ThreadInv, BooksInv, FeedsOf, FetchesOf, MayContinue, LeftInputs, LeftOutputs
<1>10. ThreadInv(t)'
  BY <1>2, <1>8, <1>9 DEF ThreadInv
<1> QED
  BY <1>1, <1>2, <1>4, <1>5, <1>10, CallInv
     DEF IInv, TypeOK, PartialPlaces, InStep, Outside

-----------------------------------------------------------------------------
\* Close cancels the session; the owner does so only when it is alone.
LEMMA CloseCancelsStep ==
    ASSUME IInv, NEW c \in Closers \cup {Owner}, CloseCancels(c) PROVE IInv'
<1>1. /\ pc[c] = "idle" /\ pc' = [pc EXCEPT ![c] = "mark"]
      /\ c = Owner => \A t \in Clients \cup Closers : pc[t] \in Outside
      /\ c # Owner => pc[Owner] = "idle"
      /\ cancelled' = (cancelled \/ c # Owner \/ ~closed)
      /\ UNCHANGED <<closed, lock, executors, partial_runs, run_state, ek, args,
                     result, filled, options, destroyed>>
  BY DEF CloseCancels, Goto
<1>2. c \in Threads /\ c \notin Clients
  BY Kinds, SessionAssumption
<1>3. /\ pc' \in [Threads -> Places]
      /\ pc'[c] = "mark" /\ \A u \in Threads \ {c} : pc'[u] = pc[u]
  BY <1>1, <1>2 DEF IInv, TypeOK, Places, BeforeStep, InStep, Outside
<1>4. TypeOK'
  BY <1>1, <1>3 DEF IInv, TypeOK, Places, BeforeStep, InStep, Outside
<1>5. \A u \in Clients : pc'[u] = pc[u]
  BY <1>2, <1>3, Kinds
<1>6. PlaceInv'
  <2>1. CASE c = Owner
    BY <1>1, <1>3, <1>5, <2>1, Kinds DEF IInv, PlaceInv
  <2>2. CASE c # Owner
    BY <1>1, <1>3, <1>5, <2>2, Kinds DEF IInv, PlaceInv
  <2> QED
    BY <2>1, <2>2
<1>7. \A u \in Clients : Untouched(u)
  <2>1. pc'[Owner] \in {"idle", "mark"} => pc[Owner] \in {"idle", "mark"}
    BY <1>1, <1>3, Kinds
  <2> QED
    BY <1>1, <1>5, <2>1 DEF Untouched
<1> QED
  BY <1>4, <1>6, <1>7, UntouchedInv DEF IInv

\* ... and then marks it closed.
LEMMA MarkClosedStep ==
    ASSUME IInv, NEW c \in Closers \cup {Owner}, MarkClosed(c) PROVE IInv'
<1> DEFINE l == IF c = Owner THEN "destroy" ELSE "done"
<1>1. /\ pc[c] = "mark" /\ closed' = TRUE /\ pc' = [pc EXCEPT ![c] = l]
      /\ UNCHANGED <<cancelled, lock, executors, partial_runs, run_state, ek,
                     args, result, filled, options, destroyed>>
  BY DEF MarkClosed, Goto
<1>2. c \in Threads /\ c \notin Clients
  BY Kinds, SessionAssumption
<1>3. /\ pc' \in [Threads -> Places]
      /\ pc'[c] = l /\ \A u \in Threads \ {c} : pc'[u] = pc[u]
  BY <1>1, <1>2 DEF IInv, TypeOK, Places, BeforeStep, InStep, Outside
<1>4. TypeOK'
  BY <1>1, <1>3 DEF IInv, TypeOK, Places, BeforeStep, InStep, Outside
<1>5. \A u \in Clients : pc'[u] = pc[u]
  BY <1>2, <1>3, Kinds
<1>6. PlaceInv'
  <2>1. CASE c = Owner
    BY <1>1, <1>3, <1>5, <2>1, Kinds DEF IInv, PlaceInv
  <2>2. CASE c # Owner
    BY <1>1, <1>3, <1>5, <2>2, Kinds DEF IInv, PlaceInv, Outside
  <2> QED
    BY <2>1, <2>2
<1>7. \A u \in Clients : Untouched(u)
  <2>1. pc'[Owner] \in {"idle", "mark"} => pc[Owner] \in {"idle", "mark"}
    BY <1>1, <1>3, Kinds
  <2> QED
    BY <1>1, <1>5, <2>1 DEF Untouched
<1> QED
  BY <1>4, <1>6, <1>7, UntouchedInv DEF IInv

\* The destructor ends a partial run that was left over.
LEMMA DestroyPartialRunStep ==
    ASSUME IInv, NEW t \in Partials, DestroyPartialRun(t) PROVE IInv'
<1>1. /\ pc[Owner] = "destroy"
      /\ t \in partial_runs
      /\ UNCHANGED <<closed, cancelled, lock, executors, ek, args, pc, result,
                     filled, options, destroyed>>
  BY DEF DestroyPartialRun
<1>2. t \in Clients /\ t \notin Runs
  BY Kinds
<1>3. ThreadInv(t)
  BY <1>2 DEF IInv
<1>4. pc[t] = "ready" /\ ~destroyed
  BY <1>1, <1>2, <1>3 DEF IInv, PlaceInv, ThreadInv, LifeInv, InStep, Outside
<1>5. CASE AbortRun(t) /\ UNCHANGED partial_runs
  <2> DEFINE o == run_state[t]
             r == run_state'[t]
  <2>1. /\ run_state' \in [Clients -> RunStateType]
        /\ \A u \in Clients \ {t} : run_state'[u] = run_state[u]
        /\ r.received = o.received /\ r.fed = o.fed
        /\ r.step = o.step /\ r.alive = o.alive
        /\ r.executors_done = o.executors_done
        /\ r.pending_inputs = o.pending_inputs
        /\ r.pending_outputs = o.pending_outputs
    BY <1>2, <1>5, AbortRunFacts
  <2> HIDE DEF o, r
  <2>2. TypeOK' /\ PlaceInv'
    BY <1>1, <1>5, <2>1 DEF IInv, TypeOK, PlaceInv
  <2>3. \A u \in Clients \ {t} : Untouched(u)
    BY <1>1, <1>5, <2>1 DEF Untouched
  <2>4. LifeInv(t)'
    BY <1>1, <1>3, <1>5, <2>1 DEF ThreadInv, LifeInv, o, r
  <2>5. BooksInv(t)'
    BY <1>1, <1>3, <1>4, <1>5, <2>1
       DEF ThreadInv, BooksInv, FeedsOf, FetchesOf, o, r
  <2> QED
    BY <1>2, <2>2, <2>3, <2>4, <2>5, ClientStep DEF ThreadInv
<1>6. CASE FreeRunState(t) /\ partial_runs' = partial_runs \ {t}
  <2>1. NoRunState \in RunStateType
    BY DEF NoRunState, RunStateType, Status
  <2>2. /\ run_state' \in [Clients -> RunStateType] /\ run_state'[t] = NoRunState
        /\ \A u \in Clients \ {t} : run_state'[u] = run_state[u]
    BY <1>2, <1>6, <2>1 DEF IInv, TypeOK, FreeRunState
  <2>3. TypeOK' /\ PlaceInv'
    BY <1>1, <1>6, <2>2 DEF IInv, TypeOK, PlaceInv
  <2>4. \A u \in Clients \ {t} : Untouched(u)
    BY <1>1, <1>6, <2>2 DEF Untouched
  <2>5. LifeInv(t)'
    BY <1>1, <1>4, <1>6, <2>2 DEF LifeInv, NoRunState, InStep
  <2>6. BooksInv(t)'
    BY <1>1, <1>4, <2>2 DEF BooksInv, NoRunState
  <2> QED
    BY <1>2, <2>3, <2>4, <2>5, <2>6, ClientStep DEF ThreadInv
<1> QED
  BY <1>5, <1>6 DEF DestroyPartialRun

\* No RunState is left when the executors are freed.
LEMMA DestroySessionStep == ASSUME IInv, DestroySession PROVE IInv'
<1>1. /\ pc[Owner] = "destroy" /\ partial_runs = {}
      /\ executors' = [k \in Signatures |-> Nobody] /\ destroyed' = TRUE
      /\ pc' = [pc EXCEPT ![Owner] = "done"]
      /\ UNCHANGED <<closed, cancelled, lock, partial_runs, run_state, ek, args,
                     result, filled, options>>
  BY DEF DestroySession, Goto
<1>2. /\ pc' \in [Threads -> Places]
      /\ pc'[Owner] = "done" /\ \A u \in Threads \ {Owner} : pc'[u] = pc[u]
  BY <1>1, Kinds DEF IInv, TypeOK, Places, BeforeStep, InStep, Outside
<1>3. TypeOK'
  BY <1>1, <1>2 DEF IInv, TypeOK, Places, BeforeStep, InStep, Outside
<1>4. \A u \in Clients \cup Closers : pc'[u] = pc[u]
  BY <1>2, Kinds
<1>5. PlaceInv'
  BY <1>1, <1>2, <1>4, Kinds DEF IInv, PlaceInv
<1>6. ASSUME NEW t \in Clients PROVE ThreadInv(t)'
  <2>1. ThreadInv(t) /\ pc[t] \in Outside /\ pc'[t] = pc[t]
    BY <1>1, <1>4 DEF IInv, PlaceInv
  <2>2. ~run_state[t].alive
    <3>1. CASE t \in Partials
      BY <1>1, <2>1, <3>1 DEF ThreadInv, LifeInv
    <3>2. CASE t \in Runs
      BY <2>1, <3>2 DEF IInv, PlaceInv, ThreadInv, LifeInv, RunPlaces,
                        BeforeStep, InStep, Outside
    <3> QED
      BY <3>1, <3>2, Kinds
  <2>3. LifeInv(t)'
    BY <1>1, <1>2, <2>1, <2>2 DEF ThreadInv, LifeInv, Outside
  <2>4. ASSUME t \in Runs PROVE ErrorInv(t)' /\ OutcomeInv(t)'
    BY <1>1, <2>1, <2>4 DEF ThreadInv, ErrorInv, OutcomeInv, FetchesOf
  <2>5. ASSUME t \in Partials PROVE BooksInv(t)'
    BY <1>1, <2>1, <2>5 DEF ThreadInv, BooksInv, FeedsOf, FetchesOf
  <2> QED
    BY <2>3, <2>4, <2>5 DEF ThreadInv
<1> QED
  BY <1>3, <1>5, <1>6 DEF IInv

\* A step that changes nothing.
LEMMA StutterStep == ASSUME IInv, UNCHANGED vars PROVE IInv'
<1>1. TypeOK' /\ PlaceInv'
  BY DEF vars, shared, IInv, TypeOK, PlaceInv
<1>2. \A u \in Clients : Untouched(u)
  BY DEF vars, shared, Untouched
<1> QED
  BY <1>1, <1>2, UntouchedInv DEF IInv

-----------------------------------------------------------------------------
\* The inductive invariant, one step per action.
LEMMA SpecIInv == Spec => []IInv
<1>1. ASSUME IInv, [Next]_vars PROVE IInv'
  <2>1. ASSUME NEW t \in Clients, Enter(t) PROVE IInv'
    BY <1>1, <2>1, EnterStep
  <2>2. ASSUME NEW t \in Clients, CallOf(t) PROVE IInv'
    BY <1>1, <2>2, FindExecutorsStep, CreateExecutorsStep, InsertExecutorsStep,
       StartRunStep, StartPartialRunStep, WaitForNotificationStep, TimeOutStep,
       TimeOutCancelsStep, CollectStep, CountStepStep, AbortStepStep,
       EndCallStep DEF CallOf
  <2>3. ASSUME NEW t \in Clients, StepOf(t) PROVE IInv'
    BY <1>1, <2>3, SendOutputStep, StepEndsStep, UpdateStatusStep, NotifyStep,
       StepFailsStep DEF StepOf
  <2>4. ASSUME NEW t \in Clients, StepFails(t, "Internal") PROVE IInv'
    BY <1>1, <2>4, StepFailsStep
  <2>5. ASSUME NEW t \in Partials, PRunOf(t) PROVE IInv'
    BY <1>1, <2>5, LookUpRunStep, CheckFetchStep, SendInputsStep, ReceiveStep,
       FinishPRunStep DEF PRunOf
  <2>6. ASSUME NEW t \in Partials, NEW c \in Calls, BeginPRun(t, c) PROVE IInv'
    BY <1>1, <2>6, BeginPRunStep
  <2>7. ASSUME NEW c \in Closers \cup {Owner}, CloseCancels(c) PROVE IInv'
    BY <1>1, <2>7, CloseCancelsStep
  <2>8. ASSUME NEW c \in Closers \cup {Owner}, MarkClosed(c) PROVE IInv'
    BY <1>1, <2>8, MarkClosedStep
  <2>9. CASE Destructor
    BY <1>1, <2>9, DestroySessionStep, DestroyPartialRunStep DEF Destructor
  <2>10. CASE UNCHANGED vars
    BY <1>1, <2>10, StutterStep
  <2> QED
    BY <1>1, <2>1, <2>2, <2>3, <2>4, <2>5, <2>6, <2>7, <2>8, <2>9, <2>10 DEF Next
<1> QED
  BY <1>1, InitInv, PTL DEF Spec

(***************************************************************************)
(* Every variable of DirectSession keeps its type, whatever the threads do *)
(* in Run, PRunSetup, PRun, Close and ~DirectSession.                      *)
(***************************************************************************)
THEOREM TypeCorrect == Spec => []TypeOK
<1>1. IInv => TypeOK
  BY DEF IInv
<1> QED
  BY <1>1, SpecIInv, PTL

(***************************************************************************)
(* What a step's executors use outlives them: ~RunState, on the stack of   *)
(* Run, in partial_runs_ or in ~DirectSession, waits for executors_done,   *)
(* executors_ never replaces an entry, and the session frees it last.      *)
(***************************************************************************)
THEOREM StepSafe == Spec => []StepOutlived
<1>1. ASSUME IInv PROVE StepOutlived
  <2> SUFFICES ASSUME NEW t \in Clients
               PROVE  /\ run_state[t].step \in {"running", "update", "notify"} =>
                            /\ run_state[t].alive
                            /\ ~destroyed
                            /\ ek[t] # Nobody /\ executors[Signature[t]] = ek[t]
                      /\ pc[t] \in {"lookup", "check", "send", "receive", "finish",
                                    "wait", "cancel", "collect", "free", "join"} =>
                            run_state[t].alive
    BY DEF StepOutlived
  <2>1. ThreadInv(t)
    BY <1>1 DEF IInv
  <2>2. ASSUME run_state[t].alive PROVE ~destroyed
    <3>1. CASE t \in Partials
      BY <1>1, <2>1, <2>2, <3>1 DEF IInv, PlaceInv, ThreadInv, LifeInv
    <3>2. CASE t \in Runs
      BY <1>1, <2>1, <2>2, <3>2
         DEF IInv, PlaceInv, ThreadInv, LifeInv, RunPlaces, BeforeStep, InStep,
             Outside
    <3> QED
      BY <3>1, <3>2, Kinds
  <2> QED
    BY <2>1, <2>2 DEF ThreadInv, LifeInv, InStep
<1> QED
  BY <1>1, SpecIInv, PTL

(***************************************************************************)
(* The status Run returns is the truth about its step, whichever of a      *)
(* kernel's error, a closed session, a timeout and a dead fetch come       *)
(* first: the callback merges the error into run_state.status before it    *)
(* notifies, and the timeout writes to it before it cancels.               *)
(***************************************************************************)
THEOREM RunTruthful == Spec => []TruthfulRun
<1>1. IInv => TruthfulRun
  BY Kinds DEF IInv, ThreadInv, OutcomeInv, TruthfulRun
<1> QED
  BY <1>1, SpecIInv, PTL

(***************************************************************************)
(* pending_inputs and pending_outputs of a partial run are what has not    *)
(* been fed and fetched, after any sequence of accepted, rejected and      *)
(* failed PRun calls, and a PRun never waits for an output that its feeds  *)
(* do not determine or that has been handed out.                           *)
(***************************************************************************)
THEOREM PartialRunsKept == Spec => []PartialRunBooks
<1>1. ASSUME IInv PROVE PartialRunBooks
  <2> SUFFICES ASSUME NEW t \in Partials
               PROVE  LET r == run_state[t] IN
                      /\ pc[t] = "ready" /\ r.alive =>
                            /\ r.pending_inputs = FeedsOf(t) \ r.fed
                            /\ r.pending_outputs = FetchesOf(t) \ r.received
                            /\ t \in partial_runs
                            /\ FeedsOf(t) \cup FetchesOf(t) # {} =>
                                  r.pending_inputs \cup r.pending_outputs # {}
                      /\ pc[t] = "receive" /\ r.rendez = "OK" =>
                            \A f \in args[t].fetches :
                                Needs[f] \subseteq r.fed /\ f \notin r.received
    BY DEF PartialRunBooks
  <2>1. ThreadInv(t) /\ t \in Clients
    BY <1>1, Kinds DEF IInv
  <2>2. \A f \in FetchesOf(t) : Needs[f] \subseteq FeedsOf(t)
    BY <2>1, Kinds, SessionAssumption DEF FetchesOf, FeedsOf
  <2> QED
    BY <2>1, <2>2 DEF ThreadInv, LifeInv, InStep, BooksInv
<1> QED
  BY <1>1, SpecIInv, PTL
=============================================================================
