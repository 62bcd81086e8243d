--------------------------- MODULE IdempotencyKeys ---------------------------
(***************************************************************************)
(* The interceptor that lets a client repeat a change safely: a request    *)
(* carries a key; the first answer under the key and route is stored and   *)
(* given again to every repetition with the same body, another body under  *)
(* the key is refused.  The answer is stored in a transaction of its own,  *)
(* after the handler has returned, and nothing marks the key while the     *)
(* handler runs.  A handler that awaits something lets other requests in   *)
(* between; one that does not is a handler whose steps follow each other.  *)
(* A route is part of the key here.                                        *)
(***************************************************************************)
EXTENDS Naturals, Sequences, SequencesExt

CONSTANTS
  Keys,
  Bodies,
  MaxHandlers,    \* bound: handlers running at once
  MaxEffects,     \* bound: effects in all
  MaxKeyCrashes   \* bound: crashes

ASSUME KeyConstants == {MaxHandlers, MaxEffects, MaxKeyCrashes} \subseteq Nat

VARIABLES
  stored,    \* table idempotency: key -> body of the request that was answered
  handlers,  \* running: [key, body, did]; did: its effect is committed
  effects,   \* effects committed, in order
  excused,   \* keys two handlers shared, or whose handler failed after its effect
  keyCrashes \* crashes so far

keyVars == <<stored, handlers, effects, excused, keyCrashes>>

KeyInit ==
  /\ stored = << >>
  /\ handlers = << >>
  /\ effects = << >>
  /\ excused = {}
  /\ keyCrashes = 0

\* Mutant of Admitted: only the same body is looked up.
AdmittedBody(k, body) == k \in DOMAIN stored => stored[k] # body

\* No answer is stored: the handler runs.  Otherwise the stored answer or the
\* refusal (IDEMPOTENCY_KEY_REUSED) goes out and nothing changes.
Admitted(k, body) == k \notin DOMAIN stored

Begin(k, body) ==
  /\ Admitted(k, body)
  /\ Len(handlers) < MaxHandlers
  /\ handlers' = Append(handlers, [key |-> k, body |-> body, did |-> FALSE])
  /\ excused' = IF \E i \in DOMAIN handlers : handlers[i].key = k
                THEN excused \cup {k} ELSE excused
  /\ UNCHANGED <<stored, effects, keyCrashes>>

Effect(i) ==
  /\ ~handlers[i].did
  /\ Len(effects) < MaxEffects
  /\ handlers' = [handlers EXCEPT ![i].did = TRUE]
  /\ effects' = Append(effects, [key |-> handlers[i].key, body |-> handlers[i].body])
  /\ UNCHANGED <<stored, excused, keyCrashes>>

\* tap: INSERT OR IGNORE.
StoreResponse(i) ==
  LET h == handlers[i] IN
  /\ h.did
  /\ stored' = IF h.key \in DOMAIN stored THEN stored
               ELSE [k \in DOMAIN stored \cup {h.key} |->
                       IF k = h.key THEN h.body ELSE stored[k]]
  /\ handlers' = RemoveAt(handlers, i)
  /\ UNCHANGED <<effects, excused, keyCrashes>>

\* The handler throws: no answer is stored.
HandlerThrows(i) ==
  /\ excused' = IF handlers[i].did THEN excused \cup {handlers[i].key} ELSE excused
  /\ handlers' = RemoveAt(handlers, i)
  /\ UNCHANGED <<stored, effects, keyCrashes>>

KeyCrash ==
  /\ keyCrashes < MaxKeyCrashes
  /\ keyCrashes' = keyCrashes + 1
  /\ excused' = excused \cup {h.key : h \in {x \in ToSet(handlers) : x.did}}
  /\ handlers' = << >>
  /\ UNCHANGED <<stored, effects>>

KeyNext ==
  \/ \E k \in Keys, body \in Bodies : Begin(k, body)
  \/ \E i \in DOMAIN handlers : Effect(i) \/ StoreResponse(i) \/ HandlerThrows(i)
  \/ KeyCrash

KeySpec == KeyInit /\ [][KeyNext]_keyVars

-----------------------------------------------------------------------------
(* Properties *)

KeyTypeOK ==
  /\ DOMAIN stored \subseteq Keys
  /\ \A k \in DOMAIN stored : stored[k] \in Bodies
  /\ handlers \in Seq([key: Keys, body: Bodies, did: BOOLEAN])
  /\ effects \in Seq([key: Keys, body: Bodies])
  /\ excused \subseteq Keys
  /\ keyCrashes \in 0..MaxKeyCrashes

\* A key takes effect once, with one body, however often and in whatever order
\* its request is repeated, unless two handlers of the key ran at the same time
\* or one failed, or the process died, between its effect and the stored answer
\* (idempotency.interceptor.ts:1).
OneEffectUnlessExcused ==
  \A i, j \in DOMAIN effects :
    i # j /\ effects[i].key = effects[j].key => effects[i].key \in excused
=============================================================================
