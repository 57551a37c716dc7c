--------------------------- MODULE CaptureReplay ----------------------------
(* Replaying a capture.  The captured events go through one fault layer of *)
(* dl-recon (fault.rs), the feed of its robustness tests, to               *)
(* pools_from_feed (pipeline.rs), which assembles pools from the accounts. *)
(* The random numbers of a layer are free choices.  The payload of an      *)
(* account is a record of its size and the fields that are read of it.     *)
EXTENDS FrameFile, Decoders, Integers

CONSTANTS Layers      \* fault layers, each of one of the constructors below

VARIABLES
    layer,     \* the layer between the captured feed and the consumer
    inner,     \* events the captured feed still returns; "unopened" before
    buffer,    \* Reorder.buffer
    dropped,   \* BoundedDrop.dropped
    corrupted, \* BoundedCorrupt.corrupted
    kept,      \* BoundedCorrupt.passed
    given,     \* what the layer returned
    amms,      \* amm_cache: base vault -> AmmInfo
    vaults,    \* vault_cache: mint -> token account
    pools,     \* the pools assembled
    result     \* "closed", "open", "ok" or "error"

layerVars == <<layer, inner, buffer, dropped, corrupted, kept, given>>
poolVars  == <<amms, vaults, pools, result>>
allVars   == <<vars, layerVars, poolVars>>

(* new of each layer; n is its bound, or the length of the junk.           *)
Layer(name, n) == [kind |-> name, n |-> n]
NewBoundedDrop(count)   == Layer("drop", count)
NewBoundedCorrupt(len)  == Layer("corrupt", len)
NewJitteredSlot(jitter) == Layer("jitter", jitter)
NewReorder(window, mode) == Layer(mode, IF window > 1 THEN window ELSE 1)
NewCapped(cap)          == Layer("cap", cap)

(* The events of a feed are account updates and others, of which slots    *)
(* carry a number; cells that are no event are no account update.          *)
ASSUME ReplayConstants ==
    /\ \A l \in Layers :
          l \in {NewBoundedDrop(l.n), NewBoundedCorrupt(l.n), NewJitteredSlot(l.n), NewCapped(l.n)}
               \union {NewReorder(l.n, "reverse"), NewReorder(l.n, "permute")}
    /\ \A l \in Layers : l.n \in Nat
    /\ \A e \in Event :
          /\ e.type = "account" =>
                e = [type |-> "account", slot |-> e.slot, key |-> e.key, data |-> e.data]
          /\ e.type = "slot" => e = [type |-> "slot", slot |-> e.slot] /\ e.slot \in Nat
    /\ Garbage.type \notin {"account", "slot"}

ReplayInit ==
    /\ Init
    /\ layer \in Layers
    /\ inner = <<>> /\ buffer = <<>> /\ given = <<>>
    /\ dropped = 0 /\ corrupted = 0 /\ kept = 0
    /\ amms = <<>> /\ vaults = <<>> /\ pools = <<>>
    /\ result = "closed"

(* synthesize_small_capture: for each spec an AmmInfo and its two vaults.  *)
(* A key is a name and a last byte; the mints are taken in turn.           *)
Synthesized(spec, i, mints) ==
    LET mint(k) == mints[((i + k) % Len(mints)) + 1]
        vault(k) == <<spec.address, (i * 17 + k) % 256>>
        update(key, data) == [type |-> "account", slot |-> 1, key |-> key, data |-> data]
        token(k, amount) ==
            update(vault(k), [size |-> Sizes.token, mint |-> mint(k), amount |-> amount])
    IN  <<update(<<spec.address, 0>>,
                 [size |-> Sizes.amm_info, status |-> 1, fee |-> <<spec.fee_bps, 10000>>,
                  base_vault |-> vault(0), quote_vault |-> vault(1),
                  base_mint |-> mint(0), quote_mint |-> mint(1)]),
          token(0, spec.base_reserve), token(1, spec.quote_reserve)>>

SynthesizeSmallCapture(specs, mints) ==
    FlattenSeq([i \in DOMAIN specs |-> Synthesized(specs[i], i - 1, mints)])

(* The captured feed is drained on demand; what it returns does not depend *)
(* on when it is asked.                                                    *)
OpenReplay ==
    /\ kind = "capture" /\ answer # "more" /\ result = "closed"
    /\ inner' = out
    /\ result' = "open"
    /\ UNCHANGED <<vars, layer, buffer, dropped, corrupted, kept, given,
                   amms, vaults, pools>>

(***************************************************************************)
(* pools_from_feed                                                         *)
(***************************************************************************)
Account(e) == e # Garbage /\ e.type = "account"

(* An AmmInfo is complete when both of its vaults are keys of the cache.   *)
Complete(a, v) ==
    {k \in DOMAIN a : {a[k].base_vault, a[k].quote_vault} \subseteq DOMAIN v}

(* assemble_pool refuses vaults of other mints and a fee without           *)
(* denominator.                                                            *)
Assembles(info, v) ==
    /\ v[info.base_vault].mint = info.base_mint
    /\ v[info.quote_vault].mint = info.quote_mint
    /\ FeeBps(info.fee[1], info.fee[2]) # {}

(* Mutant: the reserves are taken from the other vault. *)
AssembledSwapped(info, v) ==
    [base |-> info.base_vault, quote |-> info.quote_vault,
     rb |-> v[info.quote_vault].amount, rq |-> v[info.base_vault].amount]

Assembled(info, v) ==
    [base |-> info.base_vault, quote |-> info.quote_vault,
     rb |-> v[info.base_vault].amount, rq |-> v[info.quote_vault].amount]

CacheKey(e) == e.data.mint

(* insert of a map *)
With(cache, key, data) ==
    [k \in DOMAIN cache \union {key} |-> IF k = key THEN data ELSE cache[k]]

DecoderOf(data) ==
    CASE data.size = Sizes.amm_info /\ Decodes("amm_info", data) -> "amm_info"
      [] data.size = Sizes.token -> "token"
      [] OTHER -> "none"

(* One event; a blob of another size, or one that does not decode, ends    *)
(* the replay with an error.                                               *)
Take(e) ==
    \/ /\ ~Account(e)
       /\ UNCHANGED poolVars
    \/ /\ Account(e) /\ DecoderOf(e.data) = "none"
       /\ result' = "error"
       /\ UNCHANGED <<amms, vaults, pools>>
    \/ /\ Account(e) /\ DecoderOf(e.data) # "none"
       /\ LET d == DecoderOf(e.data)
              a == IF d = "amm_info" THEN With(amms, e.data.base_vault, e.data) ELSE amms
              v == IF d = "token" THEN With(vaults, CacheKey(e), e.data) ELSE vaults
              ready == Complete(a, v)
          IN  /\ vaults' = v
              /\ amms' = [k \in DOMAIN a \ ready |-> a[k]]
              /\ pools' = pools \o SetToSeq({Assembled(a[k], v) : k \in ready})
              /\ result' = IF \A k \in ready : Assembles(a[k], v) THEN result ELSE "error"

NoMore ==
    /\ result' = "ok"
    /\ UNCHANGED <<amms, vaults, pools>>

Gives(e) == given' = Append(given, e) /\ Take(e)

(***************************************************************************)
(* fault.rs: next_event of each layer                                      *)
(***************************************************************************)
Pulls(n) == inner' = SubSeq(inner, n + 1, Len(inner))

Asked(k) == result = "open" /\ layer.kind = k

BoundedDrop ==
    LET n == layer.n - dropped
    IN  /\ Asked("drop")
        /\ \/ /\ Len(inner) > n
              /\ Gives(inner[n + 1]) /\ Pulls(n + 1) /\ dropped' = layer.n
           \/ /\ Len(inner) <= n
              /\ NoMore /\ inner' = <<>> /\ dropped' = dropped + Len(inner)
              /\ given' = given
        /\ UNCHANGED <<vars, layer, buffer, corrupted, kept>>

Ended ==
    /\ inner = <<>> /\ buffer = <<>>
    /\ NoMore
    /\ UNCHANGED <<vars, layerVars>>

(* Random bytes: as an AmmInfo they have no status, as a token account they *)
(* have a mint that no one knows.                                          *)
Junk == [size |-> layer.n, status |-> 0, mint |-> <<"random", 0>>, amount |-> 0]

(* The payload of an account is replaced; anything else goes through, and  *)
(* is counted as corrupted and as passed.                                  *)
BoundedCorrupt ==
    /\ Asked("corrupt")
    /\ \/ Ended
       \/ /\ inner # <<>>
          /\ Pulls(1)
          /\ \/ /\ kept' = kept + 1
                /\ Gives(Head(inner))
                /\ corrupted' = corrupted
             \/ /\ corrupted' = corrupted + 1
                /\ IF Account(Head(inner))
                   THEN Gives([Head(inner) EXCEPT !.data = Junk]) /\ kept' = kept
                   ELSE Gives(Head(inner)) /\ kept' = kept + 1
          /\ UNCHANGED <<vars, layer, buffer, dropped>>

JitteredSlot ==
    /\ Asked("jitter")
    /\ \/ Ended
       \/ /\ inner # <<>>
          /\ Pulls(1)
          /\ \E j \in 0..layer.n :
                Gives(IF Head(inner) # Garbage /\ Head(inner).type = "slot"
                      THEN [Head(inner) EXCEPT !.slot = @ + j] ELSE Head(inner))
          /\ UNCHANGED <<vars, layer, buffer, dropped, corrupted, kept>>

(* Reorder: refill takes up to a window of events and reverses or permutes *)
(* them; the buffer is emptied before the next refill.                     *)
Refill ==
    LET n == IF Len(inner) < layer.n THEN Len(inner) ELSE layer.n
        w == SubSeq(inner, 1, n)
    IN  IF layer.kind = "reverse" THEN {Reverse(w)}
        ELSE {[i \in 1..n |-> w[p[i]]] : p \in {f \in [1..n -> 1..n] : IsInjective(f)}}

Reordered ==
    /\ Asked("reverse") \/ Asked("permute")
    /\ \/ Ended
       \/ /\ buffer # <<>>
          /\ Gives(Head(buffer)) /\ buffer' = Tail(buffer)
          /\ UNCHANGED <<vars, layer, inner, dropped, corrupted, kept>>
       \/ /\ buffer = <<>> /\ inner # <<>>
          /\ \E w \in Refill :
                Gives(Head(w)) /\ buffer' = Tail(w) /\ Pulls(Len(w))
          /\ UNCHANGED <<vars, layer, dropped, corrupted, kept>>

Capped ==
    /\ Asked("cap")
    /\ \/ /\ inner = <<>> \/ Len(given) >= layer.n
          /\ NoMore
          /\ UNCHANGED <<vars, layerVars>>
       \/ /\ inner # <<>> /\ Len(given) < layer.n
          /\ Gives(Head(inner)) /\ Pulls(1)
          /\ UNCHANGED <<vars, layer, buffer, dropped, corrupted, kept>>

Replaying == UNCHANGED <<layerVars, poolVars>>

Next ==
    \/ FileNext /\ Replaying
    \/ OpenReplay
    \/ BoundedDrop \/ BoundedCorrupt \/ JitteredSlot \/ Reordered \/ Capped

Spec == ReplayInit /\ [][Next]_allVars

(***************************************************************************)
(* Properties                                                              *)
(***************************************************************************)
Same(a, b) == a = b \/ (Account(a) /\ Account(b) /\ [a EXCEPT !.data = Junk] = b)
Count(s, e) == Cardinality({i \in DOMAIN s : s[i] = e})
WindowOf(i) == ((i - 1) \div layer.n) * layer.n

(* A layer does to the captured events what its name says and no more: it *)
(* drops the first n, cuts behind n, moves an event only inside its window,*)
(* never turns a slot back, and corrupts payloads without losing, adding   *)
(* or moving an event (fault.rs).                                          *)
FaultsBounded ==
    CASE layer.kind = "drop" ->
            /\ given = SubSeq(out, layer.n + 1, layer.n + Len(given))
            /\ result = "ok" => Len(given) + dropped = Len(out) /\ dropped <= layer.n
      [] layer.kind = "cap" ->
            /\ given = SubSeq(out, 1, Len(given))
            /\ Len(given) <= layer.n
            /\ result = "ok" => Len(given) \in {layer.n, Len(out)}
      [] layer.kind = "corrupt" ->
            /\ \A i \in DOMAIN given : Same(out[i], given[i])
            /\ corrupted + kept >= Len(given) /\ kept <= Len(given)
            /\ result = "ok" => Len(given) = Len(out)
      [] layer.kind = "jitter" ->
            /\ \A i \in DOMAIN given : given[i] # out[i] =>
                  /\ given[i].slot \in out[i].slot .. out[i].slot + layer.n
                  /\ out[i].type = "slot"
            /\ result = "ok" => Len(given) = Len(out)
      [] OTHER ->
            /\ \A i \in DOMAIN given :
                  \E j \in 1..layer.n : WindowOf(i) + j <= Len(out) /\ given[i] = out[WindowOf(i) + j]
            /\ result = "ok" => \A e \in ToSet(out) : Count(given, e) = Count(out, e)

(* NothingSkipped: a replay is given the captured events as its layer      *)
(* bends them, and goes on only while it understands what it is given:     *)
(* every account so far was an AmmInfo or a vault, and a pool that was     *)
(* assembled has the reserves of two vaults that were given, of its own    *)
(* mints (fault.rs, pipeline.rs pools_from_feed, raydium_amm_v4.rs).       *)
NothingSkipped ==
    result \in {"open", "ok"} =>
        /\ FaultsBounded
        /\ \A e \in ToSet(given) : Account(e) => DecoderOf(e.data) # "none"
        /\ \A p \in ToSet(pools) :
             \E amm, b, q \in {e.data : e \in {g \in ToSet(given) : Account(g)}} :
                /\ DecoderOf(amm) = "amm_info" /\ DecoderOf(b) = "token" /\ DecoderOf(q) = "token"
                /\ <<p.base, p.quote>> = <<amm.base_vault, amm.quote_vault>>
                /\ <<b.mint, q.mint>> = <<amm.base_mint, amm.quote_mint>>
                /\ <<p.rb, p.rq>> = <<b.amount, q.amount>>

(* ImplementsLog: a capture or ledger file is a log: the reader returns    *)
(* the events written whole, in order, whatever write failed and wherever  *)
(* the process stopped, and other events only behind a torn frame          *)
(* (capture.rs next_event, reader.rs read_entry).                          *)
ImplementsLog == LogSpec

(* EndIsTold: if no write failed, a reader that says it is at the end has  *)
(* returned all frames, and a ledger reader says so exactly when the file  *)
(* does not end inside a frame (reader.rs, read_entry).                    *)
EndIsTold ==
    /\ failures = 0 /\ answer # "more" => Len(out) = frames
    /\ kind = "ledger" /\ answer # "more" =>
          (answer = "eof") = (IntactCells = Len(file))
=============================================================================
