---------------------------- MODULE FetchBatches ----------------------------
(***************************************************************************)
(* Fetching many pages (providers/pool.rs, fetch_for, over                 *)
(* providers/search.rs).  The addresses go to the provider in batches; an  *)
(* address may be asked for twice, and the provider answers a batch in any *)
(* order, in two lists, and may leave pages out.  The caller gets one item *)
(* per address in the order of the request, or an error, and never more    *)
(* than a bounded amount.  The quota is FairQuota; here it is the number   *)
(* of units the request holds.                                             *)
(***************************************************************************)
EXTENDS Naturals, Sequences, FiniteSets

CONSTANTS
  Urls,
  Pages,       \* contents the provider may deliver: [Pages -> encoded size of the item]
  ErrorSize,   \* encoded size of an item that says a page could not be had
  BatchSize,
  Budget,      \* encoded size of all items, separators included
  MaxRetries,  \* retries of a batch after a 429
  MaxUrls,     \* bound: addresses of a request
  None

FetchAssumption ==
  /\ BatchSize \in Nat \ {0} /\ ErrorSize \in Nat \ {0} /\ Budget \in Nat
  /\ \A page \in DOMAIN Pages : Pages[page] \in Nat \ {0}
  /\ None \notin DOMAIN Pages
  /\ MaxRetries \in Nat /\ MaxUrls \in Nat

VARIABLES
  urls,      \* the request
  items,     \* the answer so far
  size,      \* serialized_item_bytes
  retries,
  phase,     \* "acquire", "asked", "done", "failed" or "dropped"
  charged,   \* units the request has paid and not got back
  usable     \* history: pages delivered in the batches the pool has taken

vars == <<urls, items, size, retries, phase, charged, usable>>

UpTo(S, n) == UNION {[1..k -> S] : k \in 0..n}
Batch == SubSeq(urls, Len(items) + 1, IF Len(items) + BatchSize < Len(urls) THEN Len(items) + BatchSize ELSE Len(urls))

Requested == UpTo(Urls, MaxUrls) \ {<<>>}

Init ==
  /\ urls \in Requested
  /\ items = <<>> /\ size = 0 /\ retries = 0
  /\ phase = "acquire"
  /\ charged = 0 /\ usable = 0

Acquire ==
  /\ phase = "acquire"
  /\ charged' = charged + Len(Batch)
  /\ phase' = "asked"
  /\ UNCHANGED <<urls, items, size, retries, usable>>

(* order_fetch_chunk: the pages, then the failures, each to the first      *)
(* place its address still has, so that the n-th outcome of an address     *)
(* goes to its n-th place.                                                 *)
Occurrence(addresses, i) == Cardinality({j \in 1..i : addresses[j] = addresses[i]})
Addresses(reply) == [k \in DOMAIN reply |-> reply[k].url]
For(i, reply) ==   \* which outcome the place has: one or none
  {k \in DOMAIN reply : /\ reply[k].url = Batch[i]
                        /\ Occurrence(Addresses(reply), k) = Occurrence(Batch, i)}
Unrequested(reply) == \E k \in DOMAIN reply : \A i \in DOMAIN Batch : k \notin For(i, reply)

Placed(reply) ==
  [i \in DOMAIN Batch |->
     IF For(i, reply) # {} THEN reply[CHOOSE k \in For(i, reply) : TRUE]
     ELSE [url |-> Batch[i], page |-> None]]

Encoded(item) == IF item.page = None THEN ErrorSize ELSE Pages[item.page]
Encodings(seq, before) ==   \* of all items, with the separators between them
  LET sizes[n \in 0..Len(seq)] ==
        IF n = 0 THEN before
        ELSE sizes[n - 1] + Encoded(seq[n]) + (IF sizes[n - 1] = 0 THEN 0 ELSE 1)
  IN sizes[Len(seq)]

TooLarge(placed) == Encodings(placed, size) > Budget

Refund(placed) == Cardinality({i \in DOMAIN placed : placed[i].page = None})
Delivered(seq) == Cardinality({i \in DOMAIN seq : seq[i].page # None})

(* Pages and failures, in two lists; addresses may be missing or foreign. *)
Results == UpTo([url : Urls, page : DOMAIN Pages], Len(Batch))
Failures == UpTo([url : Urls, page : {None}], 1)
Replies == {results \o failures : results \in Results, failures \in Failures}

Taken(reply) ==
  /\ phase = "asked" /\ ~Unrequested(reply)
  /\ LET placed == Placed(reply) IN
       /\ charged' = charged - Refund(placed)
       /\ usable' = usable + Delivered(reply)
       /\ IF TooLarge(placed) THEN phase' = "failed" /\ UNCHANGED <<items, size>>
          ELSE /\ items' = items \o placed
               /\ size' = Encodings(placed, size)
               /\ phase' = IF Len(items) + Len(placed) = Len(urls) THEN "done" ELSE "acquire"
  /\ retries' = 0
  /\ UNCHANGED urls

(* Any other error of the provider, too many items of one, or a page that  *)
(* was not asked for: the batch is paid back and the request fails.        *)
BatchFails ==
  /\ phase = "asked"
  /\ charged' = charged - Len(Batch)
  /\ phase' = "failed"
  /\ UNCHANGED <<urls, items, size, retries, usable>>

(* A 429, or the retries have taken too long: the units are paid back.     *)
Limited ==
  /\ phase = "asked"
  /\ charged' = charged - Len(Batch)
  /\ \/ retries < MaxRetries /\ retries' = retries + 1 /\ phase' = "acquire"
     \/ phase' = "failed" /\ UNCHANGED retries
  /\ UNCHANGED <<urls, items, size, usable>>

(* The retries of a batch have taken too long while it waits for its turn. *)
TurnExpires ==
  /\ phase = "acquire" /\ retries > 0
  /\ phase' = "failed"
  /\ UNCHANGED <<urls, items, size, retries, charged, usable>>

(* The caller is gone: its units stay charged. *)
Dropped ==
  /\ phase \in {"acquire", "asked"} /\ phase' = "dropped"
  /\ UNCHANGED <<urls, items, size, retries, charged, usable>>

Next ==
  \/ Acquire \/ BatchFails \/ Limited \/ TurnExpires \/ Dropped
  \/ \E reply \in Replies : Taken(reply)

Spec == Init /\ [][Next]_vars

-----------------------------------------------------------------------------

TypeOK ==
  /\ Len(items) <= Len(urls)
  /\ \A i \in DOMAIN items : items[i].page \in DOMAIN Pages \cup {None}
  /\ retries \in 0..MaxRetries
  /\ phase \in {"acquire", "asked", "done", "failed", "dropped"}
  /\ charged \in 0..Len(urls)

(* The answer has one item for each address in the order of the request,   *)
(* and every page the provider delivered is in it, also when an address    *)
(* was asked for twice, the provider mixed up the order, or a batch was    *)
(* asked for again.  (search.rs:357-428, pool.rs:108-167)                  *)
OneItemEach ==
  phase = "done" =>
    /\ [i \in DOMAIN items |-> items[i].url] = urls
    /\ Delivered(items) = usable

(* An answer never grows past its budget, whatever each batch may bring:   *)
(* the separators count and the batches share it, and a page is never cut  *)
(* to fit.  (search.rs:212-250)                                            *)
WithinBudget == Encodings(items, 0) <= Budget

(* A request pays for the pages it was delivered and nothing else: pages   *)
(* that failed, batches that were refused and requests that ended in an    *)
(* error are paid back, whatever was asked for again in between.           *)
(* (pool.rs:131-160)                                                       *)
PaidForPages == phase \in {"acquire", "done", "failed"} => charged = usable
=============================================================================
