----------------------------- MODULE ArtifactStore -----------------------------
(***************************************************************************)
(* InMemoryArtifactStore (storage/artifact_store.py): a bounded store of   *)
(* texts, bytes and file references, read page by page by the model        *)
(* (artifact_read of the builtin tools).                                   *)
(*                                                                         *)
(* All operations hold the store's lock and none suspends: each is a step, *)
(* but for the loops that evict down to the limits, whose turns are steps, *)
(* so that whether they end can be asked.                                  *)
(*                                                                         *)
(* A content is the sequence of its bytes, each given by the number of the *)
(* character it belongs to; a character has one byte or two.               *)
(***************************************************************************)
EXTENDS Integers, FiniteSets, SequencesExt, KeptItems

CONSTANTS
  Artifacts,        (* ids, each used once                                 *)
  ArtifactRuns,     (* run ids                                             *)
  Offers,           (* what may be put: a source and a content             *)
  MaxEntries,       (* max_entries, 0 for no limit                         *)
  MaxBytes,         (* max_bytes, 0 for no limit                           *)
  ArtifactTtl,      (* default_ttl, 0 for none                             *)
  PageLimits,       (* limits a reader asks for                            *)
  MaxClock          (* bound: the clock                                    *)

Sources == {"text", "bytes", "file"}
Never == MaxClock + 1

Encoded(content) ==
  /\ content \in Seq(Nat \ {0})
  /\ \A b \in DOMAIN content : 1..content[b] \subseteq ToSet(content)
  /\ \A b, c \in DOMAIN content : /\ b < c => content[b] <= content[c]
                                  /\ b + 1 < c => content[b] < content[c]

ASSUME ArtifactAssumption ==
  /\ \A o \in Offers : o.source \in Sources /\ Encoded(o.content)
  /\ {MaxEntries, MaxBytes, ArtifactTtl, MaxClock} \subseteq Nat
  /\ PageLimits \subseteq Nat \ {0}

VARIABLES
  order,            (* _entries, least recently used first                 *)
  entryOf,          (* the entries put so far                              *)
  inlineBytes,      (* _total_inline_bytes                                 *)
  evicting,         (* _evict_to_limits is under way                       *)
  pageReader,       (* one reading, page by page                           *)
  clock

artVars == <<order, entryOf, inlineBytes, evicting, pageReader, clock>>

Entries == [offer : Offers, run : ArtifactRuns, durable : BOOLEAN, expires : Nat]
NoReader == [id |-> "none", offset |-> 0, seen |-> <<>>, state |-> "ended"]

ArtifactInit ==
  /\ order = <<>>
  /\ entryOf = [a \in {} |-> a]
  /\ inlineBytes = 0
  /\ evicting = FALSE
  /\ pageReader = NoReader
  /\ clock = 0

--------------------------------------------------------------------------------
Size(e) == Len(e.offer.content)
Bytes(e) == DOMAIN e.offer.content
Inline(e) == IF e.offer.source \in {"text", "bytes"} THEN Bytes(e) ELSE {}
Holds(a) == a \in ToSet(order)

(* _expires_at                                                             *)
ExpiresAt(durable) == IF durable \/ ArtifactTtl = 0 THEN Never ELSE clock + ArtifactTtl
Expired(a) == entryOf[a].expires # Never /\ clock >= entryOf[a].expires

(* _delete_unlocked, of the stored artifacts in A.  Defect: the bytes of   *)
(* files are subtracted as well.                                           *)
InlineOfAll(A) == Cardinality(UNION {{a} \X Bytes(entryOf[a]) : a \in A})
InlineOf(A) == Cardinality(UNION {{a} \X Inline(entryOf[a]) : a \in A})
Without(A) ==
  /\ order' = Omitting(order, A)
  /\ inlineBytes' = inlineBytes - InlineOf(A \cap ToSet(order))

(* _put_entry: expired entries go, then the new one comes, and the limits  *)
(* are enforced.                                                           *)
PutEntry(a, e) ==
  LET expired == {b \in ToSet(order) : Expired(b)} IN
  /\ ~evicting /\ a \notin DOMAIN entryOf
  /\ order' = Append(Omitting(order, expired), a)
  /\ entryOf' = [b \in DOMAIN entryOf \cup {a} |-> IF b = a THEN e ELSE entryOf[b]]
  /\ inlineBytes' = inlineBytes - InlineOf(expired) + Cardinality(Inline(e))
  /\ evicting' = TRUE
  /\ UNCHANGED <<pageReader, clock>>

(* put_text, put_bytes, put_file_ref                                       *)
Put(a) ==
  \E o \in Offers, r \in ArtifactRuns, d \in BOOLEAN :
    PutEntry(a, [offer |-> o, run |-> r, durable |-> d, expires |-> ExpiresAt(d)])

(* A turn of the loops of _evict_to_limits: the least recently used of the *)
(* entries that are not durable goes; when all are, nothing changes.       *)
OverLimits ==
  \/ MaxEntries > 0 /\ Len(order) > MaxEntries
  \/ MaxBytes > 0 /\ inlineBytes > MaxBytes /\ order # <<>>

(* Defects: only the first entry is looked at; durable entries go too.     *)
EvictableFirst == IF entryOf[order[1]].durable THEN 0 ELSE 1
EvictableAny == 1
Evictable == SelectInSeq(order, LAMBDA a : ~entryOf[a].durable)

EvictOne ==
  /\ evicting /\ OverLimits /\ Evictable > 0
  /\ Without({order[Evictable]})
  /\ UNCHANGED <<entryOf, evicting, pageReader, clock>>

EvictionDone ==
  /\ evicting /\ ~OverLimits
  /\ evicting' = FALSE
  /\ UNCHANGED <<order, entryOf, inlineBytes, pageReader, clock>>

Delete(a) ==
  /\ ~evicting /\ Holds(a)
  /\ Without({a})
  /\ UNCHANGED <<entryOf, evicting, pageReader, clock>>

DeleteArtifactsOf(r) ==
  /\ ~evicting
  /\ Without({a \in ToSet(order) : entryOf[a].run = r /\ ~entryOf[a].durable})
  /\ UNCHANGED <<entryOf, evicting, pageReader, clock>>

Gc ==
  /\ ~evicting
  /\ Without({a \in ToSet(order) : Expired(a)})
  /\ evicting' = TRUE
  /\ UNCHANGED <<entryOf, pageReader, clock>>

(* _entry: an entry that has expired goes when it is asked for, any other  *)
(* becomes the most recently used.                                         *)
Found(a) == Holds(a) /\ ~Expired(a)
Entry(a) ==
  IF Found(a) THEN order' = Append(Omitting(order, {a}), a) /\ UNCHANGED inlineBytes
  ELSE Without({a})

(* stat, search                                                            *)
Access(a) ==
  /\ ~evicting /\ Holds(a)
  /\ Entry(a)
  /\ UNCHANGED <<entryOf, evicting, pageReader, clock>>

--------------------------------------------------------------------------------
(* _read_entry, for limit units from offset: the characters returned and   *)
(* the bytes they have when encoded again.  Texts are cut by characters.   *)
(* Bytes and files are cut by bytes: what is left of a cut character       *)
(* becomes U+FFFD, of three bytes.                                         *)
BytesOf(content, chars) == {b \in DOMAIN content : content[b] \in chars}

ReadText(content, offset, limit) ==
  LET chars == ToSet(content) \cap (offset + 1)..(offset + limit)
  IN  [chars |-> chars, bytes |-> Cardinality(BytesOf(content, chars))]

ReadBytes(content, offset, limit) ==
  LET read == DOMAIN content \cap (offset + 1)..(offset + limit)
      met == {content[b] : b \in read}
      whole == {c \in met : BytesOf(content, {c}) \subseteq read}
  IN  [chars |-> whole,
       bytes |-> Cardinality(BytesOf(content, whole)) + 3 * Cardinality(met \ whole)]

ReadEntry(o, offset, limit) ==
  IF o.source = "text" THEN ReadText(o.content, offset, limit)
  ELSE ReadBytes(o.content, offset, limit)

Open(a) ==
  /\ pageReader.state = "ended" /\ a \in DOMAIN entryOf
  /\ pageReader' = [id |-> a, offset |-> 0, seen |-> <<>>, state |-> "open"]
  /\ UNCHANGED <<order, entryOf, inlineBytes, evicting, clock>>

(* The offset after a read.  Defect: one too small.                        *)
NextOffsetShort(offset, read) == IF read.bytes > 1 THEN offset + read.bytes - 1 ELSE offset + read.bytes
NextOffset(offset, read) == offset + read.bytes

InOrder(content, chars) == Keeping([i \in 1..Len(content) |-> i], chars)

(* read, at the next_offset of the read before.                            *)
ReadPage(limit) ==
  LET a == pageReader.id
      page == ReadEntry(entryOf[a].offer, pageReader.offset, limit)
      next == NextOffset(pageReader.offset, page)
  IN
  /\ ~evicting /\ pageReader.state = "open"
  /\ Entry(a)
  /\ pageReader' = IF ~Found(a) THEN [pageReader EXCEPT !.state = "gone"]
               ELSE [id |-> a, offset |-> next,
                     seen |-> pageReader.seen
                              \o InOrder(entryOf[a].offer.content, page.chars),
                     state |-> IF next >= Size(entryOf[a]) THEN "eof" ELSE "open"]
  /\ UNCHANGED <<entryOf, evicting, clock>>

Advance ==
  /\ ~evicting /\ clock < MaxClock
  /\ clock' = clock + 1
  /\ UNCHANGED <<order, entryOf, inlineBytes, evicting, pageReader>>

ArtifactNext ==
  \/ \E a \in Artifacts : Put(a) \/ Delete(a) \/ Access(a) \/ Open(a)
  \/ \E r \in ArtifactRuns : DeleteArtifactsOf(r)
  \/ \E l \in PageLimits : ReadPage(l)
  \/ Gc \/ EvictOne \/ EvictionDone \/ Advance

ArtifactSpec ==
  ArtifactInit /\ [][ArtifactNext]_artVars /\ WF_artVars(EvictOne \/ EvictionDone)

--------------------------------------------------------------------------------
ArtifactTypeOK ==
  /\ IsInjective(order) /\ ToSet(order) \subseteq DOMAIN entryOf
  /\ entryOf \in [DOMAIN entryOf -> Entries] /\ DOMAIN entryOf \subseteq Artifacts
  /\ inlineBytes \in Nat /\ evicting \in BOOLEAN /\ clock \in 0..MaxClock

(* The count of inline bytes is what the entries hold, and once evicted    *)
(* down to them the limits are respected.                                  *)
LimitsHold ==
  /\ inlineBytes = InlineOf(ToSet(order))
  /\ ~evicting => ~OverLimits

(* A durable artifact leaves the store only when it is deleted by its id.  *)
DurableKept ==
  [][\A a \in ToSet(order) : entryOf[a].durable =>
       a \in ToSet(order') \/ (order' = Omitting(order, {a}) /\ ~evicting)]_artVars

(* Eviction ends, unless nothing but durable artifacts is left.            *)
EvictionEnds ==
  evicting ~> (~evicting \/ \A a \in ToSet(order) : entryOf[a].durable)

(* Reading a text from next_offset to next_offset shows no character       *)
(* twice nor out of order; at its end all has been shown, if its           *)
(* characters have one byte.                                               *)
PagesInOrder ==
  /\ \A i \in 1..Len(pageReader.seen) - 1 : pageReader.seen[i] < pageReader.seen[i + 1]
  /\ pageReader.state = "eof" =>
       LET content == entryOf[pageReader.id].offer.content
       IN  (\A b \in DOMAIN content : content[b] = b) => ToSet(pageReader.seen) = ToSet(content)
================================================================================
