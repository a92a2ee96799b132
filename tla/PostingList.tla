----------------------------- MODULE PostingList -----------------------------
(***************************************************************************)
(* The search index: posting lists with a skip table, a dictionary of terms,*)
(* and the queries over them.  A posting is a document and the positions of *)
(* the term in it, both strictly increasing; a list keeps document gaps,    *)
(* frequencies and position gaps as three runs of varints, and the skip     *)
(* table says where in each of them every skip_step-th posting starts.      *)
(*                                                                          *)
(* A list is the record of its sections; magic, checksum and the varints of *)
(* the skip table itself are left out.  Terms are numbers, in their order.  *)
(***************************************************************************)
EXTENDS Primitives

IsIncreasing(seq) == \A i \in 1..Len(seq) - 1 : seq[i] < seq[i + 1]

(* validate_postings *)
ArePostings(postings) ==
    /\ IsIncreasing([i \in DOMAIN postings |-> postings[i].doc_id])
    /\ \A i \in DOMAIN postings : IsIncreasing(postings[i].positions)

(* One skip entry: the posting with this ordinal, and what comes before it. *)
SkipEntry(postings, ordinal, docs, freqs, places) ==
    LET before(section) == Len(FlattenSeq(SubSeq(section, 1, ordinal)))
    IN  [ordinal            |-> ordinal,
         first_doc_id       |-> postings[ordinal + 1].doc_id,
         previous_doc_id    |-> IF ordinal = 0 THEN 0 ELSE postings[ordinal].doc_id,
         doc_ids_offset     |-> before(docs),
         frequencies_offset |-> before(freqs),
         positions_offset   |-> before(places)]

EncodePostings(postings, step) ==
    LET gaps   == Differences([i \in DOMAIN postings |-> postings[i].doc_id])
        docs   == [i \in DOMAIN postings |-> EncodeVarint(gaps[i])]
        freqs  == [i \in DOMAIN postings |-> EncodeVarint(Len(postings[i].positions))]
        places == [i \in DOMAIN postings |->
                      EncodeVarints(Differences(postings[i].positions))]
    IN  IF step = 0 \/ ~ArePostings(postings) THEN Err
        ELSE [doc_count    |-> Len(postings), skip_step |-> step,
              doc_ids      |-> FlattenSeq(docs),
              frequencies  |-> FlattenSeq(freqs),
              positions    |-> FlattenSeq(places),
              skip_entries |-> [s \in 1..CeilDiv(Len(postings), step) |->
                  SkipEntry(postings, (s - 1) * step, docs, freqs, places)]]

(* validate_index: the skip table is in step with the list. *)
IsIndexed(list) ==
    LET skips == list.skip_entries
    IN  /\ Len(skips) = CeilDiv(list.doc_count, list.skip_step)
        /\ IsIncreasing([s \in DOMAIN skips |-> skips[s].first_doc_id])
        /\ \A s \in DOMAIN skips :
               /\ skips[s].ordinal = (s - 1) * list.skip_step
               /\ skips[s].doc_ids_offset <= Len(list.doc_ids)
               /\ skips[s].frequencies_offset <= Len(list.frequencies)
               /\ skips[s].positions_offset <= Len(list.positions)

-----------------------------------------------------------------------------
(* A cursor stands behind `found`, at these places of the three sections.   *)

Start == [found |-> [doc_id |-> 0, positions |-> << >>], doc |-> 1, freq |-> 1, pos |-> 1]

(* read_positions *)
ReadPositions(list, from, count) ==
    Try(IF count > MaxCollectionEntries \/ count > Len(list.positions) - from + 1 THEN Err
        ELSE ReadVarints(list.positions, from, count), LAMBDA gaps :
    Try(DecodeDelta(Word, gaps.values), LAMBDA sums :
        IF ~IsIncreasing(sums) THEN Err ELSE [values |-> sums, next |-> gaps.next]))

NextPosting(list, cursor) ==
    Try(ReadVarint(list.doc_ids, cursor.doc), LAMBDA gap :
    Try(ReadVarint(list.frequencies, cursor.freq), LAMBDA freq :
    Try(ReadPositions(list, cursor.pos, freq.value), LAMBDA read :
        IF cursor.found.doc_id + gap.value \notin Word THEN Err
        ELSE [found |-> [doc_id    |-> cursor.found.doc_id + gap.value,
                         positions |-> read.values],
              doc |-> gap.next, freq |-> freq.next, pos |-> read.next])))

(* The cursors of up to `count` postings from one on. *)
CursorsFrom(list, cursor, count) ==
    LET at[n \in 0..count] ==
            IF n = 0 THEN cursor
            ELSE Try(at[n - 1], LAMBDA before : NextPosting(list, before))
    IN  [n \in 1..count |-> at[n]]

(* decode_postings: all of the sections, and postings again. *)
DecodePostings(list) ==
    IF ~IsIndexed(list) \/ list.doc_count > MaxCollectionEntries THEN Err
    ELSE TryAll(CursorsFrom(list, Start, list.doc_count), LAMBDA cursors :
        LET end      == IF cursors = << >> THEN Start ELSE Last(cursors)
            postings == [n \in DOMAIN cursors |-> cursors[n].found]
        IN  IF /\ end.doc = Len(list.doc_ids) + 1
               /\ end.freq = Len(list.frequencies) + 1
               /\ end.pos = Len(list.positions) + 1
               /\ ArePostings(postings)
            THEN postings ELSE Err)

(* Bug: the entry that starts at the target is left out. *)
SkipsBefore(list, target) ==
    {s \in DOMAIN list.skip_entries : list.skip_entries[s].first_doc_id < target}

(* skip_before_or_at *)
SkipsUpTo(list, target) ==
    {s \in DOMAIN list.skip_entries : list.skip_entries[s].first_doc_id <= target}

NotFound == [doc_id |-> -1, positions |-> << >>]

(* The cursors from a skip entry on. *)
CursorsFromSkip(list, skip) ==
    CursorsFrom(list,
                [found |-> [doc_id |-> skip.previous_doc_id, positions |-> << >>],
                 doc   |-> skip.doc_ids_offset + 1,
                 freq  |-> skip.frequencies_offset + 1,
                 pos   |-> skip.positions_offset + 1],
                list.doc_count - skip.ordinal)

(* The first document that is not before the target, if it is the target.   *)
FirstFrom(cursors, target) ==
    LET stops == {n \in DOMAIN cursors :
                     IF cursors[n] = Err THEN TRUE ELSE cursors[n].found.doc_id >= target}
    IN  IF stops = {} THEN NotFound
        ELSE Try(cursors[Min(stops)], LAMBDA at :
                 IF at.found.doc_id = target THEN at.found ELSE NotFound)

(* seek_doc: from the last skip entry that is not past the target on.       *)
SeekDoc(list, target) ==
    LET skips == SkipsUpTo(list, target)
    IN  IF ~IsIndexed(list) THEN Err
        ELSE IF skips = {} THEN NotFound
        ELSE FirstFrom(CursorsFromSkip(list, list.skip_entries[Max(skips)]), target)

-----------------------------------------------------------------------------
(* The dictionary: one list per term, the terms in strictly increasing      *)
(* order.                                                                   *)

EncodeTerms(entries, step) ==
    IF ~IsIncreasing([e \in DOMAIN entries |-> entries[e].term]) THEN Err
    ELSE TryAll([e \in DOMAIN entries |-> EncodePostings(entries[e].postings, step)],
                LAMBDA lists : [e \in DOMAIN entries |->
                                   [term |-> entries[e].term, list |-> lists[e]]])

(* find_term and the list of a term; a term that is not there has none.  A  *)
(* dictionary is parsed as a whole, and refused if it has too many terms.   *)
EntriesOf(dictionary, term) == {e \in Range(dictionary) : e.term = term}

LookupTerm(dictionary, term) ==
    LET entries == EntriesOf(dictionary, term)
    IN  IF Len(dictionary) > MaxCollectionEntries THEN Err
        ELSE IF entries = {} THEN << >> ELSE DecodePostings((CHOOSE e \in entries : TRUE).list)

SeekTermDoc(dictionary, term, doc) ==
    LET entries == EntriesOf(dictionary, term)
    IN  IF Len(dictionary) > MaxCollectionEntries THEN Err
        ELSE IF entries = {} THEN NotFound ELSE SeekDoc((CHOOSE e \in entries : TRUE).list, doc)

-----------------------------------------------------------------------------
(* Queries. *)

DocIds(postings) == [i \in DOMAIN postings |-> postings[i].doc_id]

(* The posting of a document, if there is one. *)
PostingOf(postings, doc) == {p \in Range(postings) : p.doc_id = doc}

TermContainsDoc(dictionary, term, doc) ==
    Try(SeekTermDoc(dictionary, term, doc), LAMBDA found : found # NotFound)

(* The documents of the shortest list that all others have. *)
InAll(docs) ==
    LET shortest == CHOOSE t \in DOMAIN docs : \A u \in DOMAIN docs :
                        Len(docs[t]) < Len(docs[u]) \/ (Len(docs[t]) = Len(docs[u]) /\ t <= u)
    IN  IF docs = << >> THEN << >>
        ELSE Chosen(docs[shortest], {i \in DOMAIN docs[shortest] :
                 \A t \in DOMAIN docs : docs[shortest][i] \in Range(docs[t])})

(* and_doc_ids: the lists are read up to the first that is empty. *)
AndDocIds(dictionary, terms) ==
    LET lists == [t \in DOMAIN terms |-> LookupTerm(dictionary, terms[t])]
        stops == {t \in DOMAIN terms : lists[t] = Err \/ lists[t] = << >>}
    IN  IF stops # {} THEN lists[Min(stops)]
        ELSE InAll([t \in DOMAIN terms |-> DocIds(lists[t])])

(* has_adjacent_phrase: the second term one position behind the first; it   *)
(* is not read where the first is not in the document.                      *)
HasAdjacentPhrase(dictionary, first, second, doc) ==
    Try(LookupTerm(dictionary, first), LAMBDA heads :
        IF PostingOf(heads, doc) = {} THEN FALSE
        ELSE Try(LookupTerm(dictionary, second), LAMBDA tails :
            \E a \in PostingOf(heads, doc), b \in PostingOf(tails, doc) :
                \E p \in Range(a.positions) : p + 1 \in Range(b.positions)))

(* top_k_by_term_frequency: scores in the order of first mention, sorted by *)
(* score and then by document.                                              *)
AddScore(scores, posting) ==
    LET score == Len(posting.positions)
        hit   == {i \in DOMAIN scores : scores[i].doc_id = posting.doc_id}
    IN  IF score = 0 THEN scores
        ELSE IF hit = {} THEN Append(scores, [doc_id |-> posting.doc_id, score |-> score])
        ELSE [i \in DOMAIN scores |->
                 IF i \in hit THEN [scores[i] EXCEPT !.score = @ + score] ELSE scores[i]]

Ranks(a, b) == a.score > b.score \/ (a.score = b.score /\ a.doc_id < b.doc_id)

(* Best first: the i-th is the one that i - 1 others outrank. *)
Ranked(scores) ==
    [i \in DOMAIN scores |-> CHOOSE s \in Range(scores) :
        Cardinality({t \in Range(scores) : Ranks(t, s)}) = i - 1]

TopK(dictionary, terms, k) ==
    IF k = 0 \/ terms = << >> THEN << >>
    ELSE TryAll([t \in DOMAIN terms |-> LookupTerm(dictionary, terms[t])], LAMBDA lists :
        LET scores == FoldLeft(AddScore, << >>, FlattenSeq(lists))
        IN  SubSeq(Ranked(scores), 1, Min({k, Len(scores)})))
=============================================================================
