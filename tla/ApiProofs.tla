----------------------------- MODULE ApiProofs -----------------------------
(***************************************************************************)
(* Proofs about Api, for any collections, tenants, documents and query ids *)
(* and any k.                                                              *)
(*                                                                         *)
(* The invariant is that a home, where there is one, is the collection the *)
(* entry is in (HomeIsRight), for the ids no failed rename has cut off.    *)
(* Every route that shows or replays an entry has looked it up in the      *)
(* collection of its path, so what a tenant is shown is in a collection of *)
(* its own.  A second invariant (Faith) says of the log that its entries   *)
(* are on disk, with the hits a search would find now.                     *)
(***************************************************************************)
EXTENDS Api, TLAPS

IsEntry(e) ==
  /\ e = [at |-> e.at, incl |-> e.incl, hits |-> e.hits]
  /\ e.at \in Coll

Typed ==
  /\ docs \in [Coll -> SUBSET DocId]
  /\ \A q \in DOMAIN queries : IsEntry(queries[q])
  /\ DOMAIN queries \subseteq QueryId
  /\ \A q \in DOMAIN homes : homes[q] \in Coll

HomeIsRight ==
  \A q \in DOMAIN queries \ cut : q \in DOMAIN homes => homes[q] = queries[q].at

\* The id in an answer the client has not taken is right too.
Resolves(q) == q \in DOMAIN queries /\ (q \in DOMAIN homes => homes[q] = queries[q].at)
AnswerIsRight ==
  reply # NoReply /\ reply.query \notin {NoQuery, Unlogged} => Resolves(reply.query)

Inv == Typed /\ HomeIsRight /\ AnswerIsRight

\* What TenantsAreApart says of one step of a tenant.
Spares(t) ==
  \A c \in {c \in Coll : c[1] # t} :
    /\ docs'[c] = docs[c]
    /\ c \in rows' <=> c \in rows
    /\ c # Common => (c \in disk' <=> c \in disk)
    /\ LoggedIn(c) \subseteq {q \in DOMAIN queries' : queries'[q].at = c}

ShowsOwn(t) ==
  \A q \in {reply'.query, reply'.of} \ {NoQuery, Unlogged} :
    queries'[q].at[1] = t \/ (q \notin DOMAIN queries /\ queries'[q].at = Common)

Apart(who) == reply'.who = who /\ (who \in Tenants => Spares(who) /\ ShowsOwn(who))

\* What RejectedIsContained says of one step.
Harmless ==
  reply'.status \in 400 .. 499 =>
    \/ UNCHANGED storeVars
    \/ reply'.code \in {"invalid_metadata_keys", "invalid_csv_options"} /\ CostsOneDocument
    \/ reply'.code = "rename_invalid" /\ LeavesNewName

-----------------------------------------------------------------------------
(* Answers and rows.                                                       *)

\* An answer of which only the status matters shows no query.
LEMMA SaysNothing ==
  ASSUME NEW who \in Who, NEW status \in Nat, Says(who, status)
  PROVE  /\ reply'.who = who /\ reply'.status = status /\ reply'.code = ""
         /\ reply'.query = NoQuery /\ reply'.of = NoQuery
         /\ AnswerIsRight'
  BY DEF Says, Error, AnswerIsRight

LEMMA SaysError ==
  ASSUME NEW who, NEW status, Says(who, status)
  PROVE  Error(who, status, "")
  BY DEF Says

LEMMA FindsFields ==
  ASSUME NEW who \in Who, NEW hits, NEW query, NEW of, Finds(who, hits, query, of)
  PROVE  /\ reply'.who = who /\ reply'.status = 200
         /\ reply'.query = query /\ reply'.of = of
  BY DEF Finds

\* Aging a log leaves every entry where it is.
LEMMA AgedStays ==
  ASSUME NEW qs, NEW c, \A q \in DOMAIN qs : IsEntry(qs[q])
  PROVE  /\ DOMAIN Aged(qs, c) = DOMAIN qs
         /\ \A q \in DOMAIN qs : Aged(qs, c)[q].at = qs[q].at /\ IsEntry(Aged(qs, c)[q])
<1>1. DOMAIN Aged(qs, c) = DOMAIN qs
  BY DEF Aged
<1>2. ASSUME NEW q \in DOMAIN qs PROVE Aged(qs, c)[q].at = qs[q].at /\ IsEntry(Aged(qs, c)[q])
  <2>1. Aged(qs, c)[q] = qs[q] \/ Aged(qs, c)[q] = [qs[q] EXCEPT !.hits = Outdated]
    BY DEF Aged
  <2>2. qs[q] = [at |-> qs[q].at, incl |-> qs[q].incl, hits |-> qs[q].hits] /\ qs[q].at \in Coll
    BY DEF IsEntry
  <2>3. [qs[q] EXCEPT !.hits = Outdated] = [at |-> qs[q].at, incl |-> qs[q].incl, hits |-> Outdated]
    BY <2>2
  <2>. QED BY <2>1, <2>2, <2>3 DEF IsEntry
<1>. QED BY <1>1, <1>2

\* A step that leaves the store as it is, and shows no query.
LEMMA NothingHappens ==
  ASSUME NEW who \in Who, NEW status \in Nat, Inv, Says(who, status),
         UNCHANGED <<disk, docs, rows, queries, homes, cut>>
  PROVE  Inv' /\ Apart(who) /\ Harmless
<1>1. Typed' /\ HomeIsRight'
  BY DEF Inv, Typed, HomeIsRight, IsEntry
<1>2. Spares(who)
  BY DEF Spares, LoggedIn
<1>3. Harmless
  BY DEF Harmless, storeVars
<1>. QED BY <1>1, <1>2, <1>3, SaysNothing DEF Inv, Apart, ShowsOwn

\* The same, whatever the answer's status and code.
LEMMA BreaksKeeps ==
  ASSUME NEW who \in Who, NEW status, NEW code, Inv, Error(who, status, code),
         UNCHANGED <<disk, docs, rows, queries, homes, cut>>
  PROVE  Inv' /\ Apart(who) /\ Harmless
<1>1. Typed' /\ HomeIsRight'
  BY DEF Inv, Typed, HomeIsRight, IsEntry
<1>2. Spares(who)
  BY DEF Spares, LoggedIn
<1>3. Harmless
  BY DEF Harmless, storeVars
<1>4. /\ reply'.who = who /\ reply'.query = NoQuery /\ reply'.of = NoQuery
      /\ AnswerIsRight'
  BY DEF Error, AnswerIsRight
<1>. QED BY <1>1, <1>2, <1>3, <1>4 DEF Inv, Apart, ShowsOwn

\* A tenant on a route of a collection owns it.
LEMMA OwnsPath ==
  ASSUME NEW who \in Who, NEW c \in Coll, MayAsk(who, c), who \in Tenants
  PROVE  c[1] = who
  BY ApiAssumption DEF MayAsk, Tenants

-----------------------------------------------------------------------------
(* Collections and documents: who may ask for it changes only what is his. *)

LEMMA CreateKeeps ==
  ASSUME NEW who \in Who, NEW c \in Coll, Inv, CreateCollection(who, c)
  PROVE  Inv' /\ Apart(who) /\ Harmless
<1>1. MayAsk(who, c) /\ UNCHANGED <<docs, queries, homes, cut>>
  BY DEF CreateCollection, Handles
<1>2. PICK status \in Nat :
        /\ Says(who, status) /\ status \in {400, 201, 500}
        /\ status # 400 \/ UNCHANGED <<disk, rows>>
        /\ disk' \in {disk, disk \cup {c}} /\ rows' \in {rows, rows \cup {c}}
  BY DEF CreateCollection, Fails
<1>3. Typed' /\ HomeIsRight'
  BY <1>1 DEF Inv, Typed, HomeIsRight, IsEntry
<1>4. who \in Tenants => Spares(who)
  BY <1>1, <1>2, OwnsPath DEF Spares, LoggedIn
<1>5. /\ reply'.who = who /\ reply'.status = status
      /\ reply'.query = NoQuery /\ reply'.of = NoQuery /\ AnswerIsRight'
  BY <1>2 DEF Says, Error, AnswerIsRight
<1>6. Harmless
  BY <1>1, <1>2, <1>5 DEF Harmless, storeVars
<1>. QED BY <1>3, <1>4, <1>5, <1>6 DEF Inv, Apart, ShowsOwn

LEMMA EraseKeeps ==
  ASSUME NEW who \in Who, NEW c \in Coll, Inv, MayAsk(who, c), Erase(who, c)
  PROVE  Inv' /\ Apart(who) /\ Harmless
<1> DEFINE left == DOMAIN queries \ LoggedIn(c)
<1>0. PICK qs : qs = Restrict(queries, left)
  OBVIOUS
<1>1. /\ disk' = disk \ {c} /\ rows' \in {rows, rows \ {c}}
      /\ docs' = [docs EXCEPT ![c] = {}]
      /\ queries' = Aged(qs, c) /\ cut' = cut \ LoggedIn(c)
      /\ homes' \in {homes, Restrict(homes, DOMAIN homes \ HomedIn(c))}
  BY <1>0 DEF Erase
<1>2. PICK status \in Nat : Says(who, status) /\ status \in {200, 500}
  BY DEF Erase, Fails
<1>3. DOMAIN qs = left /\ \A q \in left : qs[q] = queries[q]
  BY <1>0 DEF Restrict
<1>4. /\ DOMAIN queries' = left
      /\ \A q \in left : queries'[q].at = queries[q].at /\ IsEntry(queries'[q])
  <2>1. \A q \in DOMAIN qs : IsEntry(qs[q])
    BY <1>3 DEF Inv, Typed
  <2>2. /\ DOMAIN Aged(qs, c) = DOMAIN qs
        /\ \A q \in DOMAIN qs : Aged(qs, c)[q].at = qs[q].at /\ IsEntry(Aged(qs, c)[q])
    BY <2>1, AgedStays
  <2>. QED BY <1>1, <1>3, <2>2
<1>5. /\ DOMAIN homes' \subseteq DOMAIN homes
      /\ \A q \in DOMAIN homes' : homes'[q] = homes[q]
  BY <1>1 DEF Restrict
<1>6. Typed'
  <2>1. docs' \in [Coll -> SUBSET DocId]
    BY <1>1 DEF Inv, Typed
  <2>. QED BY <2>1, <1>4, <1>5 DEF Inv, Typed
<1>7. HomeIsRight'
  <2>. SUFFICES ASSUME NEW q \in DOMAIN queries' \ cut', q \in DOMAIN homes'
                PROVE  homes'[q] = queries'[q].at
    BY DEF HomeIsRight
  <2>1. q \in DOMAIN queries \ cut /\ q \in DOMAIN homes
    BY <1>1, <1>4, <1>5
  <2>. QED BY <2>1, <1>4, <1>5 DEF Inv, HomeIsRight
<1>8. who \in Tenants => Spares(who)
  <2>. SUFFICES ASSUME who \in Tenants, NEW d \in Coll, d[1] # who
                PROVE  /\ docs'[d] = docs[d]
                       /\ d \in rows' <=> d \in rows
                       /\ d \in disk' <=> d \in disk
                       /\ LoggedIn(d) \subseteq {q \in DOMAIN queries' : queries'[q].at = d}
    BY DEF Spares
  <2>1. d # c
    BY OwnsPath
  <2>2. docs'[d] = docs[d]
    BY <2>1, <1>1 DEF Inv, Typed
  <2>3. LoggedIn(d) \subseteq {q \in DOMAIN queries' : queries'[q].at = d}
    BY <2>1, <1>4 DEF LoggedIn
  <2>. QED BY <2>1, <2>2, <2>3, <1>1
<1>9. /\ reply'.who = who /\ reply'.status = status
      /\ reply'.query = NoQuery /\ reply'.of = NoQuery /\ AnswerIsRight'
  BY <1>2 DEF Says, Error, AnswerIsRight
<1>10. Harmless
  BY <1>2, <1>9 DEF Harmless
<1>. QED BY <1>6, <1>7, <1>8, <1>9, <1>10 DEF Inv, Apart, ShowsOwn

LEMMA DeleteKeeps ==
  ASSUME NEW who \in Who, NEW c \in Coll, Inv, DeleteCollection(who, c)
  PROVE  Inv' /\ Apart(who) /\ Harmless
<1>1. CASE Erase(who, c)
  BY <1>1, EraseKeeps DEF DeleteCollection, Handles
<1>2. CASE Breaks(who, 500, "")
  BY <1>2, BreaksKeeps DEF Breaks
<1>. QED BY <1>1, <1>2 DEF DeleteCollection

\* Where the entries are after a rename.
LEMMA Moved ==
  ASSUME NEW c \in Coll, NEW d \in Coll, Inv, Move(c, d)
  PROVE  /\ DOMAIN queries' = DOMAIN queries
         /\ \A q \in DOMAIN queries :
              /\ queries'[q].at = IF queries[q].at = c THEN d ELSE queries[q].at
              /\ IsEntry(queries'[q])
<1>1. DOMAIN queries' = DOMAIN queries
  BY DEF Move
<1>2. ASSUME NEW q \in DOMAIN queries
      PROVE  /\ queries'[q].at = IF queries[q].at = c THEN d ELSE queries[q].at
             /\ IsEntry(queries'[q])
  <2> DEFINE e == queries[q]
             at2 == IF e.at = c THEN d ELSE e.at
             hits2 == IF e.incl /\ Common \in {c, d} THEN Outdated ELSE e.hits
  <2>1. queries'[q] = [e EXCEPT !.at = at2, !.hits = hits2]
    BY DEF Move
  <2>2. e = [at |-> e.at, incl |-> e.incl, hits |-> e.hits] /\ e.at \in Coll
    BY DEF Inv, Typed, IsEntry
  <2> HIDE DEF e, at2, hits2
  <2>3. queries'[q] = [at |-> at2, incl |-> e.incl, hits |-> hits2]
    BY <2>1, <2>2
  <2>. QED BY <2>2, <2>3 DEF IsEntry, at2, e
<1>. QED BY <1>1, <1>2

LEMMA RenameKeeps ==
  ASSUME NEW who \in Who, NEW c \in Coll, NEW d \in Coll, Inv, RenameCollection(who, c, d)
  PROVE  Inv' /\ Apart(who) /\ Harmless
<1>1. MayAsk(who, c) /\ d[1] = c[1]
  BY DEF RenameCollection, Handles
<1>2. ASSUME NEW status, NEW code, Breaks(who, status, code)
      PROVE  Inv' /\ Apart(who) /\ Harmless
  BY <1>2, BreaksKeeps DEF Breaks
<1>3. CASE c # d /\ c \in disk /\ ~Clash(d) /\ Move(c, d) /\ Relabel(who, c, d)
  <2>1. /\ reply'.who = who /\ reply'.query = NoQuery /\ reply'.of = NoQuery
        /\ reply'.status \in {200, 500} \/ (reply'.code = "rename_invalid" /\ UNCHANGED homes)
    <3>1. \/ Says(who, 200) \/ Says(who, 500)
          \/ Error(who, 400, "rename_invalid") /\ UNCHANGED homes
      <4>1. Relabel(who, c, d)
        BY <1>3
      <4>. QED BY <4>1 DEF Relabel, Fails
    <3>2. CASE Says(who, 200)
      BY <3>2 DEF Says, Error
    <3>3. CASE Says(who, 500)
      BY <3>3 DEF Says, Error
    <3>4. CASE Error(who, 400, "rename_invalid") /\ UNCHANGED homes
      BY <3>4 DEF Error
    <3>. QED BY <3>1, <3>2, <3>3, <3>4
  <2>2. rows' \in {rows, rows \cup {c}, (rows \ {c}) \cup {d}}
    BY <1>3 DEF Relabel
  <2>3. \/ /\ homes' = [q \in DOMAIN homes |-> IF homes[q] = c THEN d ELSE homes[q]]
           /\ UNCHANGED cut
        \/ UNCHANGED homes /\ cut' = cut \cup (LoggedIn(c) \cap DOMAIN homes)
    BY <1>3 DEF Relabel
  <2>4. disk' = (disk \ {c}) \cup {d} /\ docs' = [docs EXCEPT ![d] = docs[c], ![c] = {}]
    BY <1>3 DEF Move
  <2>5. /\ DOMAIN queries' = DOMAIN queries
        /\ \A q \in DOMAIN queries :
             /\ queries'[q].at = IF queries[q].at = c THEN d ELSE queries[q].at
             /\ IsEntry(queries'[q])
    BY <1>3, Moved
  <2>6. Typed'
    <3>1. docs' \in [Coll -> SUBSET DocId]
      BY <2>4 DEF Inv, Typed
    <3>2. \A q \in DOMAIN homes' : homes'[q] \in Coll
      BY <2>3 DEF Inv, Typed
    <3>. QED BY <3>1, <3>2, <2>5 DEF Inv, Typed
  <2>7. HomeIsRight'
    <3>. SUFFICES ASSUME NEW q \in DOMAIN queries' \ cut', q \in DOMAIN homes'
                  PROVE  homes'[q] = queries'[q].at
      BY DEF HomeIsRight
    <3>1. q \in DOMAIN queries \ cut /\ q \in DOMAIN homes
      BY <2>3, <2>5
    <3>2. homes[q] = queries[q].at
      BY <3>1 DEF Inv, HomeIsRight
    <3>3. UNCHANGED homes =>
            \/ queries[q].at # c
            \/ homes' = [r \in DOMAIN homes |-> IF homes[r] = c THEN d ELSE homes[r]]
      BY <3>1, <2>3 DEF LoggedIn
    <3>. QED BY <3>1, <3>2, <3>3, <2>3, <2>5
  <2>8. who \in Tenants => Spares(who)
    <3>. SUFFICES ASSUME who \in Tenants, NEW x \in Coll, x[1] # who
                  PROVE  /\ docs'[x] = docs[x]
                         /\ x \in rows' <=> x \in rows
                         /\ x \in disk' <=> x \in disk
                         /\ LoggedIn(x) \subseteq {q \in DOMAIN queries' : queries'[q].at = x}
      BY DEF Spares
    <3>1. x # c /\ x # d
      BY <1>1, OwnsPath
    <3>2. docs'[x] = docs[x]
      BY <3>1, <2>4 DEF Inv, Typed
    <3>3. LoggedIn(x) \subseteq {q \in DOMAIN queries' : queries'[q].at = x}
      BY <3>1, <2>5 DEF LoggedIn
    <3>. QED BY <3>1, <3>2, <3>3, <2>2, <2>4
  <2>9. AnswerIsRight'
    BY <2>1 DEF AnswerIsRight
  <2>10. ASSUME UNCHANGED homes PROVE LeavesNewName
    <3>1. MayAsk(reply'.who, c) /\ MayAsk(reply'.who, d)
      BY <1>1, <2>1 DEF MayAsk
    <3>2. rows \ {c} \subseteq rows' /\ rows' \subseteq rows \cup {c, d}
      BY <2>2
    <3>3. \A q \in DOMAIN queries :
            queries'[q].at = IF q \in LoggedIn(c) THEN d ELSE queries[q].at
      BY <2>5 DEF LoggedIn
    <3>. QED BY <1>3, <2>4, <2>5, <2>10, <3>1, <3>2, <3>3 DEF LeavesNewName
  <2>11. Harmless
    BY <2>1, <2>10 DEF Harmless
  <2>. QED BY <2>1, <2>6, <2>7, <2>8, <2>9, <2>11 DEF Inv, Apart, ShowsOwn
<1>4. CASE Breaks(who, 400, "rename_invalid")
  BY <1>2, <1>4
<1>5. CASE Breaks(who, 500, "")
  BY <1>2, <1>5
<1>6. CASE Breaks(who, 404, "")
  BY <1>2, <1>6
<1>7. CASE Breaks(who, 409, "")
  BY <1>2, <1>7
<1>. QED BY <1>3, <1>4, <1>5, <1>6, <1>7 DEF RenameCollection

\* A step on a document of c: the log ages, and nothing else but c changes.
LEMMA DocumentKeeps ==
  ASSUME NEW who \in Who, NEW c \in Coll, NEW here \in SUBSET DocId, Inv, MayAsk(who, c),
         disk' = disk \cup {c}, rows' \in {rows, rows \cup {c}},
         docs' = [docs EXCEPT ![c] = here],
         queries' = Aged(queries, c), UNCHANGED <<homes, cut>>
  PROVE  Typed' /\ HomeIsRight' /\ (who \in Tenants => Spares(who))
<1>1. /\ DOMAIN queries' = DOMAIN queries
      /\ \A q \in DOMAIN queries : queries'[q].at = queries[q].at /\ IsEntry(queries'[q])
  BY AgedStays DEF Inv, Typed
<1>2. Typed'
  <2>1. docs' \in [Coll -> SUBSET DocId]
    BY DEF Inv, Typed
  <2>. QED BY <2>1, <1>1 DEF Inv, Typed
<1>3. HomeIsRight'
  BY <1>1 DEF Inv, HomeIsRight
<1>4. ASSUME who \in Tenants, NEW d \in Coll, d[1] # who
      PROVE  /\ docs'[d] = docs[d]
             /\ d \in rows' <=> d \in rows
             /\ d \in disk' <=> d \in disk
             /\ LoggedIn(d) \subseteq {q \in DOMAIN queries' : queries'[q].at = d}
  <2>1. d # c
    BY <1>4, OwnsPath
  <2>2. docs'[d] = docs[d]
    BY <2>1 DEF Inv, Typed
  <2>3. LoggedIn(d) \subseteq {q \in DOMAIN queries' : queries'[q].at = d}
    BY <1>1 DEF LoggedIn
  <2>. QED BY <2>1, <2>2, <2>3
<1>. QED BY <1>2, <1>3, <1>4 DEF Spares

LEMMA IngestKeeps ==
  ASSUME NEW who \in Who, NEW c \in Coll, NEW d \in DocId, Inv, IngestDocument(who, c, d)
  PROVE  Inv' /\ Apart(who) /\ Harmless
<1>1. MayAsk(who, c) /\ UNCHANGED <<homes, cut>>
  BY DEF IngestDocument, Handles
<1>2. CASE Unread(who, c, d)
  <2>1. PICK status, code : Error(who, status, code)
    BY <1>2 DEF Unread, Says
  <2>2. UNCHANGED <<disk, docs, rows, queries, homes, cut>>
    BY <1>1, <1>2 DEF Unread
  <2>. QED BY <2>1, <2>2, BreaksKeeps
<1>3. CASE ~Unread(who, c, d)
  <2>1. disk' = disk \cup {c} /\ queries' = Aged(queries, c) /\ rows' \in {rows, rows \cup {c}}
    BY <1>3 DEF IngestDocument
  <2>2. PICK here \in SUBSET DocId : docs' = [docs EXCEPT ![c] = here]
    <3>1. docs' \in {docs, [docs EXCEPT ![c] = @ \ {d}], [docs EXCEPT ![c] = @ \cup {d}]}
      BY <1>3 DEF IngestDocument
    <3>2. docs = [docs EXCEPT ![c] = docs[c]] /\ docs[c] \in SUBSET DocId
      BY DEF Inv, Typed
    <3>. QED BY <3>1, <3>2
  <2>3. Typed' /\ HomeIsRight' /\ (who \in Tenants => Spares(who))
    BY <1>1, <2>1, <2>2, DocumentKeeps
  <2>4. \/ Says(who, 201) \/ Says(who, 500)
        \/ /\ \/ Error(who, 400, "invalid_metadata_keys")
              \/ Error(who, 400, "invalid_csv_options")
           /\ docs' \in {docs, [docs EXCEPT ![c] = @ \ {d}]}
           /\ UNCHANGED rows
    BY <1>3 DEF IngestDocument, Fails
  <2>5. /\ reply'.who = who /\ reply'.query = NoQuery /\ reply'.of = NoQuery
        /\ \/ reply'.status \in {201, 500}
           \/ /\ reply'.code \in {"invalid_metadata_keys", "invalid_csv_options"}
              /\ docs' \in {docs, [docs EXCEPT ![c] = @ \ {d}]}
              /\ UNCHANGED rows
    <3>1. CASE Says(who, 201)
      BY <3>1 DEF Says, Error
    <3>2. CASE Says(who, 500)
      BY <3>2 DEF Says, Error
    <3>3. CASE /\ \/ Error(who, 400, "invalid_metadata_keys")
                  \/ Error(who, 400, "invalid_csv_options")
               /\ docs' \in {docs, [docs EXCEPT ![c] = @ \ {d}]}
               /\ UNCHANGED rows
      BY <3>3 DEF Error
    <3>. QED BY <2>4, <3>1, <3>2, <3>3
  <2>6. AnswerIsRight'
    BY <2>5 DEF AnswerIsRight
  <2>7. ASSUME docs' \in {docs, [docs EXCEPT ![c] = @ \ {d}]}, UNCHANGED rows
        PROVE  CostsOneDocument
    BY <1>1, <2>1, <2>5, <2>7 DEF CostsOneDocument
  <2>8. Harmless
    BY <2>5, <2>7 DEF Harmless
  <2>. QED BY <2>3, <2>5, <2>6, <2>8 DEF Inv, Apart, ShowsOwn
<1>. QED BY <1>2, <1>3

LEMMA PurgeKeeps ==
  ASSUME NEW who \in Who, NEW c \in Coll, NEW d \in DocId, Inv, MayAsk(who, c), Purge(who, c, d)
  PROVE  Inv' /\ Apart(who) /\ Harmless
<1>1. /\ UNCHANGED <<homes, cut>>
      /\ disk' = disk \cup {c} /\ queries' = Aged(queries, c) /\ rows' \in {rows, rows \cup {c}}
  BY DEF Purge
<1>2. PICK here \in SUBSET DocId : docs' = [docs EXCEPT ![c] = here]
  <2>1. docs' \in {docs, [docs EXCEPT ![c] = @ \ {d}]}
    BY DEF Purge
  <2>2. docs = [docs EXCEPT ![c] = docs[c]] /\ docs[c] \in SUBSET DocId
    BY DEF Inv, Typed
  <2>. QED BY <2>1, <2>2
<1>3. Typed' /\ HomeIsRight' /\ (who \in Tenants => Spares(who))
  BY <1>1, <1>2, DocumentKeeps
<1>4. PICK status \in Nat : Says(who, status) /\ status \in {200, 500}
  BY DEF Purge, Fails
<1>5. /\ reply'.who = who /\ reply'.status \in {200, 500}
      /\ reply'.query = NoQuery /\ reply'.of = NoQuery
  BY <1>4 DEF Says, Error
<1>6. AnswerIsRight'
  BY <1>5 DEF AnswerIsRight
<1>7. Harmless
  BY <1>5 DEF Harmless
<1>. QED BY <1>3, <1>5, <1>6, <1>7 DEF Inv, Apart, ShowsOwn

LEMMA DeleteDocumentKeeps ==
  ASSUME NEW who \in Who, NEW c \in Coll, NEW d \in DocId, Inv, DeleteDocument(who, c, d)
  PROVE  Inv' /\ Apart(who) /\ Harmless
<1>1. CASE Purge(who, c, d)
  BY <1>1, PurgeKeeps DEF DeleteDocument, Handles
<1>2. CASE Breaks(who, 500, "")
  BY <1>2, BreaksKeeps DEF Breaks
<1>. QED BY <1>1, <1>2 DEF DeleteDocument

-----------------------------------------------------------------------------
(* Requests that read.                                                     *)

LEMMA RefuseKeeps ==
  ASSUME NEW who \in Who, NEW c \in Coll, Inv, Refuse(who, c)
  PROVE  Inv' /\ Apart(who) /\ Harmless
<1>1. PICK status \in Nat : Says(who, status)
  BY DEF Refuse
<1>2. UNCHANGED <<disk, docs, rows, queries, homes, cut>>
  BY DEF Refuse
<1>. QED BY <1>1, <1>2, NothingHappens

LEMMA ReadsKeep ==
  ASSUME NEW who \in Who, NEW c \in Coll, Inv,
         ListCatalog(who, c) \/ GetDetail(who, c) \/ ListCollection(who, c)
  PROVE  Inv' /\ Apart(who) /\ Harmless
<1>1. PICK status \in Nat : Says(who, status)
  BY DEF ListCatalog, GetDetail, ListCollection
<1>2. UNCHANGED <<disk, docs, rows, queries, homes, cut>>
  BY DEF ListCatalog, GetDetail, ListCollection
<1>. QED BY <1>1, <1>2, NothingHappens

LEMMA DocumentReadKeeps ==
  ASSUME NEW who \in Who, NEW c \in Coll, NEW d \in DocId, Inv, GetDocument(who, c, d)
  PROVE  Inv' /\ Apart(who) /\ Harmless
<1>1. PICK status \in Nat : Says(who, status)
  BY DEF GetDocument
<1>2. UNCHANGED <<disk, docs, rows, queries, homes, cut>>
  BY DEF GetDocument
<1>. QED BY <1>1, <1>2, NothingHappens

-----------------------------------------------------------------------------
(* Searches and replays.                                                   *)

\* Where a request may search: in a collection of its tenant, or the common one.
MaySearch(who, c) == who \in Tenants => c[1] = who \/ c = Common

\* What a replay may be of: an entry in the collection, which is the tenant's own.
MayReplay(who, c, of) ==
  of # NoQuery => /\ of \in DOMAIN queries /\ queries[of].at = c
                  /\ who \in Tenants => c[1] = who

\* A search adds at most one entry, with a fresh id, in the collection it
\* looked into, and nothing else.
LEMMA SearchAdds ==
  ASSUME NEW c \in Coll, NEW incl, NEW hits, NEW q, Inv, Log(c, incl, hits, q)
  PROVE  /\ \A r \in DOMAIN queries : r \in DOMAIN queries' /\ queries'[r] = queries[r]
         /\ \A r \in DOMAIN queries' \ DOMAIN queries :
              /\ r = q /\ r \in QueryId /\ r \notin DOMAIN homes
              /\ IsEntry(queries'[r]) /\ queries'[r].at = c
         /\ \A r \in DOMAIN homes : r \in DOMAIN homes' /\ homes'[r] = homes[r]
         /\ \A r \in DOMAIN homes' \ DOMAIN homes : r = q /\ homes'[r] = c
         /\ q # NoQuery => q \in DOMAIN queries' \ DOMAIN queries
<1>1. CASE UNCHANGED <<queries, homes>> /\ q = NoQuery
  BY <1>1
<1>2. CASE ~(UNCHANGED <<queries, homes>> /\ q = NoQuery)
  <2>1. /\ q \in QueryId /\ q \notin DOMAIN queries /\ q \notin DOMAIN homes
        /\ queries' = Put(queries, q, [at |-> c, incl |-> incl, hits |-> hits])
        /\ homes' \in {homes, Put(homes, q, c)}
    BY <1>2 DEF Log, NewId, InUse
  <2>2. /\ DOMAIN queries' = DOMAIN queries \cup {q}
        /\ queries'[q] = [at |-> c, incl |-> incl, hits |-> hits]
        /\ \A r \in DOMAIN queries : queries'[r] = queries[r]
    BY <2>1 DEF Put
  <2>3. /\ DOMAIN homes' \in {DOMAIN homes, DOMAIN homes \cup {q}}
        /\ \A r \in DOMAIN homes : homes'[r] = homes[r]
        /\ q \in DOMAIN homes' => homes'[q] = c
    BY <2>1 DEF Put
  <2>. QED BY <2>1, <2>2, <2>3 DEF IsEntry
<1>. QED BY <1>1, <1>2

\* What a search adds keeps the invariant and the collections of the others.
LEMMA LogKeeps ==
  ASSUME NEW who \in Who, NEW c \in Coll, NEW incl, NEW hits, NEW q, Inv,
         Log(c, incl, hits, q), MaySearch(who, c), Loads(c, incl), UNCHANGED <<docs, rows, cut>>
  PROVE  Typed' /\ HomeIsRight' /\ (who \in Tenants => Spares(who))
<1> DEFINE Added(r) == r = q /\ r \in QueryId /\ r \notin DOMAIN homes
                       /\ IsEntry(queries'[r]) /\ queries'[r].at = c
<1>1. /\ \A r \in DOMAIN queries : r \in DOMAIN queries' /\ queries'[r] = queries[r]
      /\ \A r \in DOMAIN queries' \ DOMAIN queries : Added(r)
      /\ \A r \in DOMAIN homes : r \in DOMAIN homes' /\ homes'[r] = homes[r]
      /\ \A r \in DOMAIN homes' \ DOMAIN homes : r = q /\ homes'[r] = c
      /\ q # NoQuery => q \in DOMAIN queries' \ DOMAIN queries
  BY SearchAdds
<1>2. Typed'
  <2>1. \A r \in DOMAIN queries' : r \in QueryId /\ IsEntry(queries'[r])
    BY <1>1 DEF Inv, Typed, IsEntry
  <2>2. \A r \in DOMAIN homes' : homes'[r] \in Coll
    BY <1>1 DEF Inv, Typed
  <2>. QED BY <2>1, <2>2 DEF Inv, Typed, IsEntry
<1>3. HomeIsRight'
  <2>. SUFFICES ASSUME NEW r \in DOMAIN queries' \ cut', r \in DOMAIN homes'
                PROVE  homes'[r] = queries'[r].at
    BY DEF HomeIsRight
  <2>1. CASE r \in DOMAIN queries
    <3>1. r \in DOMAIN homes
      BY <2>1, <1>1, ApiAssumption DEF Inv, Typed
    <3>. QED BY <3>1, <2>1, <1>1 DEF Inv, HomeIsRight
  <2>2. CASE r \notin DOMAIN queries
    BY <2>2, <1>1
  <2>. QED BY <2>1, <2>2
<1>4. ASSUME who \in Tenants, NEW d \in Coll, d[1] # who
      PROVE  /\ docs'[d] = docs[d]
             /\ d \in rows' <=> d \in rows
             /\ d # Common => (d \in disk' <=> d \in disk)
             /\ LoggedIn(d) \subseteq {r \in DOMAIN queries' : queries'[r].at = d}
  <2>1. d # Common => d # c
    BY <1>4 DEF MaySearch
  <2>2. d # Common => (d \in disk' <=> d \in disk)
    BY <2>1 DEF Loads
  <2>3. LoggedIn(d) \subseteq {r \in DOMAIN queries' : queries'[r].at = d}
    BY <1>1 DEF LoggedIn
  <2>. QED BY <2>2, <2>3
<1>. QED BY <1>2, <1>3, <1>4 DEF Spares

\* What is shown of a search, or of the replay of an entry, is right.
LEMMA AnswerKeeps ==
  ASSUME NEW who \in Who, NEW c \in Coll, NEW incl, NEW hits, NEW q, NEW of, NEW shown, Inv,
         Log(c, incl, hits, q), MaySearch(who, c), MayReplay(who, c, of),
         shown \in {q, Unlogged}, Finds(who, hits, shown, of)
  PROVE  /\ AnswerIsRight' /\ Harmless
         /\ reply'.who = who /\ (who \in Tenants => ShowsOwn(who))
<1>1. /\ \A r \in DOMAIN queries : r \in DOMAIN queries' /\ queries'[r] = queries[r]
      /\ \A r \in DOMAIN queries' \ DOMAIN queries :
           /\ r = q /\ r \in QueryId /\ r \notin DOMAIN homes
           /\ IsEntry(queries'[r]) /\ queries'[r].at = c
      /\ \A r \in DOMAIN homes : r \in DOMAIN homes' /\ homes'[r] = homes[r]
      /\ \A r \in DOMAIN homes' \ DOMAIN homes : r = q /\ homes'[r] = c
      /\ q # NoQuery => q \in DOMAIN queries' \ DOMAIN queries
  BY SearchAdds
<1>2. reply'.who = who /\ reply'.status = 200 /\ reply'.query = shown /\ reply'.of = of
  BY FindsFields
<1>3. AnswerIsRight'
  <2>1. shown \notin {NoQuery, Unlogged} => Resolves(shown)'
    BY <1>1 DEF Resolves
  <2>. QED BY <1>2, <2>1 DEF AnswerIsRight, Resolves
<1>4. ASSUME who \in Tenants, NEW r \in {shown, of} \ {NoQuery, Unlogged}
      PROVE  queries'[r].at[1] = who \/ (r \notin DOMAIN queries /\ queries'[r].at = Common)
  <2>1. CASE r = shown
    BY <2>1, <1>4, <1>1 DEF MaySearch
  <2>2. CASE r = of
    BY <2>2, <1>4, <1>1 DEF MayReplay
  <2>. QED BY <2>1, <2>2
<1>5. who \in Tenants => ShowsOwn(who)
  BY <1>2, <1>4 DEF ShowsOwn
<1>6. Harmless
  BY <1>2 DEF Harmless
<1>. QED BY <1>2, <1>3, <1>5, <1>6

\* A step that changes disk as a search does, and shows no query.
LEMMA NothingFound ==
  ASSUME NEW who \in Who, NEW status \in Nat, status \in {500, 503}, Says(who, status),
         Typed', HomeIsRight', who \in Tenants => Spares(who)
  PROVE  Inv' /\ Apart(who) /\ Harmless
<1>1. /\ reply'.who = who /\ reply'.status = status
      /\ reply'.query = NoQuery /\ reply'.of = NoQuery /\ AnswerIsRight'
  BY DEF Says, Error, AnswerIsRight
<1>2. Harmless
  BY <1>1 DEF Harmless
<1>. QED BY <1>1, <1>2 DEF Inv, Apart, ShowsOwn

LEMMA SearchKeeps ==
  ASSUME NEW who \in Who, NEW c \in Coll, NEW incl, NEW of, Inv,
         SearchIn(who, c, incl, of), MaySearch(who, c), MayReplay(who, c, of)
  PROVE  Inv' /\ Apart(who) /\ Harmless
<1>1. \/ \E q \in QueryId \cup {NoQuery} : \E hits, shown :
           /\ Loads(c, incl) /\ Log(c, incl, hits, q) /\ UNCHANGED <<docs, rows, cut>>
           /\ shown = Answered(q, of)
           /\ Finds(who, hits, shown, of) \/ Says(who, 503)
      \/ /\ Loads(c, incl) \/ UNCHANGED disk
         /\ Says(who, 500) /\ UNCHANGED <<docs, rows, queries, homes, cut>>
  BY DEF SearchIn
<1>2. ASSUME NEW q \in QueryId \cup {NoQuery}, NEW hits, NEW shown,
             Loads(c, incl), Log(c, incl, hits, q), UNCHANGED <<docs, rows, cut>>,
             shown = Answered(q, of), Finds(who, hits, shown, of) \/ Says(who, 503)
      PROVE  Inv' /\ Apart(who) /\ Harmless
  <2>1. Typed' /\ HomeIsRight' /\ (who \in Tenants => Spares(who))
    BY <1>2, LogKeeps
  <2>2. shown \in {q, Unlogged}
    BY <1>2 DEF Answered
  <2>3. CASE Finds(who, hits, shown, of)
    <3>1. /\ AnswerIsRight' /\ Harmless
          /\ reply'.who = who /\ (who \in Tenants => ShowsOwn(who))
      BY <1>2, <2>2, <2>3, AnswerKeeps
    <3>. QED BY <2>1, <3>1 DEF Inv, Apart
  <2>4. CASE Says(who, 503)
    BY <2>1, <2>4, NothingFound
  <2>. QED BY <1>2, <2>3, <2>4
<1>3. ASSUME Loads(c, incl) \/ UNCHANGED disk,
             Says(who, 500), UNCHANGED <<docs, rows, queries, homes, cut>>
      PROVE  Inv' /\ Apart(who) /\ Harmless
  <2>1. Typed' /\ HomeIsRight'
    BY <1>3 DEF Inv, Typed, HomeIsRight, IsEntry
  <2>2. who \in Tenants => Spares(who)
    <3>1. disk' \in {disk, disk \cup {c}, disk \cup {c, Common}}
      BY <1>3 DEF Loads
    <3>. QED BY <1>3, <3>1 DEF MaySearch, Spares, LoggedIn
  <2>. QED BY <1>3, <2>1, <2>2, NothingFound
<1>. QED BY <1>1, <1>2, <1>3

\* An entry is shown only where it was found.
LEMMA EntryKeeps ==
  ASSUME NEW who \in Who, NEW c \in Coll, NEW q \in QueryId, Inv, MayAsk(who, c),
         GetEntry(who, c, q)
  PROVE  Inv' /\ Apart(who) /\ Harmless
<1>1. UNCHANGED <<disk, docs, rows, queries, homes, cut>>
  BY DEF GetEntry
<1>2. CASE Found(c, q) /\ Finds(who, <<>>, q, NoQuery)
  <2>1. /\ q \in DOMAIN queries /\ queries[q].at = c
        /\ q \in DOMAIN homes => homes[q] = c
    BY <1>2 DEF Found, HomeMismatch, LoggedIn
  <2>2. reply'.who = who /\ reply'.status = 200 /\ reply'.query = q /\ reply'.of = NoQuery
    BY <1>2, FindsFields
  <2>3. Typed' /\ HomeIsRight'
    BY <1>1 DEF Inv, Typed, HomeIsRight, IsEntry
  <2>4. AnswerIsRight'
    BY <1>1, <2>1, <2>2 DEF AnswerIsRight, Resolves
  <2>5. who \in Tenants => Spares(who)
    BY <1>1 DEF Spares, LoggedIn
  <2>6. who \in Tenants => ShowsOwn(who)
    BY <1>1, <2>1, <2>2, OwnsPath DEF ShowsOwn
  <2>7. Harmless
    BY <2>2 DEF Harmless
  <2>. QED BY <2>2, <2>3, <2>4, <2>5, <2>6, <2>7 DEF Inv, Apart
<1>3. CASE ~(Found(c, q) /\ Finds(who, <<>>, q, NoQuery))
  <2>1. PICK status \in Nat : Says(who, status)
    BY <1>3 DEF GetEntry
  <2>. QED BY <1>1, <2>1, NothingHappens
<1>. QED BY <1>2, <1>3

LEMMA OverloadedKeeps ==
  ASSUME NEW who \in Who, Inv, Overloaded(who)
  PROVE  Inv' /\ Apart(who) /\ Harmless
<1>1. PICK status \in Nat : Says(who, status)
  BY DEF Overloaded
<1>2. UNCHANGED <<disk, docs, rows, queries, homes, cut>>
  BY DEF Overloaded
<1>. QED BY <1>1, <1>2, NothingHappens

LEMMA ReplayKeeps ==
  ASSUME NEW who \in Who, NEW c \in Coll, NEW q \in QueryId, Inv, MayAsk(who, c),
         Replay(who, c, q)
  PROVE  Inv' /\ Apart(who) /\ Harmless
<1>1. CASE Overloaded(who)
  BY <1>1, OverloadedKeeps
<1>2. CASE Found(c, q) /\ Rerun(who, c, q)
  <2>1. PICK incl : incl = queries[q].incl /\ SearchIn(who, c, incl, q)
    BY <1>2 DEF Rerun
  <2>2. MaySearch(who, c)
    BY OwnsPath DEF MaySearch
  <2>3. MayReplay(who, c, q)
    BY <1>2, OwnsPath DEF MayReplay, Found, LoggedIn
  <2>. QED BY <2>1, <2>2, <2>3, SearchKeeps
<1>3. CASE /\ \E status \in {404, 500, 503} : Says(who, status)
           /\ UNCHANGED <<disk, docs, rows, queries, homes, cut, faults>>
  <2>1. PICK status \in Nat : Says(who, status)
    BY <1>3
  <2>2. UNCHANGED <<disk, docs, rows, queries, homes, cut>>
    BY <1>3
  <2>. QED BY <2>1, <2>2, NothingHappens
<1>. QED BY <1>1, <1>2, <1>3 DEF Replay

LEMMA NoHomeKeeps ==
  ASSUME NEW who \in Who, NEW q \in QueryId, Inv, NoHome(who, q)
  PROVE  Inv' /\ Apart(who) /\ Harmless
<1>1. PICK status \in Nat : Says(who, status)
  BY DEF NoHome
<1>2. UNCHANGED <<disk, docs, rows, queries, homes, cut>>
  BY DEF NoHome
<1>. QED BY <1>1, <1>2, NothingHappens

\* The admin may ask for any collection, so for the home of any query.
LEMMA AdminKeeps ==
  ASSUME NEW who \in Who, NEW q \in QueryId, Inv,
         AdminGetQuery(who, q) \/ AdminReplay(who, q)
  PROVE  Inv' /\ Apart(who) /\ Harmless
<1>1. q \in DOMAIN homes => homes[q] \in Coll
  BY DEF Inv, Typed
<1>2. \/ NoHome(who, q)
      \/ \E c \in Coll : MayAsk(who, c) /\ GetEntry(who, c, q)
      \/ \E c \in Coll : MayAsk(who, c) /\ Replay(who, c, q)
  BY <1>1 DEF AdminGetQuery, AdminReplay, HandlesAdmin, MayAsk
<1>3. CASE NoHome(who, q)
  BY <1>3, NoHomeKeeps
<1>4. CASE \E c \in Coll : MayAsk(who, c) /\ GetEntry(who, c, q)
  BY <1>4, EntryKeeps
<1>5. CASE \E c \in Coll : MayAsk(who, c) /\ Replay(who, c, q)
  BY <1>5, ReplayKeeps
<1>. QED BY <1>2, <1>3, <1>4, <1>5

LEMMA QueryRoutesKeep ==
  ASSUME NEW who \in Who, NEW c \in Coll, NEW q \in QueryId, Inv,
         GetQuery(who, c, q) \/ ReplayQuery(who, c, q)
  PROVE  Inv' /\ Apart(who) /\ Harmless
<1>1. MayAsk(who, c) /\ (GetEntry(who, c, q) \/ Replay(who, c, q))
  BY DEF GetQuery, ReplayQuery, Handles
<1>2. CASE GetEntry(who, c, q)
  BY <1>1, <1>2, EntryKeeps
<1>3. CASE Replay(who, c, q)
  BY <1>1, <1>3, ReplayKeeps
<1>. QED BY <1>1, <1>2, <1>3

LEMMA SearchCollectionKeeps ==
  ASSUME NEW who \in Who, NEW c \in Coll, Inv, SearchCollection(who, c)
  PROVE  Inv' /\ Apart(who) /\ Harmless
<1>1. CASE Overloaded(who)
  BY <1>1, OverloadedKeeps
<1>2. CASE SearchIn(who, c, CommonEnabled, NoQuery)
  <2>1. MaySearch(who, c)
    BY OwnsPath DEF MaySearch, SearchCollection, Handles
  <2>2. MayReplay(who, c, NoQuery)
    BY DEF MayReplay
  <2>. QED BY <1>2, <2>1, <2>2, SearchKeeps
<1>. QED BY <1>1, <1>2 DEF SearchCollection

LEMMA SearchCommonKeeps ==
  ASSUME NEW who \in Who, Inv, SearchCommon(who)
  PROVE  Inv' /\ Apart(who) /\ Harmless
<1>1. CASE Overloaded(who)
  BY <1>1, OverloadedKeeps
<1>2. CASE SearchIn(who, Common, FALSE, NoQuery)
  <2>1. Common \in Coll /\ MaySearch(who, Common) /\ MayReplay(who, Common, NoQuery)
    BY ApiAssumption DEF MaySearch, MayReplay
  <2>. QED BY <1>2, <2>1, SearchKeeps
<1>3. CASE /\ Finds(who, <<>>, NoQuery, NoQuery)
           /\ UNCHANGED <<disk, docs, rows, queries, homes, cut, faults>>
  <2>1. reply'.who = who /\ reply'.status = 200 /\ reply'.query = NoQuery /\ reply'.of = NoQuery
    BY <1>3, FindsFields
  <2>2. Typed' /\ HomeIsRight'
    BY <1>3 DEF Inv, Typed, HomeIsRight, IsEntry
  <2>3. AnswerIsRight'
    BY <2>1 DEF AnswerIsRight
  <2>4. Spares(who)
    BY <1>3 DEF Spares, LoggedIn
  <2>5. ShowsOwn(who)
    BY <2>1 DEF ShowsOwn
  <2>6. Harmless
    BY <2>1 DEF Harmless
  <2>. QED BY <2>1, <2>2, <2>3, <2>4, <2>5, <2>6 DEF Inv, Apart
<1>. QED BY <1>1, <1>2, <1>3 DEF SearchCommon

-----------------------------------------------------------------------------
(* The specification.                                                      *)

LEMMA RequestKeeps ==
  ASSUME NEW who \in Who, Inv, Request(who)
  PROVE  Inv' /\ Apart(who) /\ Harmless
<1>1. ASSUME NEW c \in Coll, Refuse(who, c)
      PROVE  Inv' /\ Apart(who) /\ Harmless
  BY <1>1, RefuseKeeps
<1>2. ASSUME NEW c \in Coll, CreateCollection(who, c)
      PROVE  Inv' /\ Apart(who) /\ Harmless
  BY <1>2, CreateKeeps
<1>3. ASSUME NEW c \in Coll, DeleteCollection(who, c)
      PROVE  Inv' /\ Apart(who) /\ Harmless
  BY <1>3, DeleteKeeps
<1>4. ASSUME NEW c \in Coll, NEW d \in Coll, RenameCollection(who, c, d)
      PROVE  Inv' /\ Apart(who) /\ Harmless
  BY <1>4, RenameKeeps
<1>5. ASSUME NEW c \in Coll, NEW d \in DocId, IngestDocument(who, c, d)
      PROVE  Inv' /\ Apart(who) /\ Harmless
  BY <1>5, IngestKeeps
<1>6. ASSUME NEW c \in Coll, NEW d \in DocId, DeleteDocument(who, c, d)
      PROVE  Inv' /\ Apart(who) /\ Harmless
  BY <1>6, DeleteDocumentKeeps
<1>7. ASSUME NEW c \in Coll, ListCatalog(who, c) \/ GetDetail(who, c) \/ ListCollection(who, c)
      PROVE  Inv' /\ Apart(who) /\ Harmless
  BY <1>7, ReadsKeep
<1>8. ASSUME NEW c \in Coll, NEW d \in DocId, GetDocument(who, c, d)
      PROVE  Inv' /\ Apart(who) /\ Harmless
  BY <1>8, DocumentReadKeeps
<1>9. ASSUME NEW c \in Coll, SearchCollection(who, c)
      PROVE  Inv' /\ Apart(who) /\ Harmless
  BY <1>9, SearchCollectionKeeps
<1>10. ASSUME NEW c \in Coll, NEW q \in QueryId, GetQuery(who, c, q) \/ ReplayQuery(who, c, q)
       PROVE  Inv' /\ Apart(who) /\ Harmless
  BY <1>10, QueryRoutesKeep
<1>11. CASE SearchCommon(who)
  BY <1>11, SearchCommonKeeps
<1>12. ASSUME NEW q \in QueryId, AdminGetQuery(who, q) \/ AdminReplay(who, q)
       PROVE  Inv' /\ Apart(who) /\ Harmless
  BY <1>12, AdminKeeps
<1>. QED BY <1>1, <1>2, <1>3, <1>4, <1>5, <1>6, <1>7, <1>8, <1>9, <1>10, <1>11, <1>12
         DEF Request

LEMMA TakeKeeps ==
  ASSUME Inv, Take
  PROVE  Inv' /\ reply # NoReply
<1>1. reply # NoReply /\ reply' = NoReply /\ UNCHANGED <<disk, docs, rows, queries, homes, cut>>
  BY DEF Take
<1>. QED BY <1>1 DEF Inv, Typed, HomeIsRight, IsEntry, AnswerIsRight

LEMMA Initially == ApiInit => Inv
<1>. SUFFICES ASSUME ApiInit PROVE Inv
  OBVIOUS
<1>1. DOMAIN queries = {} /\ DOMAIN homes = {} /\ reply = NoReply
  BY DEF ApiInit
<1>2. docs \in [Coll -> SUBSET DocId]
  BY DEF ApiInit
<1>. QED BY <1>1, <1>2 DEF Inv, Typed, HomeIsRight, AnswerIsRight

LEMMA StepKeeps ==
  ASSUME Inv, [ApiNext]_apiVars
  PROVE  /\ Inv'
         /\ reply = NoReply /\ reply' # NoReply =>
              \E who \in Who : Apart(who) /\ Harmless
<1>1. CASE Take
  BY <1>1, TakeKeeps
<1>2. ASSUME NEW who \in Who, Request(who)
      PROVE  Inv' /\ Apart(who) /\ Harmless
  BY <1>2, RequestKeeps
<1>3. CASE UNCHANGED apiVars
  <2>1. UNCHANGED <<docs, queries, homes, cut, reply>>
    BY <1>3 DEF apiVars
  <2>. QED BY <2>1 DEF Inv, Typed, HomeIsRight, IsEntry, AnswerIsRight, Resolves
<1>. QED BY <1>1, <1>2, <1>3 DEF ApiNext

\* The invariant says of homes what the property says of lookups.
LEMMA InvResolves == Inv => QueryIdResolves
<1>. SUFFICES ASSUME Inv PROVE QueryIdResolves
  OBVIOUS
<1>1. ASSUME NEW q \in DOMAIN queries \ cut PROVE Found(queries[q].at, q)
  BY DEF Inv, HomeIsRight, Found, HomeMismatch, LoggedIn
<1>2. ASSUME reply # NoReply, reply.query \notin {NoQuery, Unlogged}
      PROVE  reply.query \in DOMAIN queries /\ Found(queries[reply.query].at, reply.query)
  BY <1>2 DEF Inv, AnswerIsRight, Resolves, Found, HomeMismatch, LoggedIn
<1>. QED BY <1>1, <1>2 DEF QueryIdResolves

\* In every state, whatever requests have failed half way, the id of a logged
\* query is found in the collection the query is in now, also after renames and
\* when its home could not be written (service.py, metadb.py).
THEOREM IdsResolve == ApiSpec => []QueryIdResolves
<1>1. ApiInit => Inv
  BY Initially
<1>2. Inv /\ [ApiNext]_apiVars => Inv'
  BY StepKeeps
<1>3. Inv => QueryIdResolves
  BY InvResolves
<1>. QED BY <1>1, <1>2, <1>3, PTL DEF ApiSpec

\* No route lets a tenant change a collection of another, or shows or replays a
\* query that was made in one, for any keys, names and ids (auth.py, routes).
THEOREM TenantsStayApart == ApiSpec => TenantsAreApart
<1> DEFINE ApartStep ==
      \A t \in Tenants : reply = NoReply /\ reply' # NoReply /\ reply'.who = t =>
        /\ \A c \in {c \in Coll : c[1] # t} :
             /\ docs'[c] = docs[c]
             /\ c \in rows' <=> c \in rows
             /\ c # Common => (c \in disk' <=> c \in disk)
             /\ LoggedIn(c) \subseteq {q \in DOMAIN queries' : queries'[q].at = c}
        /\ \A q \in {reply'.query, reply'.of} \ {NoQuery, Unlogged} :
             queries'[q].at[1] = t \/ (q \notin DOMAIN queries /\ queries'[q].at = Common)
<1>1. ApiInit => Inv
  BY Initially
<1>2. Inv /\ [ApiNext]_apiVars => Inv'
  BY StepKeeps
<1>3. Inv /\ [ApiNext]_apiVars => [ApartStep]_apiVars
  <2>. SUFFICES ASSUME Inv, [ApiNext]_apiVars PROVE ApartStep
    OBVIOUS
  <2>1. ASSUME NEW t \in Tenants, reply = NoReply, reply' # NoReply, reply'.who = t
        PROVE  Spares(t) /\ ShowsOwn(t)
    <3>1. PICK who \in Who : Apart(who)
      BY <2>1, StepKeeps
    <3>2. who = t
      BY <3>1, <2>1 DEF Apart
    <3>. QED BY <3>1, <3>2 DEF Apart
  <2>. QED BY <2>1 DEF Spares, ShowsOwn
<1>. QED BY <1>1, <1>2, <1>3, PTL DEF ApiSpec, TenantsAreApart

\* A client's error costs nothing but what an ingest or a rename that fails half way
\* takes with it: one document, or the old name of a collection (service.py,
\* ingest_document and rename_collection).
THEOREM RejectionsAreContained == ApiSpec => RejectedIsContained
<1> DEFINE HarmlessStep ==
      reply = NoReply /\ reply' # NoReply /\ reply'.status \in 400 .. 499 =>
        \/ UNCHANGED storeVars
        \/ reply'.code \in {"invalid_metadata_keys", "invalid_csv_options"} /\ CostsOneDocument
        \/ reply'.code = "rename_invalid" /\ LeavesNewName
<1>1. ApiInit => Inv
  BY Initially
<1>2. Inv /\ [ApiNext]_apiVars => Inv'
  BY StepKeeps
<1>3. Inv /\ [ApiNext]_apiVars => [HarmlessStep]_apiVars
  BY StepKeeps DEF Harmless
<1>. QED BY <1>1, <1>2, <1>3, PTL DEF ApiSpec, RejectedIsContained
-----------------------------------------------------------------------------
(* Replays.                                                                *)
(*                                                                         *)
(* The log is faithful when every entry is in a collection on disk, and    *)
(* its hits are what its search would find now, unless the collections     *)
(* have left them behind.  That entries are on disk is needed for a        *)
(* rename: its new name has no directory, so no entry is already under it. *)

Fresh(e) == e.hits \in {Outdated, Hits(e.at, e.incl)}

LogIsFaithful ==
  \A q \in DOMAIN queries : queries[q].at \in disk /\ Fresh(queries[q])

Faith == LogIsFaithful /\ ReplayIsFaithful

\* What is no answer to a replay promises nothing.
LEMMA NoReplayNoPromise ==
  ASSUME NEW who \in Who, NEW status \in Nat, Says(who, status)
  PROVE  ReplayIsFaithful'
  BY DEF Says, Error, ReplayIsFaithful

\* A step that leaves the collections' contents and the log as they are.
LEMMA LogStays ==
  ASSUME LogIsFaithful, disk \subseteq disk', UNCHANGED <<docs, queries>>
  PROVE  LogIsFaithful'
<1>. SUFFICES ASSUME NEW q \in DOMAIN queries
              PROVE  queries[q].at \in disk' /\ Fresh(queries[q])'
  BY DEF LogIsFaithful
<1>1. queries[q].at \in disk /\ Fresh(queries[q])
  BY DEF LogIsFaithful
<1>2. Fresh(queries[q])'
  BY <1>1 DEF Fresh, Hits
<1>. QED BY <1>1, <1>2

\* A request without effect on the log.
LEMMA NothingLogged ==
  ASSUME NEW who \in Who, NEW status \in Nat, Faith, Says(who, status),
         disk \subseteq disk', UNCHANGED <<docs, queries>>
  PROVE  Faith'
  BY LogStays, NoReplayNoPromise DEF Faith

\* An entry that is aged is left behind, or did not look into the collection.
LEMMA AgedFields ==
  ASSUME NEW qs, NEW c, NEW q \in DOMAIN qs, IsEntry(qs[q])
  PROVE  /\ Aged(qs, c)[q].at = qs[q].at /\ Aged(qs, c)[q].incl = qs[q].incl
         /\ \/ Aged(qs, c)[q].hits = Outdated
            \/ /\ Aged(qs, c)[q].hits = qs[q].hits
               /\ qs[q].at # c /\ ~(qs[q].incl /\ c = Common)
<1>1. qs[q] = [at |-> qs[q].at, incl |-> qs[q].incl, hits |-> qs[q].hits]
  BY DEF IsEntry
<1>2. CASE qs[q].at = c \/ (qs[q].incl /\ c = Common)
  <2>1. Aged(qs, c)[q] = [qs[q] EXCEPT !.hits = Outdated]
    BY <1>2 DEF Aged
  <2>2. [qs[q] EXCEPT !.hits = Outdated] = [at |-> qs[q].at, incl |-> qs[q].incl, hits |-> Outdated]
    BY <1>1
  <2>. QED BY <2>1, <2>2
<1>3. CASE ~(qs[q].at = c \/ (qs[q].incl /\ c = Common))
  BY <1>3 DEF Aged
<1>. QED BY <1>2, <1>3

\* When the contents of c change, aging the log keeps it faithful; entries may go.
LEMMA AgingIsEnough ==
  ASSUME NEW qs, NEW c \in Coll, NEW here \in SUBSET DocId, Inv, LogIsFaithful,
         DOMAIN qs \subseteq DOMAIN queries, \A q \in DOMAIN qs : qs[q] = queries[q],
         \A q \in DOMAIN qs : queries[q].at \in disk',
         docs' = [docs EXCEPT ![c] = here], queries' = Aged(qs, c)
  PROVE  LogIsFaithful'
<1>1. DOMAIN queries' = DOMAIN qs
  BY DEF Aged
<1>. SUFFICES ASSUME NEW q \in DOMAIN qs
              PROVE  queries'[q].at \in disk' /\ Fresh(queries[q])'
  BY <1>1 DEF LogIsFaithful
<1> DEFINE e == queries[q]
<1>2. IsEntry(e) /\ e.at \in Coll /\ qs[q] = e /\ Fresh(e) /\ e.at \in disk'
  BY DEF Inv, Typed, LogIsFaithful, IsEntry
<1>3. /\ queries'[q].at = e.at /\ queries'[q].incl = e.incl
      /\ \/ queries'[q].hits = Outdated
         \/ queries'[q].hits = e.hits /\ e.at # c /\ ~(e.incl /\ c = Common)
  BY <1>2, AgedFields
<1>4. CASE queries'[q].hits = Outdated
  BY <1>2, <1>3, <1>4 DEF Fresh
<1>5. CASE queries'[q].hits = e.hits /\ e.at # c /\ ~(e.incl /\ c = Common)
  <2>1. docs'[e.at] = docs[e.at] /\ (e.incl => docs'[Common] = docs[Common])
    BY <1>2, <1>5, ApiAssumption DEF Inv, Typed
  <2>. QED BY <1>2, <1>3, <1>5, <2>1 DEF Fresh, Hits
<1>. QED BY <1>3, <1>4, <1>5

\* A rename takes the contents along, and with them what a search would find.
LEMMA MoveIsFaithful ==
  ASSUME NEW c \in Coll, NEW d \in Coll, c # d, c \in disk, d \notin disk, Inv, LogIsFaithful,
         Move(c, d)
  PROVE  LogIsFaithful'
<1>1. DOMAIN queries' = DOMAIN queries
  BY DEF Move
<1>2. disk' = (disk \ {c}) \cup {d} /\ docs' = [docs EXCEPT ![d] = docs[c], ![c] = {}]
  BY DEF Move
<1>. SUFFICES ASSUME NEW q \in DOMAIN queries
              PROVE  queries'[q].at \in disk' /\ Fresh(queries[q])'
  BY <1>1 DEF LogIsFaithful
<1>3. PICK e : e = queries[q]
  OBVIOUS
<1>4. PICK at2, hits2 : /\ at2 = IF e.at = c THEN d ELSE e.at
                        /\ hits2 = IF e.incl /\ Common \in {c, d} THEN Outdated ELSE e.hits
  OBVIOUS
<1>5. queries'[q].at = at2 /\ queries'[q].incl = e.incl /\ queries'[q].hits = hits2
  <2>1. queries'[q] = [e EXCEPT !.at = at2, !.hits = hits2]
    BY <1>3, <1>4 DEF Move
  <2>2. e = [at |-> e.at, incl |-> e.incl, hits |-> e.hits]
    BY <1>3 DEF Inv, Typed, IsEntry
  <2>3. queries'[q] = [at |-> at2, incl |-> e.incl, hits |-> hits2]
    BY <2>1, <2>2
  <2>. QED BY <2>3
<1>6. e.at \in Coll /\ e.at \in disk /\ e.hits \in {Outdated, Hits(e.at, e.incl)}
  BY <1>3 DEF Inv, Typed, IsEntry, LogIsFaithful, Fresh
<1>7. at2 \in disk'
  BY <1>2, <1>4, <1>6
<1>8. hits2 = Outdated \/ hits2 = Hits(at2, e.incl)'
  <2>1. docs'[at2] = docs[e.at]
    BY <1>2, <1>4, <1>6 DEF Inv, Typed
  <2>2. e.incl /\ Common \notin {c, d} => docs'[Common] = docs[Common]
    BY <1>2, ApiAssumption DEF Inv, Typed
  <2>. QED BY <2>1, <2>2, <1>4, <1>6 DEF Hits
<1>. QED BY <1>5, <1>7, <1>8 DEF Fresh

\* An answer that is an error promises nothing of a replay.
LEMMA BreaksFaithfully ==
  ASSUME NEW who \in Who, NEW status, NEW code, Faith, Error(who, status, code),
         UNCHANGED <<disk, docs, queries>>
  PROVE  Faith'
<1>1. reply'.of = NoQuery
  BY DEF Error
<1>. QED BY <1>1, LogStays DEF Faith, ReplayIsFaithful

LEMMA RenameIsFaithful ==
  ASSUME NEW who \in Who, NEW c \in Coll, NEW d \in Coll, Inv, Faith, RenameCollection(who, c, d)
  PROVE  Faith'
<1>1. CASE c # d /\ c \in disk /\ ~Clash(d) /\ Move(c, d) /\ Relabel(who, c, d)
  <2>1. d \notin disk
    BY <1>1 DEF Clash
  <2>2. LogIsFaithful'
    BY <1>1, <2>1, MoveIsFaithful DEF Faith
  <2>3. PICK status, code : Error(who, status, code)
    <3>1. Says(who, 200) \/ Says(who, 500) \/ Error(who, 400, "rename_invalid")
      <4>1. Relabel(who, c, d)
        BY <1>1
      <4>. QED BY <4>1 DEF Relabel, Fails
    <3>. QED BY <3>1, SaysError
  <2>4. reply'.of = NoQuery
    BY <2>3 DEF Error
  <2>. QED BY <2>2, <2>4 DEF Faith, ReplayIsFaithful
<1>2. ASSUME NEW status, NEW code, Breaks(who, status, code)
      PROVE  Faith'
  BY <1>2, BreaksFaithfully DEF Breaks
<1>3. CASE Breaks(who, 400, "rename_invalid")
  BY <1>2, <1>3
<1>4. CASE Breaks(who, 500, "")
  BY <1>2, <1>4
<1>5. CASE Breaks(who, 404, "")
  BY <1>2, <1>5
<1>6. CASE Breaks(who, 409, "")
  BY <1>2, <1>6
<1>. QED BY <1>1, <1>3, <1>4, <1>5, <1>6 DEF RenameCollection

LEMMA CreateIsFaithful ==
  ASSUME NEW who \in Who, NEW c \in Coll, Faith, CreateCollection(who, c)
  PROVE  Faith'
<1>1. PICK status \in Nat : Says(who, status)
  BY DEF CreateCollection, Fails
<1>2. disk \subseteq disk' /\ UNCHANGED <<docs, queries>>
  BY DEF CreateCollection
<1>. QED BY <1>1, <1>2, NothingLogged

LEMMA EraseIsFaithful ==
  ASSUME NEW who \in Who, NEW c \in Coll, Inv, Faith, Erase(who, c)
  PROVE  Faith'
<1>1. PICK status \in Nat : Says(who, status)
  BY DEF Erase, Fails
<1>2. PICK qs : qs = Restrict(queries, DOMAIN queries \ LoggedIn(c))
  OBVIOUS
<1>3. /\ disk' = disk \ {c} /\ docs' = [docs EXCEPT ![c] = {}] /\ queries' = Aged(qs, c)
  BY <1>2 DEF Erase
<1>4. DOMAIN qs = DOMAIN queries \ LoggedIn(c) /\ \A q \in DOMAIN qs : qs[q] = queries[q]
  BY <1>2 DEF Restrict
<1>5. \A q \in DOMAIN qs : queries[q].at \in disk'
  BY <1>3, <1>4 DEF Faith, LogIsFaithful, LoggedIn
<1>6. PICK here \in SUBSET DocId : docs' = [docs EXCEPT ![c] = here]
  BY <1>3
<1>7. LogIsFaithful'
  <2>1. LogIsFaithful /\ DOMAIN qs \subseteq DOMAIN queries
    BY <1>4 DEF Faith
  <2>. QED BY <1>3, <1>4, <1>5, <1>6, <2>1, AgingIsEnough
<1>. QED BY <1>1, <1>7, NoReplayNoPromise DEF Faith

LEMMA DeleteIsFaithful ==
  ASSUME NEW who \in Who, NEW c \in Coll, Inv, Faith, DeleteCollection(who, c)
  PROVE  Faith'
<1>1. CASE Erase(who, c)
  BY <1>1, EraseIsFaithful
<1>2. CASE Breaks(who, 500, "")
  BY <1>2, BreaksFaithfully DEF Breaks
<1>. QED BY <1>1, <1>2 DEF DeleteCollection

\* A step on a document of c ages every entry that has looked into c.
LEMMA DocumentIsFaithful ==
  ASSUME NEW c \in Coll, NEW here \in SUBSET DocId, Inv, Faith,
         disk' = disk \cup {c}, docs' = [docs EXCEPT ![c] = here],
         queries' = Aged(queries, c)
  PROVE  LogIsFaithful'
<1>1. \A q \in DOMAIN queries : queries[q].at \in disk'
  BY DEF Faith, LogIsFaithful
<1>. QED BY <1>1, AgingIsEnough DEF Faith

LEMMA IngestIsFaithful ==
  ASSUME NEW who \in Who, NEW c \in Coll, NEW d \in DocId, Inv, Faith, IngestDocument(who, c, d)
  PROVE  Faith'
<1>1. CASE Unread(who, c, d)
  <2>1. PICK status, code : Error(who, status, code)
    BY <1>1 DEF Unread, Says
  <2>2. UNCHANGED <<disk, docs, queries>>
    BY <1>1 DEF Unread
  <2>. QED BY <2>1, <2>2, BreaksFaithfully
<1>2. CASE ~Unread(who, c, d)
  <2>1. disk' = disk \cup {c} /\ queries' = Aged(queries, c)
    BY <1>2 DEF IngestDocument
  <2>2. PICK here \in SUBSET DocId : docs' = [docs EXCEPT ![c] = here]
    <3>1. docs' \in {docs, [docs EXCEPT ![c] = @ \ {d}], [docs EXCEPT ![c] = @ \cup {d}]}
      BY <1>2 DEF IngestDocument
    <3>2. docs = [docs EXCEPT ![c] = docs[c]] /\ docs[c] \in SUBSET DocId
      BY DEF Inv, Typed
    <3>. QED BY <3>1, <3>2
  <2>3. LogIsFaithful'
    BY <2>1, <2>2, DocumentIsFaithful
  <2>4. reply'.of = NoQuery
    <3>1. \/ Says(who, 201) \/ Says(who, 500)
          \/ Error(who, 400, "invalid_metadata_keys")
          \/ Error(who, 400, "invalid_csv_options")
      BY <1>2 DEF IngestDocument, Fails
    <3>2. PICK status, code : Error(who, status, code)
      BY <3>1, SaysError
    <3>. QED BY <3>2 DEF Error
  <2>. QED BY <2>3, <2>4 DEF Faith, ReplayIsFaithful
<1>. QED BY <1>1, <1>2

LEMMA PurgeIsFaithful ==
  ASSUME NEW who \in Who, NEW c \in Coll, NEW d \in DocId, Inv, Faith, Purge(who, c, d)
  PROVE  Faith'
<1>1. disk' = disk \cup {c} /\ queries' = Aged(queries, c)
  BY DEF Purge
<1>2. PICK here \in SUBSET DocId : docs' = [docs EXCEPT ![c] = here]
  <2>1. docs' \in {docs, [docs EXCEPT ![c] = @ \ {d}]}
    BY DEF Purge
  <2>2. docs = [docs EXCEPT ![c] = docs[c]] /\ docs[c] \in SUBSET DocId
    BY DEF Inv, Typed
  <2>. QED BY <2>1, <2>2
<1>3. PICK status \in Nat : Says(who, status)
  BY DEF Purge, Fails
<1>4. LogIsFaithful'
  BY <1>1, <1>2, DocumentIsFaithful
<1>. QED BY <1>3, <1>4, NoReplayNoPromise DEF Faith

LEMMA DeleteDocumentIsFaithful ==
  ASSUME NEW who \in Who, NEW c \in Coll, NEW d \in DocId, Inv, Faith, DeleteDocument(who, c, d)
  PROVE  Faith'
<1>1. CASE Purge(who, c, d)
  BY <1>1, PurgeIsFaithful
<1>2. CASE Breaks(who, 500, "")
  BY <1>2, BreaksFaithfully DEF Breaks
<1>. QED BY <1>1, <1>2 DEF DeleteDocument

\* What a replay is of: an entry of the collection, searched as it was.
ReplaysAs(c, incl, of) ==
  of # NoQuery => of \in DOMAIN queries /\ queries[of].at = c /\ queries[of].incl = incl

\* What a search logs is what it finds now; the rest of the log stays.
LEMMA LogAddsFresh ==
  ASSUME NEW c \in Coll, NEW incl, NEW q, Inv, LogIsFaithful, Loads(c, incl),
         Log(c, incl, Hits(c, incl), q), UNCHANGED docs
  PROVE  /\ LogIsFaithful'
         /\ \A r \in DOMAIN queries : r \in DOMAIN queries' /\ queries'[r] = queries[r]
<1>1. PICK hits : hits = Hits(c, incl)
  OBVIOUS
<1>2. \/ UNCHANGED queries
      \/ q \notin DOMAIN queries
         /\ queries' = Put(queries, q, [at |-> c, incl |-> incl, hits |-> hits])
  BY <1>1 DEF Log, NewId, InUse
<1>3. disk \subseteq disk' /\ c \in disk'
  BY DEF Loads
<1>4. CASE UNCHANGED queries
  BY <1>3, <1>4, LogStays
<1>5. CASE q \notin DOMAIN queries
           /\ queries' = Put(queries, q, [at |-> c, incl |-> incl, hits |-> hits])
  <2>1. /\ DOMAIN queries' = DOMAIN queries \cup {q}
        /\ queries'[q] = [at |-> c, incl |-> incl, hits |-> hits]
        /\ \A r \in DOMAIN queries : queries'[r] = queries[r]
    BY <1>5 DEF Put
  <2>2. Hits(c, incl)' = hits
    BY <1>1 DEF Hits
  <2>3. Fresh(queries[q])'
    BY <2>1, <2>2 DEF Fresh
  <2>4. ASSUME NEW r \in DOMAIN queries
        PROVE  queries'[r].at \in disk' /\ Fresh(queries[r])'
    <3>1. queries[r].at \in disk /\ Fresh(queries[r])
      BY DEF LogIsFaithful
    <3>. QED BY <3>1, <1>3, <2>1 DEF Fresh, Hits
  <2>. QED BY <1>3, <2>1, <2>3, <2>4 DEF LogIsFaithful
<1>. QED BY <1>2, <1>4, <1>5

LEMMA SearchIsFaithful ==
  ASSUME NEW who \in Who, NEW c \in Coll, NEW incl, NEW of, Inv, Faith,
         SearchIn(who, c, incl, of), ReplaysAs(c, incl, of)
  PROVE  Faith'
<1>1. \/ \E q \in QueryId \cup {NoQuery} : \E hits, shown :
           /\ Loads(c, incl) /\ hits = Hits(c, incl) /\ Log(c, incl, Hits(c, incl), q)
           /\ UNCHANGED docs
           /\ Finds(who, hits, shown, of) \/ Says(who, 503)
      \/ /\ Loads(c, incl) \/ UNCHANGED disk
         /\ Says(who, 500) /\ UNCHANGED <<docs, queries>>
  BY DEF SearchIn
<1>2. ASSUME NEW q \in QueryId \cup {NoQuery}, NEW hits, NEW shown,
             Loads(c, incl), hits = Hits(c, incl), Log(c, incl, Hits(c, incl), q),
             UNCHANGED docs, Finds(who, hits, shown, of) \/ Says(who, 503)
      PROVE  Faith'
  <2>1. /\ LogIsFaithful'
        /\ \A r \in DOMAIN queries : r \in DOMAIN queries' /\ queries'[r] = queries[r]
    BY <1>2, LogAddsFresh DEF Faith
  <2>2. CASE Finds(who, hits, shown, of)
    <3>1. reply'.hits = hits /\ reply'.of = of
      BY <2>2 DEF Finds
    <3>2. of # NoQuery => queries'[of].hits \in {hits, Outdated}
      BY <1>2, <2>1 DEF ReplaysAs, Faith, LogIsFaithful, Fresh
    <3>. QED BY <2>1, <3>1, <3>2 DEF Faith, ReplayIsFaithful
  <2>3. CASE Says(who, 503)
    BY <2>1, <2>3, NoReplayNoPromise DEF Faith
  <2>. QED BY <1>2, <2>2, <2>3
<1>3. ASSUME Loads(c, incl) \/ UNCHANGED disk,
             Says(who, 500), UNCHANGED <<docs, queries>>
      PROVE  Faith'
  <2>1. disk \subseteq disk'
    BY <1>3 DEF Loads
  <2>. QED BY <1>3, <2>1, NothingLogged
<1>. QED BY <1>1, <1>2, <1>3

LEMMA EntryIsFaithful ==
  ASSUME NEW who \in Who, NEW c, NEW q, Faith, GetEntry(who, c, q)
  PROVE  Faith'
<1>1. UNCHANGED <<disk, docs, queries>>
  BY DEF GetEntry
<1>2. reply'.of = NoQuery
  <2>1. CASE Finds(who, <<>>, q, NoQuery)
    BY <2>1, FindsFields
  <2>2. CASE Says(who, 404)
    BY <2>2 DEF Says, Error
  <2>3. CASE Says(who, 500)
    BY <2>3 DEF Says, Error
  <2>. QED BY <2>1, <2>2, <2>3 DEF GetEntry
<1>. QED BY <1>1, <1>2, LogStays DEF Faith, ReplayIsFaithful

LEMMA ReplayKeepsFaith ==
  ASSUME NEW who \in Who, NEW c \in Coll, NEW q \in QueryId, Inv, Faith, Replay(who, c, q)
  PROVE  Faith'
<1>1. CASE Found(c, q) /\ Rerun(who, c, q)
  <2>1. PICK incl : incl = queries[q].incl /\ SearchIn(who, c, incl, q)
    BY <1>1 DEF Rerun
  <2>2. ReplaysAs(c, incl, q)
    BY <1>1, <2>1 DEF ReplaysAs, Found, LoggedIn
  <2>. QED BY <2>1, <2>2, SearchIsFaithful
<1>2. CASE ~(Found(c, q) /\ Rerun(who, c, q))
  <2>1. PICK status \in Nat : Says(who, status)
    BY <1>2 DEF Replay, Overloaded
  <2>2. UNCHANGED <<disk, docs, queries>>
    BY <1>2 DEF Replay, Overloaded
  <2>. QED BY <2>1, <2>2, NothingLogged
<1>. QED BY <1>1, <1>2

LEMMA CommonSearchIsFaithful ==
  ASSUME NEW who \in Who, Inv, Faith, SearchCommon(who)
  PROVE  Faith'
<1>1. CASE SearchIn(who, Common, FALSE, NoQuery)
  BY <1>1, SearchIsFaithful, ApiAssumption DEF ReplaysAs
<1>2. CASE ~SearchIn(who, Common, FALSE, NoQuery)
  <2>1. UNCHANGED <<disk, docs, queries>>
    BY <1>2 DEF SearchCommon, Overloaded
  <2>2. reply'.of = NoQuery
    <3>1. CASE Says(who, 503)
      BY <3>1 DEF Says, Error
    <3>2. CASE Finds(who, <<>>, NoQuery, NoQuery)
      BY <3>2, FindsFields
    <3>. QED BY <1>2, <3>1, <3>2 DEF SearchCommon, Overloaded
  <2>. QED BY <2>1, <2>2, LogStays DEF Faith, ReplayIsFaithful
<1>. QED BY <1>1, <1>2

LEMMA RequestIsFaithful ==
  ASSUME NEW who \in Who, Inv, Faith, Request(who)
  PROVE  Faith'
<1>1. ASSUME NEW c \in Coll,
             Refuse(who, c) \/ ListCatalog(who, c) \/ GetDetail(who, c) \/ ListCollection(who, c)
      PROVE  Faith'
  <2>1. PICK status \in Nat : Says(who, status)
    BY <1>1 DEF Refuse, ListCatalog, GetDetail, ListCollection
  <2>2. UNCHANGED <<disk, docs, queries>>
    BY <1>1 DEF Refuse, ListCatalog, GetDetail, ListCollection
  <2>. QED BY <2>1, <2>2, NothingLogged
<1>2. ASSUME NEW c \in Coll, NEW d \in DocId, GetDocument(who, c, d)
      PROVE  Faith'
  <2>1. PICK status \in Nat : Says(who, status)
    BY <1>2 DEF GetDocument
  <2>2. UNCHANGED <<disk, docs, queries>>
    BY <1>2 DEF GetDocument
  <2>. QED BY <2>1, <2>2, NothingLogged
<1>3. ASSUME NEW c \in Coll, CreateCollection(who, c)
      PROVE  Faith'
  BY <1>3, CreateIsFaithful
<1>4. ASSUME NEW c \in Coll, DeleteCollection(who, c)
      PROVE  Faith'
  BY <1>4, DeleteIsFaithful
<1>5. ASSUME NEW c \in Coll, NEW d \in Coll, RenameCollection(who, c, d)
      PROVE  Faith'
  BY <1>5, RenameIsFaithful
<1>6. ASSUME NEW c \in Coll, NEW d \in DocId, IngestDocument(who, c, d)
      PROVE  Faith'
  BY <1>6, IngestIsFaithful
<1>7. ASSUME NEW c \in Coll, NEW d \in DocId, DeleteDocument(who, c, d)
      PROVE  Faith'
  BY <1>7, DeleteDocumentIsFaithful
<1>8. ASSUME NEW c \in Coll, SearchCollection(who, c)
      PROVE  Faith'
  <2>1. CASE Overloaded(who)
    <3>1. PICK status \in Nat : Says(who, status)
      BY <2>1 DEF Overloaded
    <3>. QED BY <2>1, <3>1, NothingLogged DEF Overloaded
  <2>2. CASE SearchIn(who, c, CommonEnabled, NoQuery)
    BY <2>2, SearchIsFaithful DEF ReplaysAs
  <2>. QED BY <1>8, <2>1, <2>2 DEF SearchCollection
<1>9. ASSUME NEW c \in Coll, NEW q \in QueryId, GetQuery(who, c, q) \/ ReplayQuery(who, c, q)
      PROVE  Faith'
  <2>1. CASE GetEntry(who, c, q)
    BY <2>1, EntryIsFaithful
  <2>2. CASE Replay(who, c, q)
    BY <2>2, ReplayKeepsFaith
  <2>. QED BY <1>9, <2>1, <2>2 DEF GetQuery, ReplayQuery
<1>10. CASE SearchCommon(who)
  BY <1>10, CommonSearchIsFaithful
<1>11. ASSUME NEW q \in QueryId, AdminGetQuery(who, q) \/ AdminReplay(who, q)
       PROVE  Faith'
  <2>1. q \in DOMAIN homes => homes[q] \in Coll
    BY DEF Inv, Typed
  <2>2. CASE NoHome(who, q)
    <3>1. PICK status \in Nat : Says(who, status)
      BY <2>2 DEF NoHome
    <3>. QED BY <2>2, <3>1, NothingLogged DEF NoHome
  <2>3. CASE \E c \in Coll : GetEntry(who, c, q)
    BY <2>3, EntryIsFaithful
  <2>4. CASE \E c \in Coll : Replay(who, c, q)
    BY <2>4, ReplayKeepsFaith
  <2>. QED BY <1>11, <2>1, <2>2, <2>3, <2>4 DEF AdminGetQuery, AdminReplay
<1>. QED BY <1>1, <1>2, <1>3, <1>4, <1>5, <1>6, <1>7, <1>8, <1>9, <1>10, <1>11
         DEF Request

LEMMA StepIsFaithful ==
  ASSUME Inv, Faith, [ApiNext]_apiVars
  PROVE  Faith'
<1>1. CASE Take
  <2>1. reply' = NoReply /\ UNCHANGED <<disk, docs, queries>>
    BY <1>1 DEF Take
  <2>. QED BY <2>1, LogStays DEF Faith, ReplayIsFaithful
<1>2. ASSUME NEW who \in Who, Request(who)
      PROVE  Faith'
  BY <1>2, RequestIsFaithful
<1>3. CASE UNCHANGED apiVars
  <2>1. UNCHANGED <<disk, docs, queries, reply>>
    BY <1>3 DEF apiVars
  <2>. QED BY <2>1, LogStays DEF Faith, ReplayIsFaithful
<1>. QED BY <1>1, <1>2, <1>3 DEF ApiNext

\* While the collections a query looked into have the contents they had, under
\* whatever name, its replay by either route finds what it found (service.py,
\* execute_replay): for any collections, documents and k.
THEOREM ReplaysFindTheSame == ApiSpec => []ReplayIsFaithful
<1>1. ApiInit => Inv /\ Faith
  <2>1. ApiInit => Faith
    BY DEF ApiInit, Faith, LogIsFaithful, ReplayIsFaithful
  <2>. QED BY <2>1, Initially
<1>2. Inv /\ Faith /\ [ApiNext]_apiVars => Inv' /\ Faith'
  BY StepKeeps, StepIsFaithful
<1>3. Faith => ReplayIsFaithful
  BY DEF Faith
<1>. QED BY <1>1, <1>2, <1>3, PTL DEF ApiSpec
=============================================================================
