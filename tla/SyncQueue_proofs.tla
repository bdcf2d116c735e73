-------------------------- MODULE SyncQueue_proofs --------------------------
(* Proofs about the queue to the Core: what holds for any number of         *)
(* documents, of drains and of presses of Process Now that overlap.         *)
EXTENDS SyncQueue, TLAPS

(* What a sender has in hand it has not written; a retry has a retry left,  *)
(* and what was sent stands in the Core, unless the row or the document has *)
(* changed since and the sender will notice; a drain has pending rows.      *)
Sound(s) ==
    /\ sender[s].todo \intersect sender[s].at = {}
    /\ \A d \in sender[s].todo \union sender[s].at :
          /\ sender[s].wrote[d] = "none"
          /\ s \in Drains /\ <<"row", d>> \notin sender[s].stale =>
                row[d].state = "pending"
    /\ \A d \in sender[s].at :
          /\ sender[s].sent = "retry" /\ <<"row", d>> \notin sender[s].stale =>
                row[d].retries < MaxRetries
          /\ sender[s].sent = "done" /\ <<"doc", d>> \notin sender[s].stale =>
                Content(d) \in books[d].arrived
    /\ \A d \in Docs :
          /\ sender[s].wrote[d] = "retry" => row[d].retries < MaxRetries
          /\ sender[s].wrote[d] = "done" => Content(d) \in books[d].arrived
          /\ s \in Drains /\ sender[s].wrote[d] # "none" => row[d].state = "pending"

(* No two transactions have flushed the same row. *)
Exclusive ==
    \A d \in Docs, s, t \in Senders :
        s # t => sender[s].wrote[d] = "none" \/ sender[t].wrote[d] = "none"

(* A synced invoice has arrived as it stands, whatever its cost center.     *)
SyncedArrived ==
    \A d \in Invoices : doc[d].synced =>
       \E c \in books[d].arrived : c[1] = doc[d].version

(* The Core holds the first payload that arrived, or all of them. *)
CoreKeeps ==
    \A d \in Docs :
       /\ books[d].held \subseteq books[d].arrived
       /\ books[d].arrived # {} => books[d].held # {}
       /\ ~Deduplicates => books[d].held = books[d].arrived

QueueInv ==
    /\ QueueTypeOK
    /\ \A s \in Senders : Sound(s)
    /\ Exclusive
    /\ SyncedArrived
    /\ CoreKeeps

-----------------------------------------------------------------------------
(* Senders and the queue *)

LEMMA IdleSenderType ==
    /\ NothingWritten \in [Docs -> Results]
    /\ IdleSender \in Sender
BY DEF NothingWritten, IdleSender, Sender, Results

LEMMA IdleIsSound ==
    ASSUME NEW s \in Senders, sender'[s] = IdleSender
    PROVE  Sound(s)'
BY DEF Sound, IdleSender, NothingWritten

(* What a commit of changes leaves of another transaction. *)
Noticed(s, t, changed) ==
    /\ t \in Sender
    /\ t.open = s.open /\ t.todo = s.todo /\ t.at = s.at
    /\ t.sent = s.sent /\ t.wrote = s.wrote
    /\ s.stale \subseteq t.stale
    /\ \A c \in changed : c[2] \in s.todo \union s.at => c \in t.stale

LEMMA OutdateIsNoticed ==
    ASSUME QueueTypeOK, NEW changed \in SUBSET ({"doc", "row"} \X Docs), NEW but
    PROVE  /\ Outdate(changed, but) \in [Senders -> Sender]
           /\ \A s \in Senders \ but :
                 Noticed(sender[s], Outdate(changed, but)[s], changed)
           /\ \A s \in Senders \intersect but : Outdate(changed, but)[s] = sender[s]
<1> DEFINE O == Outdate(changed, but)
<1>1. \A s \in Senders \intersect but : O[s] = sender[s]
  BY DEF Outdate
<1>2. ASSUME NEW s \in Senders \ but
      PROVE  Noticed(sender[s], O[s], changed)
  <2>1. /\ sender[s] \in Sender
        /\ O[s] = [sender[s] EXCEPT !.stale = @ \union {c \in changed :
                              c[2] \in sender[s].todo \union sender[s].at}]
    BY <1>2 DEF Outdate, QueueTypeOK
  <2> QED BY <2>1 DEF Sender, Noticed
<1>3. O \in [Senders -> Sender]
  <2>1. DOMAIN O = Senders /\ O = [s \in Senders |-> O[s]]
    BY DEF Outdate
  <2>2. \A s \in Senders : O[s] \in Sender
    BY <1>1, <1>2 DEF Noticed, QueueTypeOK
  <2> QED BY <2>1, <2>2
<1> QED BY <1>1, <1>2, <1>3

(* A step of others that a sound sender notices, where it has something in  *)
(* hand, and that leaves alone what it has flushed.                         *)
LEMMA NoticedIsSound ==
    ASSUME QueueTypeOK, QueueTypeOK', NEW s \in Senders, Sound(s),
           sender'[s].todo = sender[s].todo, sender'[s].at = sender[s].at,
           sender'[s].sent = sender[s].sent, sender'[s].wrote = sender[s].wrote,
           sender[s].stale \subseteq sender'[s].stale,
           \A d \in Docs : books[d].arrived \subseteq books'[d].arrived,
           \A d \in Docs :
              \/ Content(d)' = Content(d)
              \/ /\ sender[s].wrote[d] = "none"
                 /\ d \in sender[s].todo \union sender[s].at =>
                       <<"doc", d>> \in sender'[s].stale,
           \A d \in Docs :
              \/ row'[d] = row[d]
              \/ row'[d].state = "pending" /\ row'[d].retries = row[d].retries
              \/ /\ sender[s].wrote[d] = "none"
                 /\ d \in sender[s].todo \union sender[s].at =>
                       <<"row", d>> \in sender'[s].stale
    PROVE  Sound(s)'
<1>1. sender[s] \in Sender
  BY DEF QueueTypeOK
<1>2. sender[s].todo \subseteq Docs /\ sender[s].at \subseteq Docs
  BY <1>1 DEF Sender
<1>3. (sender[s].todo \intersect sender[s].at = {})'
  BY DEF Sound
<1>4. ASSUME NEW d \in sender[s].todo \union sender[s].at
      PROVE  /\ sender'[s].wrote[d] = "none"
             /\ s \in Drains /\ <<"row", d>> \notin sender'[s].stale =>
                   row'[d].state = "pending"
  <2>1. d \in Docs
    BY <1>2, <1>4
  <2>2. /\ sender[s].wrote[d] = "none"
        /\ s \in Drains /\ <<"row", d>> \notin sender[s].stale => row[d].state = "pending"
    BY <1>4 DEF Sound
  <2> QED BY <1>4, <2>1, <2>2
<1>5. ASSUME NEW d \in sender[s].at
      PROVE  /\ sender'[s].sent = "retry" /\ <<"row", d>> \notin sender'[s].stale =>
                   row'[d].retries < MaxRetries
             /\ sender'[s].sent = "done" /\ <<"doc", d>> \notin sender'[s].stale =>
                   Content(d)' \in books'[d].arrived
  <2>1. d \in Docs
    BY <1>2, <1>5
  <2>2. /\ sender[s].sent = "retry" /\ <<"row", d>> \notin sender[s].stale =>
              row[d].retries < MaxRetries
        /\ sender[s].sent = "done" /\ <<"doc", d>> \notin sender[s].stale =>
              Content(d) \in books[d].arrived
    BY <1>5 DEF Sound
  <2> QED BY <1>5, <2>1, <2>2
<1>6. ASSUME NEW d \in Docs
      PROVE  /\ sender'[s].wrote[d] = "retry" => row'[d].retries < MaxRetries
             /\ sender'[s].wrote[d] = "done" => Content(d)' \in books'[d].arrived
             /\ s \in Drains /\ sender'[s].wrote[d] # "none" => row'[d].state = "pending"
  <2>1. /\ sender[s].wrote[d] = "retry" => row[d].retries < MaxRetries
        /\ sender[s].wrote[d] = "done" => Content(d) \in books[d].arrived
        /\ s \in Drains /\ sender[s].wrote[d] # "none" => row[d].state = "pending"
    BY DEF Sound
  <2> QED BY <2>1
<1> QED BY <1>3, <1>4, <1>5, <1>6 DEF Sound

(* What is flushed stays exclusive where no sender flushes. *)
LEMMA SameWroteExclusive ==
    ASSUME Exclusive,
           \A s \in Senders : \/ sender'[s].wrote = sender[s].wrote
                             \/ sender'[s].wrote = NothingWritten
    PROVE  Exclusive'
BY DEF Exclusive, NothingWritten

-----------------------------------------------------------------------------
(* The invariant *)

LEMMA QueueInvInit == QueueInit => QueueInv
<1> SUFFICES ASSUME QueueInit PROVE QueueInv
  OBVIOUS
<1>1. /\ doc \in [Docs -> Doc] /\ row \in [Docs -> QueueRow]
      /\ books \in [Docs -> CoreDoc]
  BY QueueAssumption DEF QueueInit, Doc, QueueRow, Versions, CoreDoc
<1>2. \A s \in Senders : sender[s] = IdleSender
  BY DEF QueueInit
<1>3. sender \in [Senders -> Sender]
  BY IdleSenderType DEF QueueInit
<1>4. \A s \in Senders : Sound(s)
  BY <1>2 DEF Sound, IdleSender, NothingWritten
<1>5. Exclusive
  BY <1>2 DEF Exclusive, IdleSender, NothingWritten
<1>6. SyncedArrived /\ CoreKeeps
  BY DEF QueueInit, SyncedArrived, CoreKeeps, Docs
<1> QED BY <1>1, <1>3, <1>4, <1>5, <1>6 DEF QueueInv, QueueTypeOK

LEMMA StutterInv ==
    ASSUME QueueInv, UNCHANGED queueVars
    PROVE  QueueInv'
<1>1. /\ doc' = doc /\ row' = row /\ books' = books /\ sender' = sender
  BY DEF queueVars
<1>2. QueueTypeOK' /\ Exclusive' /\ SyncedArrived' /\ CoreKeeps'
  BY <1>1 DEF QueueInv, QueueTypeOK, Exclusive, SyncedArrived, CoreKeeps
<1>3. ASSUME NEW s \in Senders
      PROVE  Sound(s)'
  <2>1. Sound(s)
    BY DEF QueueInv
  <2> QED BY <1>1, <2>1 DEF Sound, Content
<1> QED BY <1>2, <1>3 DEF QueueInv

(* Whatever is committed beside the senders: they notice it, and it keeps   *)
(* off what they have flushed.                                              *)
LEMMA OthersInv ==
    ASSUME QueueInv, NEW changed \in SUBSET ({"doc", "row"} \X Docs),
           sender' = Outdate(changed, {}), UNCHANGED books,
           doc' \in [Docs -> Doc], row' \in [Docs -> QueueRow],
           \A d \in Docs :
              \/ Content(d)' = Content(d)
              \/ <<"doc", d>> \in changed /\ Unlocked(d, Senders),
           \A d \in Docs :
              \/ row'[d] = row[d]
              \/ row'[d].state = "pending" /\ row'[d].retries = row[d].retries
              \/ <<"row", d>> \in changed /\ Unlocked(d, Senders),
           SyncedArrived'
    PROVE  QueueInv'
<1>1. /\ sender' \in [Senders -> Sender]
      /\ \A s \in Senders : Noticed(sender[s], sender'[s], changed)
  BY OutdateIsNoticed DEF QueueInv
<1>2. QueueTypeOK'
  BY <1>1 DEF QueueInv, QueueTypeOK
<1>3. ASSUME NEW s \in Senders
      PROVE  Sound(s)'
  <2>1. /\ sender'[s].todo = sender[s].todo /\ sender'[s].at = sender[s].at
        /\ sender'[s].sent = sender[s].sent /\ sender'[s].wrote = sender[s].wrote
        /\ sender[s].stale \subseteq sender'[s].stale
        /\ \A c \in changed : c[2] \in sender[s].todo \union sender[s].at =>
              c \in sender'[s].stale
    BY <1>1 DEF Noticed
  <2>2. \A d \in Docs : /\ <<"doc", d>>[2] = d /\ <<"row", d>>[2] = d
                        /\ Unlocked(d, Senders) => sender[s].wrote[d] = "none"
    BY DEF Unlocked
  <2> QED BY <1>2, <2>1, <2>2, NoticedIsSound DEF QueueInv
<1>4. Exclusive'
  BY <1>1, SameWroteExclusive DEF Noticed, QueueInv
<1>5. CoreKeeps'
  BY DEF QueueInv, CoreKeeps
<1> QED BY <1>2, <1>3, <1>4, <1>5 DEF QueueInv

LEMMA EnqueueLeaves ==
    ASSUME QueueTypeOK, NEW d \in Docs, Enqueue(d) \/ UNCHANGED row
    PROVE  /\ row' \in [Docs -> QueueRow]
           /\ \A e \in Docs :
                 \/ row'[e] = row[e]
                 \/ row'[e].state = "pending" /\ row'[e].retries = row[e].retries
BY DEF QueueTypeOK, QueueRow, Enqueue

LEMMA WriteInv ==
    ASSUME QueueInv, NEW d \in Docs, Write(d), Enqueue(d) \/ UNCHANGED row,
           d \in Invoices => ~doc[d].synced
    PROVE  QueueInv'
<1>1. /\ row' \in [Docs -> QueueRow]
      /\ \A e \in Docs :
            \/ row'[e] = row[e]
            \/ row'[e].state = "pending" /\ row'[e].retries = row[e].retries
  BY EnqueueLeaves DEF QueueInv
<1>2. /\ doc' = [doc EXCEPT ![d].version = @ + 1]
      /\ doc[d].version + doc[d].center < MaxVersion
      /\ sender' = Outdate({<<"doc", d>>}, {}) /\ books' = books
      /\ Unlocked(d, Senders)
  BY DEF Write, Writable
<1>3. doc \in [Docs -> Doc]
  BY DEF QueueInv, QueueTypeOK
<1>4. doc' \in [Docs -> Doc]
  <2>1. doc[d].version + 1 \in Versions
    BY <1>2, <1>3, QueueAssumption DEF Doc, Versions
  <2> QED BY <1>2, <1>3, <2>1 DEF Doc
<1>5. \A e \in Docs : e # d => doc'[e] = doc[e]
  BY <1>2, <1>3
<1>6. doc'[d].synced = doc[d].synced
  BY <1>2, <1>3 DEF Doc
<1>7. SyncedArrived'
  BY <1>2, <1>5, <1>6 DEF QueueInv, SyncedArrived, Docs
<1> DEFINE changed == {<<"doc", d>>}
<1>8. ASSUME NEW e \in Docs
      PROVE  \/ Content(e)' = Content(e)
             \/ <<"doc", e>> \in changed /\ Unlocked(e, Senders)
  <2>1. CASE e = d
    BY <1>2, <2>1
  <2>2. CASE e # d
    BY <1>5, <2>2 DEF Content
  <2> QED BY <2>1, <2>2
<1>9. changed \in SUBSET ({"doc", "row"} \X Docs)
  OBVIOUS
<1> QED BY <1>1, <1>2, <1>4, <1>7, <1>8, <1>9, OthersInv

LEMMA EditCostCenterInv ==
    ASSUME QueueInv, NEW d \in Docs, EditCostCenter(d)
    PROVE  QueueInv'
<1> DEFINE changed == {<<"doc", d>>}
<1>1. /\ doc' = [doc EXCEPT ![d].center = @ + 1]
      /\ doc[d].version + doc[d].center < MaxVersion
      /\ row' = row /\ books' = books /\ Unlocked(d, Senders)
      /\ sender' = Outdate(changed, {})
  BY DEF EditCostCenter, Writable
<1>2. doc \in [Docs -> Doc] /\ row \in [Docs -> QueueRow]
  BY DEF QueueInv, QueueTypeOK
<1>3. /\ doc' \in [Docs -> Doc]
      /\ \A e \in Docs : doc'[e].version = doc[e].version /\ doc'[e].synced = doc[e].synced
      /\ \A e \in Docs : e # d => doc'[e] = doc[e]
  <2>1. doc[d].center + 1 \in Versions
    BY <1>1, <1>2, QueueAssumption DEF Doc, Versions
  <2> QED BY <1>1, <1>2, <2>1 DEF Doc
<1>4. SyncedArrived'
  BY <1>1, <1>3 DEF QueueInv, SyncedArrived, Docs
<1>5. ASSUME NEW e \in Docs
      PROVE  \/ Content(e)' = Content(e)
             \/ <<"doc", e>> \in changed /\ Unlocked(e, Senders)
  <2>1. CASE e = d
    BY <1>1, <2>1
  <2>2. CASE e # d
    BY <1>3, <2>2 DEF Content
  <2> QED BY <2>1, <2>2
<1>6. changed \in SUBSET ({"doc", "row"} \X Docs)
  OBVIOUS
<1> HIDE DEF changed
<1> QED BY <1>1, <1>2, <1>3, <1>4, <1>5, <1>6, OthersInv

LEMMA DeleteDocInv ==
    ASSUME QueueInv, NEW d \in Docs, DeleteDoc(d)
    PROVE  QueueInv'
<1> DEFINE changed == {<<"doc", d>>}
<1>1. /\ doc' = [doc EXCEPT ![d].gone = TRUE] /\ row' = row /\ books' = books
      /\ sender' = Outdate(changed, {})
  BY DEF DeleteDoc
<1>2. doc \in [Docs -> Doc] /\ row \in [Docs -> QueueRow]
  BY DEF QueueInv, QueueTypeOK
<1>3. /\ doc' \in [Docs -> Doc]
      /\ \A e \in Docs : /\ doc'[e].version = doc[e].version
                         /\ doc'[e].center = doc[e].center
                         /\ doc'[e].synced = doc[e].synced
  BY <1>1, <1>2 DEF Doc
<1>4. SyncedArrived' /\ \A e \in Docs : Content(e)' = Content(e)
  BY <1>1, <1>3 DEF QueueInv, SyncedArrived, Docs, Content
<1>5. changed \in SUBSET ({"doc", "row"} \X Docs)
  OBVIOUS
<1> QED BY <1>1, <1>2, <1>3, <1>4, <1>5, OthersInv

LEMMA SetRowInv ==
    ASSUME QueueInv, NEW d \in Docs, NEW state \in {"pending", "cancelled"},
           SetRow(d, state)
    PROVE  QueueInv'
<1> DEFINE changed == {<<"row", d>>}
<1>1. /\ row' = [row EXCEPT ![d].state = state] /\ doc' = doc /\ books' = books
      /\ sender' = Outdate(changed, {}) /\ Unlocked(d, Senders)
  BY DEF SetRow
<1>2. doc \in [Docs -> Doc] /\ row \in [Docs -> QueueRow]
  BY DEF QueueInv, QueueTypeOK
<1>3. row' \in [Docs -> QueueRow]
  BY <1>1, <1>2 DEF QueueRow
<1>4. ASSUME NEW e \in Docs
      PROVE  \/ row'[e] = row[e]
             \/ <<"row", e>> \in changed /\ Unlocked(e, Senders)
  <2>1. CASE e = d
    BY <1>1, <2>1
  <2>2. CASE e # d
    BY <1>1, <1>2, <2>2
  <2> QED BY <2>1, <2>2
<1>5. SyncedArrived' /\ \A e \in Docs : Content(e)' = Content(e)
  BY <1>1 DEF QueueInv, SyncedArrived, Content
<1>6. changed \in SUBSET ({"doc", "row"} \X Docs)
  OBVIOUS
<1> QED BY <1>1, <1>2, <1>3, <1>4, <1>5, <1>6, OthersInv

LEMMA ProcessQueueInv ==
    ASSUME QueueInv, ProcessQueue
    PROVE  QueueInv'
<1> DEFINE changed == {"row"} \X Due
<1>1. /\ row' = [d \in Docs |-> IF d \in Due
                    THEN [row[d] EXCEPT !.state = "failed"] ELSE row[d]]
      /\ doc' = doc /\ books' = books
      /\ sender' = Outdate(changed, {}) /\ \A d \in Due : Unlocked(d, Senders)
  BY DEF ProcessQueue
<1>2. doc \in [Docs -> Doc] /\ row \in [Docs -> QueueRow]
  BY DEF QueueInv, QueueTypeOK
<1>3. row' \in [Docs -> QueueRow]
  BY <1>1, <1>2 DEF QueueRow
<1>4. ASSUME NEW e \in Docs
      PROVE  \/ row'[e] = row[e]
             \/ <<"row", e>> \in changed /\ Unlocked(e, Senders)
  <2>1. CASE e \in Due
    BY <1>1, <2>1
  <2>2. CASE e \notin Due
    BY <1>1, <2>2
  <2> QED BY <2>1, <2>2
<1>5. SyncedArrived' /\ \A e \in Docs : Content(e)' = Content(e)
  BY <1>1 DEF QueueInv, SyncedArrived, Content
<1>6. changed \in SUBSET ({"doc", "row"} \X Docs)
  BY DEF Due
<1> QED BY <1>1, <1>2, <1>3, <1>4, <1>5, <1>6, OthersInv

-----------------------------------------------------------------------------
(* The steps of a sender *)

(* The other senders are as sound as they were: nothing they rely on moves. *)
LEMMA OnlyOneSender ==
    ASSUME QueueInv, NEW s \in Senders, NEW new \in Sender,
           sender' = [sender EXCEPT ![s] = new], UNCHANGED <<doc, row>>,
           books' \in [Docs -> CoreDoc],
           \A d \in Docs : books[d].arrived \subseteq books'[d].arrived,
           CoreKeeps', Sound(s)',
           \A d \in Docs : \/ new.wrote[d] = sender[s].wrote[d]
                           \/ new.wrote[d] = "none"
                           \/ Unlocked(d, Senders \ {s})
    PROVE  QueueInv'
<1>1. sender \in [Senders -> Sender]
  BY DEF QueueInv, QueueTypeOK
<1>2. /\ sender' \in [Senders -> Sender] /\ sender'[s] = new
      /\ \A t \in Senders : t # s => sender'[t] = sender[t]
  BY <1>1
<1>3. QueueTypeOK'
  BY <1>2 DEF QueueInv, QueueTypeOK
<1>7. \A d \in Docs : Content(d)' = Content(d)
  BY DEF Content
<1>4. ASSUME NEW t \in Senders
      PROVE  Sound(t)'
  <2>1. CASE t = s
    BY <2>1
  <2>2. CASE t # s
    BY <1>2, <1>3, <1>7, <2>2, NoticedIsSound DEF QueueInv
  <2> QED BY <2>1, <2>2
<1>5. Exclusive'
  <2>1. ASSUME NEW d \in Docs, NEW t \in Senders, t # s
        PROVE  new.wrote[d] = "none" \/ sender'[t].wrote[d] = "none"
    BY <1>2, <2>1 DEF QueueInv, Exclusive, Unlocked
  <2> QED BY <1>2, <2>1 DEF QueueInv, Exclusive
<1>6. SyncedArrived'
  BY DEF QueueInv, SyncedArrived, Docs
<1> QED BY <1>3, <1>4, <1>5, <1>6 DEF QueueInv

LEMMA BeginSendInv ==
    ASSUME QueueInv, NEW s \in Senders, NEW D \in SUBSET Docs, BeginSend(s, D),
           s \in Drains => \A d \in D : row[d].state = "pending"
    PROVE  QueueInv'
<1> DEFINE new == [IdleSender EXCEPT !.open = TRUE, !.todo = D]
<1>1. /\ sender' = [sender EXCEPT ![s] = new]
      /\ doc' = doc /\ row' = row /\ books' = books
  BY DEF BeginSend
<1>2. /\ new \in Sender /\ new.todo = D /\ new.at = {} /\ new.stale = {}
      /\ new.sent = "none" /\ \A d \in Docs : new.wrote[d] = "none"
  BY IdleSenderType DEF IdleSender, Sender, NothingWritten
<1>3. sender'[s] = new
  BY <1>1 DEF QueueInv, QueueTypeOK
<1>4. Sound(s)'
  BY <1>1, <1>2, <1>3 DEF Sound
<1>5. /\ books \in [Docs -> CoreDoc]
      /\ \A d \in Docs : books[d].arrived \subseteq books'[d].arrived
      /\ CoreKeeps'
  BY <1>1 DEF QueueInv, QueueTypeOK, CoreKeeps
<1> HIDE DEF new
<1> QED BY <1>1, <1>2, <1>4, <1>5, OnlyOneSender

LEMMA KillSenderInv ==
    ASSUME QueueInv, NEW s \in Senders, KillSender(s)
    PROVE  QueueInv'
<1>1. /\ sender' = [sender EXCEPT ![s] = IdleSender]
      /\ doc' = doc /\ row' = row /\ books' = books
  BY DEF KillSender
<1>2. sender'[s] = IdleSender
  BY <1>1 DEF QueueInv, QueueTypeOK
<1>3. \A d \in Docs : IdleSender.wrote[d] = "none"
  BY DEF IdleSender, NothingWritten
<1>4. /\ books \in [Docs -> CoreDoc]
      /\ \A d \in Docs : books[d].arrived \subseteq books'[d].arrived
      /\ CoreKeeps'
  BY <1>1 DEF QueueInv, QueueTypeOK, CoreKeeps
<1> QED BY <1>1, <1>2, <1>3, <1>4, IdleSenderType, IdleIsSound, OnlyOneSender

(* A call to the Core: what it is taken to have achieved it has achieved,   *)
(* unless the sender is stale.                                              *)
LEMMA TakeInv ==
    ASSUME QueueInv, NEW s \in Senders, NEW d \in Docs, NEW outcome \in Results,
           Sendable(s, d), Take(s, d, outcome), UNCHANGED <<doc, row>>,
           books' \in [Docs -> CoreDoc],
           \A e \in Docs : books[e].arrived \subseteq books'[e].arrived,
           CoreKeeps',
           outcome = "retry" => row[d].retries < MaxRetries,
           outcome = "done" /\ <<"doc", d>> \notin sender[s].stale =>
              Content(d) \in books'[d].arrived
    PROVE  QueueInv'
<1> DEFINE new == [sender[s] EXCEPT !.todo = @ \ {d}, !.at = {d}, !.sent = outcome]
<1>1. sender \in [Senders -> Sender] /\ sender[s] \in Sender
  BY DEF QueueInv, QueueTypeOK
<1>2. sender' = [sender EXCEPT ![s] = new]
  BY <1>1 DEF Take
<1>3. /\ new \in Sender
      /\ new.todo = sender[s].todo \ {d} /\ new.at = {d} /\ new.sent = outcome
      /\ new.stale = sender[s].stale /\ new.wrote = sender[s].wrote
  BY <1>1 DEF Sender
<1>4. sender'[s] = new
  BY <1>1, <1>2
<1> HIDE DEF new
<1>11. \A e \in Docs : Content(e)' = Content(e)
  BY DEF Content
<1>5. d \in sender[s].todo
  BY DEF Sendable
<1>6. ASSUME NEW e \in sender'[s].todo \union sender'[s].at
      PROVE  /\ sender'[s].wrote[e] = "none"
             /\ s \in Drains /\ <<"row", e>> \notin sender'[s].stale =>
                   row'[e].state = "pending"
  <2>1. e \in sender[s].todo
    BY <1>3, <1>4, <1>5, <1>6
  <2> QED BY <1>3, <1>4, <2>1 DEF QueueInv, Sound
<1>7. ASSUME NEW e \in sender'[s].at
      PROVE  /\ sender'[s].sent = "retry" /\ <<"row", e>> \notin sender'[s].stale =>
                   row'[e].retries < MaxRetries
             /\ sender'[s].sent = "done" /\ <<"doc", e>> \notin sender'[s].stale =>
                   Content(e)' \in books'[e].arrived
  <2>1. e = d
    BY <1>3, <1>4, <1>7
  <2> QED BY <1>3, <1>4, <1>11, <2>1
<1>8. ASSUME NEW e \in Docs
      PROVE  /\ sender'[s].wrote[e] = "retry" => row'[e].retries < MaxRetries
             /\ sender'[s].wrote[e] = "done" => Content(e)' \in books'[e].arrived
             /\ s \in Drains /\ sender'[s].wrote[e] # "none" => row'[e].state = "pending"
  BY <1>3, <1>4, <1>11 DEF QueueInv, Sound
<1>9. (sender[s].todo \intersect sender[s].at = {})'
  BY <1>3, <1>4
<1>10. Sound(s)'
  BY <1>6, <1>7, <1>8, <1>9 DEF Sound
<1> QED BY <1>2, <1>3, <1>10, OnlyOneSender

(* The Core is sent a payload, and keeps what it held or adds it. *)
LEMMA ReceiveKeeps ==
    ASSUME QueueInv, NEW d \in Docs, NEW payload \in Contents,
           books' = Receive(d, payload)
    PROVE  /\ books' \in [Docs -> CoreDoc] /\ CoreKeeps'
           /\ \A e \in Docs : books[e].arrived \subseteq books'[e].arrived
           /\ payload \in books'[d].arrived
<1>1. books \in [Docs -> CoreDoc] /\ CoreKeeps
  BY DEF QueueInv, QueueTypeOK
<1>2. /\ books' = [books EXCEPT ![d] = books'[d]]
      /\ books'[d] = [arrived |-> books[d].arrived \union {payload},
                     held |-> IF Deduplicates /\ books[d].held # {} THEN books[d].held
                              ELSE books[d].held \union {payload}]
  BY <1>1 DEF Receive
<1>3. books[d].arrived \in SUBSET Contents /\ books[d].held \in SUBSET Contents
  BY <1>1 DEF CoreDoc
<1>4. /\ books'[d].arrived = books[d].arrived \union {payload}
      /\ books'[d].held = IF Deduplicates /\ books[d].held # {} THEN books[d].held
                         ELSE books[d].held \union {payload}
  BY <1>2
<1>5. books'[d] \in CoreDoc
  BY <1>2, <1>3 DEF CoreDoc
<1>6. /\ books' \in [Docs -> CoreDoc]
      /\ \A e \in Docs : e # d => books'[e] = books[e]
  BY <1>1, <1>2, <1>5
<1>7. CoreKeeps'
  BY <1>1, <1>4, <1>6 DEF CoreKeeps
<1> QED BY <1>4, <1>6, <1>7

LEMMA SendInv ==
    ASSUME QueueInv, NEW s \in Senders, NEW d \in Docs,
           Send(s, d) \/ SendUnheard(s, d) \/ SendRefused(s, d)
    PROVE  QueueInv'
<1>1. books \in [Docs -> CoreDoc] /\ CoreKeeps /\ doc[d] \in Doc
  BY DEF QueueInv, QueueTypeOK
<1>2. /\ Payloads(s, d) \subseteq Contents
      /\ <<"doc", d>> \notin sender[s].stale => Payloads(s, d) \subseteq {Content(d)}
  <2>1. /\ doc[d].version \in Nat /\ doc[d].version <= MaxVersion
        /\ doc[d].center \in Nat /\ doc[d].center <= MaxVersion
    BY <1>1, QueueAssumption DEF Doc, Versions
  <2>2. Content(d) \in Contents
    BY <2>1, QueueAssumption DEF Content, Contents, Versions
  <2>3. (1..doc[d].version) \X (0..doc[d].center) \subseteq Contents
    BY <2>1, QueueAssumption DEF Contents, Versions
  <2> QED BY <2>2, <2>3 DEF Payloads
<1>3. CASE Send(s, d)
  <2>1. PICK payload \in Payloads(s, d) : books' = Receive(d, payload)
    BY <1>3 DEF Send
  <2>2. /\ books' \in [Docs -> CoreDoc] /\ CoreKeeps'
        /\ \A e \in Docs : books[e].arrived \subseteq books'[e].arrived
        /\ payload \in books'[d].arrived
    BY <1>2, <2>1, ReceiveKeeps
  <2>3. <<"doc", d>> \notin sender[s].stale => Content(d) \in books'[d].arrived
    BY <1>2, <2>1, <2>2
  <2>4. /\ Sendable(s, d) /\ Take(s, d, "done") /\ "done" \in Results
        /\ UNCHANGED <<doc, row>>
    BY <1>3 DEF Send, CanSend, Results
  <2> QED BY <2>2, <2>3, <2>4, TakeInv
<1>4. CASE SendUnheard(s, d)
  <2>1. PICK payload \in Payloads(s, d) : books' \in {books, Receive(d, payload)}
    BY <1>4 DEF SendUnheard
  <2>2. /\ books' \in [Docs -> CoreDoc] /\ CoreKeeps'
        /\ \A e \in Docs : books[e].arrived \subseteq books'[e].arrived
    <3>1. CASE books' = books
      BY <1>1, <3>1 DEF CoreKeeps
    <3>2. CASE books' = Receive(d, payload)
      BY <1>2, <3>2, ReceiveKeeps
    <3> QED BY <2>1, <3>1, <3>2
  <2>3. /\ Sendable(s, d) /\ Take(s, d, "retry") /\ "retry" \in Results
        /\ row[d].retries < MaxRetries /\ UNCHANGED <<doc, row>>
    BY <1>4 DEF SendUnheard, CanSend, Results
  <2> QED BY <2>2, <2>3, TakeInv
<1>5. CASE SendRefused(s, d)
  <2>1. /\ Sendable(s, d) /\ Take(s, d, "failed") /\ "failed" \in Results
        /\ books' = books /\ UNCHANGED <<doc, row>>
    BY <1>5 DEF SendRefused, Results
  <2>2. CoreKeeps'
    BY <1>1, <2>1 DEF CoreKeeps
  <2> QED BY <1>1, <2>1, <2>2, TakeInv
<1> QED BY <1>3, <1>4, <1>5

(* A flush: what it writes was sound, or it fails and writes nothing. *)
LEMMA FlushInv ==
    ASSUME QueueInv, NEW s \in Senders, NEW d \in Docs, Flush(s, d)
    PROVE  QueueInv'
<1> DEFINE outcome == IF Lost(s, d) THEN "none" ELSE sender[s].sent
           wrote == [sender[s].wrote EXCEPT ![d] = outcome]
           new == [sender[s] EXCEPT !.at = {}, !.sent = "none",
                      !.stale = @ \ ({"doc", "row"} \X {d}), !.wrote = wrote]
<1>1. sender \in [Senders -> Sender] /\ sender[s] \in Sender
  BY DEF QueueInv, QueueTypeOK
<1>2. /\ sender[s].at = {d} /\ Unlocked(d, Senders \ {s})
      /\ sender' = [sender EXCEPT ![s] = new]
      /\ doc' = doc /\ row' = row /\ books' = books
  <2>1. /\ sender[s].at = {d} /\ Unlocked(d, Senders \ {s}) /\ Flushed(s, d, outcome)
        /\ UNCHANGED <<doc, row, books>>
    BY DEF Flush
  <2> HIDE DEF outcome
  <2>2. sender' = [sender EXCEPT ![s] = new]
    <3> DEFINE rest == [sender[s] EXCEPT !.at = {}, !.sent = "none",
                          !.stale = @ \ ({"doc", "row"} \X {d})]
    <3>1. sender' = [sender EXCEPT ![s] = rest, ![s].wrote[d] = outcome]
      BY <1>1, <2>1 DEF Flushed
    <3>2. rest.wrote = sender[s].wrote /\ new = [rest EXCEPT !.wrote = wrote]
      BY <1>1 DEF Sender
    <3> QED BY <1>1, <3>1, <3>2
  <2> QED BY <2>1, <2>2
<1>3. outcome \in Results
  BY <1>1 DEF Sender, Results
<1>4. /\ Lost(s, d) => outcome = "none"
      /\ ~Lost(s, d) => outcome = sender[s].sent
  OBVIOUS
<1> HIDE DEF outcome
<1>5. /\ wrote \in [Docs -> Results] /\ wrote[d] = outcome
      /\ \A e \in Docs : e # d => wrote[e] = sender[s].wrote[e]
  BY <1>1, <1>3 DEF Sender
<1> HIDE DEF wrote
<1>6. /\ new \in Sender
      /\ new.todo = sender[s].todo /\ new.at = {}
      /\ new.stale = sender[s].stale \ ({"doc", "row"} \X {d})
      /\ new.wrote[d] = outcome
      /\ \A e \in Docs : e # d => new.wrote[e] = sender[s].wrote[e]
  BY <1>1, <1>3, <1>5 DEF Sender, Results
<1>7. sender'[s] = new
  BY <1>1, <1>2
<1> HIDE DEF new
<1>8. d \notin sender[s].todo /\ sender[s].todo \subseteq Docs
  BY <1>1, <1>2 DEF QueueInv, Sound, Sender
<1>14. \A e \in Docs : Content(e)' = Content(e)
  BY <1>2 DEF Content
<1>9. ASSUME NEW e \in sender'[s].todo \union sender'[s].at
      PROVE  /\ sender'[s].wrote[e] = "none"
             /\ s \in Drains /\ <<"row", e>> \notin sender'[s].stale =>
                   row'[e].state = "pending"
  <2>1. e \in sender[s].todo /\ e # d /\ e \in Docs
    BY <1>6, <1>7, <1>8, <1>9
  <2>2. <<"row", e>> \notin sender'[s].stale => <<"row", e>> \notin sender[s].stale
    BY <1>6, <1>7, <2>1
  <2> QED BY <1>2, <1>6, <1>7, <2>1, <2>2 DEF QueueInv, Sound
<1>10. ASSUME NEW e \in Docs
      PROVE  /\ sender'[s].wrote[e] = "retry" => row'[e].retries < MaxRetries
             /\ sender'[s].wrote[e] = "done" => Content(e)' \in books'[e].arrived
             /\ s \in Drains /\ sender'[s].wrote[e] # "none" => row'[e].state = "pending"
  <2>1. CASE e # d
    BY <1>2, <1>6, <1>7, <1>14, <2>1 DEF QueueInv, Sound
  <2>2. CASE e = d /\ Lost(s, d)
    BY <1>4, <1>6, <1>7, <2>2
  <2>3. CASE e = d /\ ~Lost(s, d)
    <3>1. /\ sender'[s].wrote[d] = sender[s].sent
          /\ <<"row", d>> \notin sender[s].stale
          /\ sender[s].sent = "done" => <<"doc", d>> \notin sender[s].stale
      BY <1>4, <1>6, <1>7, <2>3 DEF Lost
    <3> QED BY <1>2, <1>14, <2>3, <3>1 DEF QueueInv, Sound
  <2> QED BY <2>1, <2>2, <2>3
<1>11. Sound(s)'
  BY <1>6, <1>7, <1>9, <1>10 DEF Sound
<1>12. \A e \in Docs : \/ new.wrote[e] = sender[s].wrote[e]
                       \/ Unlocked(e, Senders \ {s})
  BY <1>2, <1>6
<1>13. /\ books \in [Docs -> CoreDoc]
       /\ \A e \in Docs : books[e].arrived \subseteq books'[e].arrived
       /\ CoreKeeps'
  BY <1>2 DEF QueueInv, QueueTypeOK, CoreKeeps
<1> QED BY <1>2, <1>6, <1>11, <1>12, <1>13, OnlyOneSender

(* The end of a transaction: the other senders notice what it wrote, and    *)
(* have flushed nothing of it themselves.                                   *)
LEMMA CommitSendInv ==
    ASSUME QueueInv, NEW s \in Senders, CommitSend(s)
    PROVE  QueueInv'
<1> DEFINE wrote == sender[s].wrote
           changed == ({"row"} \X {d \in Docs : wrote[d] # "none"})
                         \union ({"doc"} \X {d \in Docs : wrote[d] = "done"})
           O == Outdate(changed, {s})
<1>1. /\ row' = [d \in Docs |-> Outcome(row[d], wrote[d])]
      /\ doc' = [d \in Docs |-> IF wrote[d] = "done"
                    THEN [doc[d] EXCEPT !.synced = TRUE] ELSE doc[d]]
      /\ sender' = [O EXCEPT ![s] = IdleSender]
      /\ books' = books
  BY DEF CommitSend
<1>2. /\ doc \in [Docs -> Doc] /\ row \in [Docs -> QueueRow]
      /\ books \in [Docs -> CoreDoc]
      /\ wrote \in [Docs -> Results]
  BY DEF QueueInv, QueueTypeOK, Sender
<1>3. changed \in SUBSET ({"doc", "row"} \X Docs)
  OBVIOUS
<1>4. /\ O \in [Senders -> Sender]
      /\ \A t \in Senders \ {s} : Noticed(sender[t], O[t], changed)
  BY <1>3, OutdateIsNoticed DEF QueueInv
<1>5. \A d \in Docs : /\ wrote[d] # "none" => <<"row", d>> \in changed
                      /\ wrote[d] = "done" => <<"doc", d>> \in changed
  OBVIOUS
<1> HIDE DEF O, changed
<1>6. ASSUME NEW d \in Docs
      PROVE  /\ row'[d] \in QueueRow
             /\ row'[d] = row[d] \/ wrote[d] # "none"
  <2>1. row'[d] = Outcome(row[d], wrote[d]) /\ row[d] \in QueueRow
    BY <1>1, <1>2
  <2>2. wrote[d] = "retry" => row[d].retries < MaxRetries
    BY DEF QueueInv, Sound
  <2>3. CASE wrote[d] = "none"
    BY <2>1, <2>3 DEF Outcome
  <2>4. CASE wrote[d] = "done"
    BY <2>1, <2>4 DEF Outcome, QueueRow
  <2>5. CASE wrote[d] = "failed"
    BY <2>1, <2>5 DEF Outcome, QueueRow
  <2>6. CASE wrote[d] = "retry"
    <3>1. /\ row'[d] = [row[d] EXCEPT !.state = "pending", !.retries = @ + 1]
          /\ row[d].retries < MaxRetries
      BY <2>1, <2>2, <2>6 DEF Outcome
    <3>2. row[d].retries \in 0..MaxRetries /\ row[d].retries + 1 \in 0..MaxRetries
      BY <2>1, <3>1, QueueAssumption DEF QueueRow
    <3>3. row'[d] \in QueueRow
      BY <2>1, <3>1, <3>2 DEF QueueRow
    <3> QED BY <2>6, <3>3
  <2> QED BY <1>2, <2>3, <2>4, <2>5, <2>6 DEF Results
<1>7. ASSUME NEW d \in Docs
      PROVE  /\ doc'[d] \in Doc /\ doc'[d].version = doc[d].version
             /\ Content(d)' = Content(d)
             /\ doc'[d].synced => doc[d].synced \/ wrote[d] = "done"
  BY <1>1, <1>2 DEF Doc, Content
<1>8. /\ sender' \in [Senders -> Sender] /\ sender'[s] = IdleSender
      /\ \A t \in Senders \ {s} : sender'[t] = O[t]
  BY <1>1, <1>4, IdleSenderType
<1>9. QueueTypeOK'
  <2>1. row' \in [Docs -> QueueRow]
    BY <1>1, <1>6
  <2>2. doc' \in [Docs -> Doc]
    BY <1>1, <1>7
  <2> QED BY <1>1, <1>2, <1>8, <2>1, <2>2 DEF QueueTypeOK
<1>10. ASSUME NEW t \in Senders
       PROVE  Sound(t)'
  <2>1. CASE t = s
    BY <1>8, <2>1, IdleIsSound
  <2>2. CASE t # s
    <3>1. Noticed(sender[t], sender'[t], changed)
      BY <1>4, <1>8, <2>2
    <3>2. \A d \in Docs : wrote[d] # "none" => sender[t].wrote[d] = "none"
      BY <2>2 DEF QueueInv, Exclusive
    <3>3. \A d \in Docs : <<"row", d>>[2] = d
      OBVIOUS
    <3>4. \A d \in Docs :
             \/ row'[d] = row[d]
             \/ /\ sender[t].wrote[d] = "none"
                /\ d \in sender[t].todo \union sender[t].at =>
                      <<"row", d>> \in sender'[t].stale
      BY <1>5, <1>6, <3>1, <3>2, <3>3 DEF Noticed
    <3> QED BY <1>1, <1>7, <1>9, <3>1, <3>4, NoticedIsSound DEF QueueInv, Noticed
  <2> QED BY <2>1, <2>2
<1>11. Exclusive'
  <2>1. \A t \in Senders : \/ sender'[t].wrote = sender[t].wrote
                           \/ sender'[t].wrote = NothingWritten
    BY <1>4, <1>8 DEF Noticed, IdleSender
  <2> QED BY <2>1, SameWroteExclusive DEF QueueInv
<1>12. SyncedArrived'
  <2>1. \A d \in Docs : wrote[d] = "done" => Content(d) \in books[d].arrived
    BY DEF QueueInv, Sound
  <2>2. \A d \in Docs : Content(d)[1] = doc[d].version
    BY DEF Content
  <2> QED BY <1>1, <1>7, <2>1, <2>2 DEF QueueInv, SyncedArrived, Docs
<1>13. CoreKeeps'
  BY <1>1 DEF QueueInv, CoreKeeps
<1> QED BY <1>9, <1>10, <1>11, <1>12, <1>13 DEF QueueInv

-----------------------------------------------------------------------------
(* Theorems *)

LEMMA QueueInvNext == QueueInv /\ [QueueNext]_queueVars => QueueInv'
<1> SUFFICES ASSUME QueueInv, [QueueNext]_queueVars
             PROVE  QueueInv'
  OBVIOUS
<1>1. CASE ProcessQueue
  BY <1>1, ProcessQueueInv
<1>2. ASSUME NEW d \in Invoices, PostInvoice(d)
      PROVE  QueueInv'
  BY <1>2, WriteInv DEF PostInvoice, Docs
<1>12. ASSUME NEW d \in Invoices, EditCostCenter(d)
       PROVE  QueueInv'
  BY <1>12, EditCostCenterInv DEF Docs
<1>3. ASSUME NEW d \in AssetLines, EnqueueAsset(d)
      PROVE  QueueInv'
  BY <1>3, WriteInv, QueueAssumption DEF EnqueueAsset, Docs
<1>4. ASSUME NEW d \in CostCenters, EnqueueCostCenter(d)
      PROVE  QueueInv'
  <2>1. Write(d) /\ (Enqueue(d) \/ UNCHANGED row)
    BY <1>4 DEF EnqueueCostCenter
  <2> QED BY <2>1, WriteInv, QueueAssumption DEF Docs
<1>5. ASSUME NEW d \in Claims, ApproveClaim(d)
      PROVE  QueueInv'
  BY <1>5, WriteInv, QueueAssumption DEF ApproveClaim, Docs
<1>6. ASSUME NEW d \in Docs, DeleteDoc(d) \/ RetryRow(d) \/ CancelRow(d)
      PROVE  QueueInv'
  BY <1>6, DeleteDocInv, SetRowInv DEF RetryRow, CancelRow
<1>7. ASSUME NEW s \in Drains, StartDrain(s)
      PROVE  QueueInv'
  BY <1>7, BeginSendInv DEF StartDrain, Due, Senders
<1>8. ASSUME NEW s \in Buttons, NEW d \in Docs, ProcessNow(s, d)
      PROVE  QueueInv'
  <2>1. s \in Senders /\ s \notin Drains /\ BeginSend(s, {d})
    BY <1>8, QueueAssumption DEF ProcessNow, Senders
  <2> QED BY <2>1, BeginSendInv
<1>9. ASSUME NEW s \in Senders, CommitSend(s) \/ KillSender(s)
      PROVE  QueueInv'
  BY <1>9, CommitSendInv, KillSenderInv
<1>10. ASSUME NEW s \in Senders, NEW d \in Docs,
              Send(s, d) \/ SendUnheard(s, d) \/ SendRefused(s, d) \/ Flush(s, d)
       PROVE  QueueInv'
  BY <1>10, SendInv, FlushInv
<1>11. CASE UNCHANGED queueVars
  BY <1>11, StutterInv
<1> QED BY <1>1, <1>2, <1>3, <1>4, <1>5, <1>6, <1>7, <1>8, <1>9, <1>10, <1>11, <1>12
        DEF QueueNext

(* The invariant of the queue, however many drains and presses overlap. *)
THEOREM QueueSafe == QueueSpec => []QueueInv
BY QueueInvInit, QueueInvNext, PTL DEF QueueSpec

(* Every variable has its type: no row is retried beyond max_retries. *)
THEOREM QueueTypes == QueueSpec => []QueueTypeOK
<1>1. QueueInv => QueueTypeOK
  BY DEF QueueInv
<1> QED BY <1>1, QueueSafe, PTL

(* What is synced was sent as it stands, and is held so by a Core that was  *)
(* sent nothing else, or takes whatever it is sent.                         *)
LEMMA ArrivedIsInCore == QueueInv => SyncedIsInCore
<1> SUFFICES ASSUME QueueInv, NEW d \in Invoices, doc[d].synced
             PROVE  LET asItStands == {c \in Contents : c[1] = doc[d].version} IN
                    /\ books[d].arrived \intersect asItStands # {}
                    /\ \/ books[d].held \intersect asItStands # {}
                       \/ Deduplicates /\ ~(books[d].arrived \subseteq asItStands)
  BY DEF SyncedIsInCore
<1> DEFINE asItStands == {c \in Contents : c[1] = doc[d].version}
<1>1. d \in Docs
  BY DEF Docs
<1>2. books[d].arrived \subseteq Contents
  BY <1>1 DEF QueueInv, QueueTypeOK, CoreDoc
<1>3. PICK c \in books[d].arrived : c[1] = doc[d].version
  BY DEF QueueInv, SyncedArrived
<1>4. c \in asItStands
  BY <1>2, <1>3
<1>5. /\ books[d].held \subseteq books[d].arrived /\ books[d].held # {}
      /\ ~Deduplicates => c \in books[d].held
  BY <1>1, <1>3 DEF QueueInv, CoreKeeps
<1> HIDE DEF asItStands
<1>6. books[d].arrived \subseteq asItStands => books[d].held \intersect asItStands # {}
  BY <1>5
<1>7. /\ books[d].arrived \intersect asItStands # {}
      /\ \/ books[d].held \intersect asItStands # {}
         \/ Deduplicates /\ ~(books[d].arrived \subseteq asItStands)
  BY <1>3, <1>4, <1>5, <1>6, QueueAssumption
<1> QED BY <1>7 DEF asItStands

(* mark_synced is not flushed over an invoice that was posted anew during   *)
(* the call: what is synced has been sent to the Core as it stands in Odoo, *)
(* but for its cost center, whether or not the Core drops repetitions.      *)
THEOREM SyncedInvoicesInCore == QueueSpec => []SyncedIsInCore
BY ArrivedIsInCore, QueueSafe, PTL

(* A drain never flushes over a row that was cancelled, failed or sent by   *)
(* another transaction while it was calling the Core.                       *)
THEOREM DrainsTakePending == QueueSpec => []DrainTakesPending
<1>1. QueueInv => DrainTakesPending
  BY DEF QueueInv, Sound, DrainTakesPending, Senders
<1> QED BY <1>1, QueueSafe, PTL


=============================================================================
