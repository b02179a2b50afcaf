-------------------------- MODULE PaginationProofs --------------------------
(***************************************************************************)
(* Proofs about Pagination: whatever the portal lists and publishes, and   *)
(* however the runs of a full sweep end, what the sweep owes stays ahead   *)
(* of its cursor; and a portal that does not change keeps no run for more  *)
(* than a few pages without anything new.                                  *)
(***************************************************************************)
EXTENDS Pagination, SequenceTheorems, TLAPS

LEMMA ConstantsAreNumbers ==
  /\ PageSize \in Nat \ {0} /\ EmptyLimit \in Nat \ {0} /\ StaleLimit \in Nat \ {0}
  /\ Newest \in Nat \ {0} /\ MaxPages \in Nat \ {0}
BY LimitsAssumption

LEMMA ProductsGrow ==
  ASSUME NEW b \in Nat, NEW m \in Nat, NEW n \in Nat
  PROVE  /\ m * b \in Nat
         /\ m <= n => m * b <= n * b
         /\ (m + 1) * b = m * b + b
OBVIOUS

LEMMA Quotient ==
  ASSUME NEW a \in Nat, NEW b \in Nat \ {0}
  PROVE  /\ a \div b \in Nat
         /\ (a \div b) * b <= a
         /\ a < (a \div b) * b + b
OBVIOUS

LEMMA Remainder ==
  ASSUME NEW a \in Nat, NEW b \in Nat \ {0}
  PROVE  a % b \in Nat /\ a % b < b
OBVIOUS

(* The pages of the index. *)
LEMMA PagesOfIndex ==
  ASSUME index \in Seq(Documents), NEW n \in Nat
  PROVE  /\ PageCount \in Nat
         /\ n < PageCount <=> n * PageSize < Len(index)
<1> DEFINE L == Len(index)
           q == (L + PageSize - 1) \div PageSize
<1>1. L \in Nat /\ PageSize \in Nat \ {0} /\ L + PageSize - 1 \in Nat
  BY ConstantsAreNumbers
<1>2. q \in Nat /\ q * PageSize <= L + PageSize - 1 /\ L + PageSize - 1 < q * PageSize + PageSize
  BY <1>1, Quotient
<1>3. q = PageCount
  BY DEF PageCount
<1> HIDE DEF L, q
<1>4. n * PageSize \in Nat /\ q * PageSize \in Nat
  BY <1>1, <1>2, ProductsGrow
<1>5. CASE n < q
  <2>1. (n + 1) * PageSize <= q * PageSize /\ (n + 1) * PageSize = n * PageSize + PageSize
    BY <1>1, <1>2, <1>5, ProductsGrow
  <2>2. n * PageSize < L
    BY <1>1, <1>2, <1>4, <2>1
  <2> QED
    BY <1>2, <1>3, <1>5, <2>2 DEF L
<1>6. CASE ~ (n < q)
  <2>1. q * PageSize <= n * PageSize
    BY <1>1, <1>2, <1>6, ProductsGrow
  <2>2. ~ (n * PageSize < L)
    BY <1>1, <1>2, <1>4, <2>1
  <2> QED
    BY <1>2, <1>3, <1>6, <2>2 DEF L
<1> QED
  BY <1>5, <1>6

LEMMA ElementsAre ==
  ASSUME NEW S, NEW s \in Seq(S)
  PROVE  ToSet(s) = {s[i] : i \in 1 .. Len(s)}
BY LenProperties DEF ToSet

LEMMA NothingInEmpty == ToSet(<<>>) = {}
BY DEF ToSet

(* A part of a sequence. *)
LEMMA PartOf ==
  ASSUME NEW S, NEW s \in Seq(S), NEW m \in Nat, NEW k \in Nat, m < k, k <= Len(s)
  PROVE  /\ SubSeq(s, m + 1, k) \in Seq(S)
         /\ SubSeq(s, m + 1, k) # <<>>
         /\ \A i \in 1 .. Len(s) : m < i /\ i <= k => s[i] \in ToSet(SubSeq(s, m + 1, k))
<1> DEFINE t == SubSeq(s, m + 1, k)
<1>1. /\ t \in Seq(S) /\ Len(t) = k - m
      /\ \A i \in 1 .. k - m : t[i] = s[m + i]
  <2>1. \A i \in m + 1 .. k : s[i] \in S
    BY ElementOfSeq
  <2>2. m + 1 \in Int /\ k \in Int /\ m + 1 <= k /\ k - (m + 1) + 1 = k - m
    OBVIOUS
  <2>3. /\ t \in Seq(S) /\ Len(t) = k - m
        /\ \A i \in 1 .. k - m : t[i] = s[(m + 1) + i - 1]
    BY <2>1, <2>2, SubSeqProperties
  <2> QED
    BY <2>3
<1>2. ASSUME NEW i \in 1 .. Len(s), m < i, i <= k
      PROVE  s[i] \in ToSet(t)
  <2>1. i - m \in 1 .. Len(t) /\ t[i - m] = s[i]
    BY <1>1, <1>2
  <2> HIDE DEF t
  <2> QED
    BY <1>1, <2>1, ElementsAre
<1>3. t # <<>>
  BY <1>1
<1> QED
  BY <1>1, <1>2, <1>3

LEMMA RemovingKeepsType ==
  ASSUME NEW S, NEW s \in Seq(S), NEW i \in DOMAIN s
  PROVE  RemoveAt(s, i) \in Seq(S)
<1>1. Len(s) \in Nat /\ i \in 1 .. Len(s) /\ \A j \in 1 .. Len(s) : s[j] \in S
  BY LenProperties, ElementOfSeq
<1>2. SubSeq(s, 1, i - 1) \in Seq(S)
  <2>1. \A j \in 1 .. i - 1 : s[j] \in S
    BY <1>1
  <2> QED
    BY <1>1, <2>1, SubSeqProperties
<1>3. SubSeq(s, i + 1, Len(s)) \in Seq(S)
  <2>1. \A j \in i + 1 .. Len(s) : s[j] \in S
    BY <1>1
  <2> QED
    BY <1>1, <2>1, SubSeqProperties
<1> QED
  BY <1>2, <1>3, ConcatProperties DEF RemoveAt

(* What a page shows of the index. *)
LEMMA PageOfIndexShows ==
  ASSUME index \in Seq(Documents), NEW n \in Nat, n < PageCount
  PROVE  /\ PageOfIndex(n) \in Seq(Documents)
         /\ PageOfIndex(n) # <<>>
         /\ \A i \in 1 .. Len(index) :
              n * PageSize < i /\ i <= (n + 1) * PageSize => index[i] \in ToSet(PageOfIndex(n))
<1> DEFINE m == n * PageSize
           k == IF (n + 1) * PageSize < Len(index) THEN (n + 1) * PageSize ELSE Len(index)
<1>1. m < Len(index) /\ m \in Nat /\ (n + 1) * PageSize = m + PageSize /\ PageSize \in Nat \ {0}
  BY PagesOfIndex, ConstantsAreNumbers, ProductsGrow
<1>2. /\ m < k /\ k \in Nat /\ k <= Len(index)
      /\ \A i \in 1 .. Len(index) : i <= (n + 1) * PageSize => i <= k
  BY <1>1
<1>3. PageOfIndex(n) = SubSeq(index, m + 1, k)
  BY DEF PageOfIndex
<1> HIDE DEF m, k
<1>4. /\ SubSeq(index, m + 1, k) \in Seq(Documents) /\ SubSeq(index, m + 1, k) # <<>>
      /\ \A i \in 1 .. Len(index) :
           m < i /\ i <= k => index[i] \in ToSet(SubSeq(index, m + 1, k))
  BY <1>1, <1>2, PartOf
<1> QED
  BY <1>2, <1>3, <1>4 DEF m

LEMMA PagesShow ==
  ASSUME index \in Seq(Documents), NEW n \in Nat
  PROVE  /\ PageAt(n) \in Seq(Documents)
         /\ PageAt(n) = <<>> => PageAt(n + 1) = <<>>
         /\ PageAt(n) = <<>> => n * PageSize >= Len(index)
         /\ \A i \in 1 .. Len(index) :
              n * PageSize < i /\ i <= (n + 1) * PageSize => index[i] \in ToSet(PageAt(n))
<1>1. PageCount \in Nat /\ (n < PageCount <=> n * PageSize < Len(index))
  BY PagesOfIndex
<1>2. n * PageSize \in Nat /\ Len(index) \in Nat
  BY ConstantsAreNumbers, ProductsGrow
<1>3. ASSUME PageCount > 0
      PROVE  /\ PageOfIndex(PageCount - 1) \in Seq(Documents) /\ PageOfIndex(PageCount - 1) # <<>>
             /\ PageOfIndex(n % PageCount) \in Seq(Documents) /\ PageOfIndex(n % PageCount) # <<>>
             /\ PageOfIndex((n + 1) % PageCount) # <<>>
  <2>1. /\ PageCount - 1 \in Nat /\ PageCount - 1 < PageCount
        /\ n % PageCount \in Nat /\ n % PageCount < PageCount
        /\ (n + 1) % PageCount \in Nat /\ (n + 1) % PageCount < PageCount
    BY <1>1, <1>3, Remainder
  <2> QED
    BY <2>1, PageOfIndexShows
<1>4. n < PageCount => /\ PageAt(n) = PageOfIndex(n)
                       /\ PageAt(n) \in Seq(Documents) /\ PageAt(n) # <<>>
  <2>1. n < PageCount => PageAt(n) = PageOfIndex(n)
    BY <1>1 DEF PageAt
  <2> QED
    BY <2>1, PageOfIndexShows
<1>5. PageAt(n) \in Seq(Documents)
  BY <1>1, <1>3, <1>4 DEF PageAt
<1>6. PageAt(n) = <<>> => n >= PageCount /\ (beyond \notin {"last", "first"} \/ ~ (PageCount > 0))
  BY <1>1, <1>3, <1>4 DEF PageAt
<1>7. PageAt(n) = <<>> => PageAt(n + 1) = <<>>
  <2>1. PageAt(n) = <<>> => ~ (n + 1 < PageCount)
    BY <1>1, <1>6
  <2> QED
    BY <1>6, <2>1 DEF PageAt
<1> QED
  BY <1>1, <1>2, <1>4, <1>5, <1>6, <1>7, PageOfIndexShows

-----------------------------------------------------------------------------
(* A sweep reads everything. *)

LEMMA InitialRead == PaginationInit => ReadInvariant
<1> SUFFICES ASSUME PaginationInit
             PROVE  ReadInvariant
  OBVIOUS
<1>1. /\ index = Listing /\ refs = <<>> /\ page = 0 /\ resume = 0 /\ sweeping = FALSE
      /\ owed = {} /\ phase = "idle"
      /\ saved.cursor = 0 /\ saved.sweeping = FALSE /\ saved.exists = FALSE
  BY DEF PaginationInit, NoCheckpoint
<1>2. index \in Seq(Documents) /\ refs \in Seq(Documents)
  BY <1>1, ListingAssumption, EmptySeq DEF Documents
<1>3. CursorsLag /\ OwedIsAhead
  BY <1>1 DEF CursorsLag, OwedIsAhead
<1> QED
  BY <1>1, <1>2, <1>3 DEF ReadInvariant

LEMMA StartReads ==
  ASSUME ReadInvariant, NEW m \in {"full", "incremental"}, Start(m)
  PROVE  ReadInvariant'
<1>1. /\ index' = index /\ beyond' = beyond /\ saved' = saved
      /\ phase' = "paging" /\ mode' = m /\ refs' = <<>>
      /\ resume' = Restored.cursor /\ sweeping' = Restored.sweeping /\ page' = Restored.cursor
      /\ owed' = CASE m = "incremental" -> {}
                   [] m = "full" /\ ~ Restored.sweeping -> Listed
                   [] OTHER -> owed
  BY DEF Start, portalVars
<1>2. /\ index' \in Seq(Documents) /\ refs' \in Seq(Documents)
      /\ page' \in Nat /\ resume' \in Nat /\ saved'.cursor \in Nat
  BY <1>1, EmptySeq DEF ReadInvariant, Restored
<1>3. ASSUME beyond = "nothing"
      PROVE  CursorsLag' /\ OwedIsAhead'
  <2>1. ~ Restored.sweeping => Restored.cursor = 0
    BY <1>3 DEF ReadInvariant, CursorsLag, Restored
  <2>2. \A d \in owed' : Restored.sweeping => Lies(d, Restored.cursor)
    BY <1>1, <1>3 DEF ReadInvariant, CursorsLag, Restored
  <2>3. \A d \in owed' : Lies(d, Restored.cursor)
    <3> SUFFICES ASSUME NEW d \in owed', ~ Restored.sweeping
                 PROVE  Lies(d, Restored.cursor)
      BY <2>2
    <3>1. d \in owed \/ d \in Listed
      BY <1>1
    <3>2. CASE d \in Listed
      <4>1. PICK i \in 1 .. Len(index) : index[i] = d
        BY <3>2, ElementsAre DEF ReadInvariant, Listed
      <4>2. 0 * PageSize = 0
        BY ConstantsAreNumbers
      <4> QED
        BY <2>1, <4>1, <4>2 DEF Lies
    <3>3. CASE m = "full"
      BY <1>1, <3>2, <3>3
    <3> QED
      BY <1>1, <3>3
  <2>4. m = "incremental" => owed' = {}
    BY <1>1
  <2>5. \A d, n : Lies(d, n)' <=> \E i \in 1 .. Len(index) : i > n * PageSize /\ index[i] = d
    BY <1>1 DEF Lies
  <2>6. \A d \in owed' : \E i \in 1 .. Len(index) : i > Restored.cursor * PageSize /\ index[i] = d
    BY <2>3 DEF Lies
  <2>7. saved.exists /\ saved.sweeping => Restored.cursor = saved.cursor
    BY DEF Restored
  <2>8. CursorsLag'
    BY <1>1, <1>3, <2>1, <2>6, <2>7 DEF CursorsLag, Lies, ReadInvariant
  <2>9. OwedIsAhead'
    BY <1>1, <2>4, <2>6 DEF OwedIsAhead, Lies
  <2> QED
    BY <2>8, <2>9
<1> QED
  BY <1>1, <1>2, <1>3 DEF ReadInvariant

LEMMA ReadingReads ==
  ASSUME ReadInvariant, ReadPage
  PROVE  ReadInvariant'
<1>1. /\ index' = index /\ beyond' = beyond /\ saved' = saved /\ owed' = owed /\ mode' = mode
      /\ page' = page /\ phase = "paging" /\ phase' = "parsed" /\ refs' = PageAt(page)
      /\ resume' = page /\ sweeping' = TRUE /\ more' = HasNextPage(page)
  BY DEF ReadPage, portalVars, archiveVars
<1>2. /\ index \in Seq(Documents) /\ page \in Nat /\ page + 1 \in Nat
      /\ PageAt(page) \in Seq(Documents) /\ Len(index) \in Nat
  <2>1. index \in Seq(Documents) /\ page \in Nat
    BY DEF ReadInvariant
  <2> QED
    BY <2>1, PagesShow
<1>3. ASSUME beyond = "nothing"
      PROVE  CursorsLag' /\ OwedIsAhead'
  <2>1. \A d \in owed : Lies(d, page)
    BY <1>1, <1>3 DEF ReadInvariant, OwedIsAhead
  <2>2. CursorsLag'
    BY <1>1, <1>3, <2>1 DEF ReadInvariant, CursorsLag, Lies
  <2>3. page * PageSize \in Nat /\ (page + 1) * PageSize \in Nat
    BY <1>2, ConstantsAreNumbers, ProductsGrow
  <2>4. ASSUME NEW d \in owed
        PROVE  /\ PageAt(page) # <<>>
               /\ d \in ToSet(PageAt(page)) \/ (HasNextPage(page) /\ Lies(d, page + 1))
    <3>1. PICK i \in 1 .. Len(index) : i > page * PageSize /\ index[i] = d
      BY <2>1, <2>4 DEF Lies
    <3>2. PageAt(page) # <<>>
      BY <1>2, <2>3, <3>1, PagesShow
    <3>3. CASE i <= (page + 1) * PageSize
      BY <1>2, <3>1, <3>2, <3>3, PagesShow
    <3>4. CASE ~ (i <= (page + 1) * PageSize)
      <4>1. i > (page + 1) * PageSize
        BY <2>3, <3>4
      <4>2. page + 1 < PageCount
        BY <1>2, <2>3, <4>1, PagesOfIndex
      <4> QED
        BY <3>1, <3>2, <4>1, <4>2 DEF Lies, HasNextPage
    <3> QED
      BY <3>3, <3>4
  <2>5. mode = "incremental" => owed = {}
    BY <1>3 DEF ReadInvariant, OwedIsAhead
  <2>6. OwedIsAhead'
    BY <1>1, <2>4, <2>5 DEF OwedIsAhead, Lies
  <2> QED
    BY <2>2, <2>6
<1> QED
  BY <1>1, <1>2, <1>3 DEF ReadInvariant

(* A run that ends, by itself or not. *)
LEMMA CompletingReads ==
  ASSUME ReadInvariant, SweepCompleted, UNCHANGED portalVars
  PROVE  ReadInvariant'
<1>1. /\ index' = index /\ beyond' = beyond /\ phase' = "idle" /\ refs' = <<>> /\ page' = 0
      /\ resume' = 0 /\ sweeping' = FALSE /\ owed' = {}
      /\ saved' = [cursor |-> 0, sweeping |-> FALSE, high |-> high', exists |-> TRUE]
  BY DEF SweepCompleted, Checkpoint, Forget, portalVars
<1>2. /\ index' \in Seq(Documents) /\ refs' \in Seq(Documents)
      /\ saved'.cursor = 0 /\ saved'.sweeping = FALSE /\ saved'.exists = TRUE
  BY <1>1, EmptySeq DEF ReadInvariant
<1>3. CursorsLag' /\ OwedIsAhead'
  BY <1>1, <1>2 DEF CursorsLag, OwedIsAhead
<1> QED
  BY <1>1, <1>2, <1>3 DEF ReadInvariant

LEMMA InterruptingReads ==
  ASSUME ReadInvariant, phase # "idle", Interrupted, UNCHANGED portalVars
  PROVE  ReadInvariant'
<1>1. /\ index' = index /\ beyond' = beyond /\ phase' = "idle" /\ refs' = <<>> /\ page' = 0
      /\ resume' = resume /\ sweeping' = sweeping /\ owed' = owed /\ mode' = mode
      /\ saved' = [cursor |-> IF sweeping THEN resume ELSE 0, sweeping |-> sweeping,
                   high |-> high', exists |-> TRUE]
  BY DEF Interrupted, Checkpoint, Forget, portalVars
<1> QED
  BY <1>1, EmptySeq DEF ReadInvariant, CursorsLag, OwedIsAhead, Lies

LEMMA FailingReads ==
  ASSUME ReadInvariant, Fail \/ Restart
  PROVE  ReadInvariant'
<1>1. /\ index' = index /\ beyond' = beyond /\ phase' = "idle" /\ refs' = <<>> /\ page' = 0
      /\ owed' = owed /\ mode' = mode /\ saved' = saved
      /\ \/ phase # "idle" /\ resume' = resume /\ sweeping' = sweeping
         \/ resume' = 0 /\ sweeping' = FALSE
  BY DEF Fail, Restart, Forget, portalVars, pluginVars, archiveVars
<1>2. /\ index' \in Seq(Documents) /\ refs' \in Seq(Documents)
      /\ resume' \in Nat /\ saved'.cursor \in Nat
  BY <1>1, EmptySeq DEF ReadInvariant
<1>3. ASSUME beyond = "nothing"
      PROVE  CursorsLag' /\ OwedIsAhead'
  <2>1. CursorsLag /\ OwedIsAhead
    BY <1>3 DEF ReadInvariant
  <2>2. OwedIsAhead'
    BY <1>1, <2>1 DEF OwedIsAhead
  <2>3. CASE phase # "idle" /\ resume' = resume /\ sweeping' = sweeping
    BY <1>1, <2>1, <2>2, <2>3 DEF CursorsLag, Lies
  <2>4. CASE resume' = 0 /\ sweeping' = FALSE
    BY <1>1, <2>1, <2>2, <2>4 DEF CursorsLag, Lies
  <2> QED
    BY <1>1, <2>3, <2>4
<1> QED
  BY <1>1, <1>2, <1>3 DEF ReadInvariant

(* A page that is gone through. *)
LEMMA GoingOnReads ==
  ASSUME ReadInvariant, Accept \/ Yield \/ NextPage
  PROVE  ReadInvariant'
<1>1. /\ index' = index /\ beyond' = beyond /\ saved' = saved /\ mode' = mode
      /\ resume' = resume /\ sweeping' = sweeping /\ more' = more
      /\ phase # "idle" /\ phase' # "idle" /\ phase' # "parsed"
  BY DEF Accept, Yield, NextPage, Ready, portalVars, pluginVars, archiveVars
<1>2. index \in Seq(Documents) /\ refs \in Seq(Documents) /\ page \in Nat
  BY DEF ReadInvariant
<1>3. CASE Accept
  <2>1. phase = "parsed" /\ phase' = "emitting" /\ page' = page /\ refs' = refs /\ owed' = owed
    BY <1>3 DEF Accept, Ready, archiveVars
  <2>2. beyond = "nothing" => CursorsLag' /\ OwedIsAhead'
    BY <1>1, <2>1 DEF ReadInvariant, CursorsLag, OwedIsAhead, Lies
  <2> QED
    BY <1>1, <2>1, <2>2 DEF ReadInvariant
<1>4. CASE Yield
  <2>1. /\ phase = "emitting" /\ phase' = "emitting" /\ page' = page /\ refs # <<>>
        /\ refs' = Tail(refs) /\ owed' = owed \ {Head(refs)}
    BY <1>4 DEF Yield
  <2>2. refs' \in Seq(Documents) /\ ToSet(refs) \ {Head(refs)} \subseteq ToSet(refs')
    <3>1. /\ Tail(refs) \in Seq(Documents) /\ Len(Tail(refs)) = Len(refs) - 1
          /\ \A i \in 1 .. Len(Tail(refs)) : Tail(refs)[i] = refs[i + 1]
          /\ Head(refs) = refs[1] /\ Len(refs) \in Nat
      BY <1>2, <2>1, HeadTailProperties
    <3>2. ASSUME NEW i \in 1 .. Len(refs), refs[i] # Head(refs)
          PROVE  refs[i] \in {Tail(refs)[j] : j \in 1 .. Len(Tail(refs))}
      <4>1. i - 1 \in 1 .. Len(Tail(refs)) /\ Tail(refs)[i - 1] = refs[i]
        BY <3>1, <3>2
      <4> QED
        BY <4>1
    <3>3. ToSet(Tail(refs)) = {Tail(refs)[j] : j \in 1 .. Len(Tail(refs))}
      BY <3>1, ElementsAre
    <3>4. ToSet(refs) = {refs[j] : j \in 1 .. Len(refs)}
      BY <1>2, ElementsAre
    <3> QED
      BY <2>1, <3>1, <3>2, <3>3, <3>4
  <2>3. ASSUME beyond = "nothing"
        PROVE  CursorsLag' /\ OwedIsAhead'
    <3>1. CursorsLag /\ OwedIsAhead
      BY <2>3 DEF ReadInvariant
    <3>2. CursorsLag'
      BY <1>1, <2>1, <3>1 DEF CursorsLag, Lies
    <3>3. \A d \in owed' : d \in ToSet(refs') \/ (more /\ Lies(d, page + 1))
      BY <2>1, <2>2, <3>1 DEF OwedIsAhead
    <3>4. OwedIsAhead'
      BY <1>1, <2>1, <3>1, <3>3 DEF OwedIsAhead, Lies
    <3> QED
      BY <3>2, <3>4
  <2> QED
    BY <1>1, <2>1, <2>2, <2>3 DEF ReadInvariant
<1>5. CASE NextPage
  <2>1. /\ phase = "emitting" /\ phase' = "paging" /\ page' = page + 1 /\ refs = <<>>
        /\ refs' = refs /\ owed' = owed
    BY <1>5 DEF NextPage, archiveVars
  <2>2. ToSet(refs) = {}
    BY <2>1, NothingInEmpty
  <2>3. ASSUME beyond = "nothing"
        PROVE  CursorsLag' /\ OwedIsAhead'
    <3>1. CursorsLag /\ OwedIsAhead
      BY <2>3 DEF ReadInvariant
    <3>2. CursorsLag'
      BY <1>1, <2>1, <3>1 DEF CursorsLag, Lies
    <3>3. \A d \in owed : Lies(d, page + 1)
      BY <2>1, <2>2, <3>1 DEF OwedIsAhead
    <3>4. OwedIsAhead'
      BY <1>1, <2>1, <3>1, <3>3 DEF OwedIsAhead, Lies
    <3> QED
      BY <3>2, <3>4
  <2> QED
    BY <1>1, <1>2, <2>1, <2>3 DEF ReadInvariant
<1> QED
  BY <1>3, <1>4, <1>5

(* A publication moves what is owed further away; a removal forgives it. *)
LEMMA PortalReads ==
  ASSUME ReadInvariant, Publish \/ \E i \in DOMAIN index : Withdraw(i)
  PROVE  ReadInvariant'
<1>1. /\ beyond' = beyond /\ saved' = saved /\ mode' = mode /\ phase' = phase /\ page' = page
      /\ resume' = resume /\ sweeping' = sweeping /\ more' = more /\ refs' = refs
  BY DEF Publish, Withdraw, pluginVars, archiveVars
<1>2. index \in Seq(Documents) /\ Len(index) \in Nat
  BY DEF ReadInvariant
<1>3. CASE Publish
  <2>1. PICK d \in Documents : index' = <<d>> \o index /\ owed' = owed
    BY <1>3 DEF Publish, archiveVars
  <2>2. /\ index' \in Seq(Documents) /\ Len(index') = Len(index) + 1
        /\ \A i \in 1 .. Len(index) : i + 1 \in 1 .. Len(index') /\ index'[i + 1] = index[i]
    <3>1. <<d>> \in Seq(Documents) /\ Len(<<d>>) = 1
      OBVIOUS
    <3> QED
      BY <1>2, <2>1, <3>1, ConcatProperties
  <2>3. ASSUME NEW e, NEW n \in Nat, Lies(e, n)
        PROVE  \E i \in 1 .. Len(index') : i > n * PageSize /\ index'[i] = e
    <3>1. PICK i \in 1 .. Len(index) : i > n * PageSize /\ index[i] = e
      BY <2>3 DEF Lies
    <3>2. i + 1 > n * PageSize
      <4>1. n * PageSize \in Nat
        BY ConstantsAreNumbers, ProductsGrow
      <4> QED
        BY <3>1, <4>1
    <3> QED
      BY <2>2, <3>1, <3>2
  <2>4. ASSUME beyond = "nothing"
        PROVE  CursorsLag' /\ OwedIsAhead'
    <3>1. CursorsLag /\ OwedIsAhead
      BY <2>4 DEF ReadInvariant
    <3>2. page \in Nat /\ page + 1 \in Nat /\ resume \in Nat /\ saved.cursor \in Nat
      BY DEF ReadInvariant
    <3>3. CursorsLag'
      <4>1. sweeping /\ (phase # "idle" \/ ~ saved.exists) =>
              \A e \in owed : \E i \in 1 .. Len(index') : i > resume * PageSize /\ index'[i] = e
        BY <2>3, <3>1, <3>2 DEF CursorsLag
      <4>2. saved.exists /\ saved.sweeping =>
              \A e \in owed :
                 \E i \in 1 .. Len(index') : i > saved.cursor * PageSize /\ index'[i] = e
        BY <2>3, <3>1, <3>2 DEF CursorsLag
      <4> QED
        BY <1>1, <2>1, <3>1, <4>1, <4>2 DEF CursorsLag, Lies
    <3>4. OwedIsAhead'
      <4>1. phase = "paging" =>
              \A e \in owed : \E i \in 1 .. Len(index') : i > page * PageSize /\ index'[i] = e
        BY <2>3, <3>1, <3>2 DEF OwedIsAhead
      <4>2. phase \in {"parsed", "emitting"} =>
              \A e \in owed : \/ e \in ToSet(refs)
                              \/ /\ more
                                 /\ \E i \in 1 .. Len(index') :
                                      i > (page + 1) * PageSize /\ index'[i] = e
        BY <2>3, <3>1, <3>2 DEF OwedIsAhead
      <4> QED
        BY <1>1, <2>1, <3>1, <4>1, <4>2 DEF OwedIsAhead, Lies
    <3> QED
      BY <3>3, <3>4
  <2> QED
    BY <1>1, <2>2, <2>4 DEF ReadInvariant
<1>4. CASE \E i \in DOMAIN index : Withdraw(i)
  <2>1. PICK i \in DOMAIN index : index' = RemoveAt(index, i)
    BY <1>4 DEF Withdraw
  <2>2. index' \in Seq(Documents)
    BY <1>2, <2>1, RemovingKeepsType
  <2>3. owed' = {}
    BY <1>4 DEF Withdraw
  <2>4. beyond = "nothing" => CursorsLag' /\ OwedIsAhead'
    BY <1>1, <2>3 DEF ReadInvariant, CursorsLag, OwedIsAhead
  <2> QED
    BY <1>1, <2>2, <2>4 DEF ReadInvariant
<1> QED
  BY <1>3, <1>4

THEOREM ReadIsInvariant == PaginationSpec => []ReadInvariant
<1>1. ReadInvariant /\ [PaginationNext]_pageVars => ReadInvariant'
  <2> SUFFICES ASSUME ReadInvariant, [PaginationNext]_pageVars
               PROVE  ReadInvariant'
    OBVIOUS
  <2>1. CASE \E m \in {"full", "incremental"} : Start(m)
    BY <2>1, StartReads
  <2>2. CASE ReadPage
    BY <2>2, ReadingReads
  <2>3. CASE EmptyPages \/ StopAtPage \/ StalePages \/ LastPage
    BY <2>3, CompletingReads DEF EmptyPages, StopAtPage, StalePages, LastPage
  <2>4. CASE SamePage \/ LeaveAtRead \/ LeaveAtYield \/ PageLimit
    BY <2>4, InterruptingReads DEF SamePage, LeaveAtRead, LeaveAtYield, PageLimit
  <2>5. CASE Accept \/ Yield \/ NextPage
    BY <2>5, GoingOnReads
  <2>6. CASE Fail \/ Restart
    BY <2>6, FailingReads
  <2>7. CASE Publish \/ \E i \in DOMAIN index : Withdraw(i)
    BY <2>7, PortalReads
  <2>8. CASE UNCHANGED pageVars
    BY <2>8 DEF pageVars, portalVars, runVars, pluginVars, archiveVars,
                ReadInvariant, CursorsLag, OwedIsAhead, Lies
  <2> QED
    BY <2>1, <2>2, <2>3, <2>4, <2>5, <2>6, <2>7, <2>8 DEF PaginationNext, RunStep
<1> QED
  BY InitialRead, <1>1, PTL DEF PaginationSpec

(* Whatever the portal lists, with or without repetitions, and however many runs
   a sweep takes, being interrupted, failing, or restarting half-way, the one
   that comes to the end of the index leaves nothing of what it owed unread. *)
THEOREM SweepsReadAll == PaginationSpec => SweepReadsAll
<1>1. ReadInvariant /\ [PaginationNext]_pageVars =>
        [phase # "idle" /\ mode = "full" /\ beyond = "nothing" /\ SweepCompleted /\ ~ StalePages
           => owed = {}]_pageVars
  <2> SUFFICES ASSUME ReadInvariant, [PaginationNext]_pageVars, phase # "idle", mode = "full",
                      beyond = "nothing", SweepCompleted, ~ StalePages
               PROVE  owed = {}
    OBVIOUS
  <2>1. phase' = "idle" /\ owed' = {}
    BY DEF SweepCompleted, Forget
  <2>2. OwedIsAhead /\ refs \in Seq(Documents)
    BY DEF ReadInvariant
  <2>3. CASE EmptyPages
    BY <2>2, <2>3 DEF EmptyPages, OwedIsAhead
  <2>4. CASE StopAtPage
    BY <2>4 DEF StopAtPage, OldPage
  <2>5. CASE LastPage
    <3>1. refs = <<>> /\ ~ more /\ phase = "emitting"
      BY <2>5 DEF LastPage, HasNext
    <3>2. ToSet(refs) = {}
      BY <3>1, NothingInEmpty
    <3> QED
      BY <2>2, <3>1, <3>2 DEF OwedIsAhead
  <2>6. CASE SamePage \/ LeaveAtRead \/ LeaveAtYield \/ PageLimit \/ Fail \/ Restart
    <3>1. owed' = owed
      BY <2>6 DEF SamePage, LeaveAtRead, LeaveAtYield, PageLimit, Fail, Restart, Interrupted,
                  archiveVars
    <3> QED
      BY <2>1, <3>1
  <2>7. ~ ((\E m \in {"full", "incremental"} : Start(m)) \/ ReadPage \/ Accept \/ Yield \/ NextPage)
    BY <2>1 DEF Start, ReadPage, Accept, Yield, NextPage
  <2>8. ~ (Publish \/ \E i \in DOMAIN index : Withdraw(i)) /\ ~ UNCHANGED pageVars
    BY <2>1 DEF Publish, Withdraw, pageVars, runVars
  <2> QED
    BY <2>3, <2>4, <2>5, <2>6, <2>7, <2>8 DEF PaginationNext, RunStep
<1> QED
  BY ReadIsInvariant, <1>1, PTL DEF PaginationSpec, SweepReadsAll

-----------------------------------------------------------------------------
(* A run leaves an endless portal. *)

LEMMA InitialVain == PaginationInit => VainInvariant
<1> SUFFICES ASSUME PaginationInit
             PROVE  VainInvariant
  OBVIOUS
<1>1. index = Listing /\ phase = "idle" /\ page = 0 /\ vain = 0 /\ empty = 0 /\ stale = 0
  BY DEF PaginationInit
<1>2. index \in Seq(Documents)
  BY <1>1, ListingAssumption DEF Documents
<1> QED
  BY <1>1, <1>2, ConstantsAreNumbers DEF VainInvariant, PagesInVain

(* A run begins, or ends in whatever way. *)
LEMMA RunBeginsOrEnds ==
  ASSUME VainInvariant, index' = index, phase' \in {"idle", "paging"}, page' \in Nat,
         vain' = 0, empty' = 0, stale' = 0
  PROVE  VainInvariant'
BY ConstantsAreNumbers DEF VainInvariant, PagesInVain

(* The page just read counts, and those that follow an empty one are empty. *)
LEMMA ReadingInVain ==
  ASSUME VainInvariant, ReadPage
  PROVE  VainInvariant'
<1>1. /\ index' = index /\ beyond' = beyond /\ page' = page
      /\ phase = "paging" /\ phase' = "parsed"
      /\ refs' = PageAt(page) /\ novel' = FALSE /\ vain' = vain + 1
      /\ empty' = empty /\ stale' = stale
  BY DEF ReadPage, portalVars
<1>2. /\ vain \in Nat /\ empty \in 0 .. EmptyLimit - 1 /\ stale \in 0 .. StaleLimit - 1
      /\ EmptyLimit \in Nat /\ StaleLimit \in Nat \ {0}
  BY ConstantsAreNumbers DEF VainInvariant
<1>3. PageAt(page)' = PageAt(page)
  BY <1>1 DEF PageAt, PageOfIndex, PageCount
<1>4. IF empty = 0 THEN vain <= stale
      ELSE vain < StaleLimit + empty /\ (vain > 0 => PageAt(page) = <<>>)
  BY <1>1 DEF VainInvariant, PagesInVain
<1>5. IF PageAt(page) # <<>> THEN vain + 1 <= stale + 1
      ELSE vain + 1 <= StaleLimit + empty
  BY <1>2, <1>4
<1>6. PagesInVain'
  BY <1>1, <1>3, <1>5 DEF PagesInVain
<1> QED
  BY <1>1, <1>2, <1>6 DEF VainInvariant

LEMMA AcceptingInVain ==
  ASSUME VainInvariant, Accept
  PROVE  VainInvariant'
<1>1. /\ index' = index /\ beyond' = beyond /\ page' = page
      /\ phase = "parsed" /\ phase' = "emitting"
      /\ refs' = refs /\ previous' = refs /\ novel' = novel /\ vain' = vain /\ stale' = stale
      /\ empty' = IF refs = <<>> THEN empty + 1 ELSE 0
      /\ refs = <<>> => empty + 1 < EmptyLimit
  BY DEF Accept, Ready, portalVars
<1>2. /\ vain \in Nat /\ empty \in 0 .. EmptyLimit - 1 /\ stale \in 0 .. StaleLimit - 1
      /\ EmptyLimit \in Nat \ {0} /\ StaleLimit \in Nat \ {0}
  BY ConstantsAreNumbers DEF VainInvariant
<1>3. PageAt(page)' = PageAt(page)
  BY <1>1 DEF PageAt, PageOfIndex, PageCount
<1>4. /\ ~ novel
      /\ IF refs # <<>> THEN vain <= stale + 1
         ELSE vain <= StaleLimit + empty /\ (vain > 0 => PageAt(page) = <<>>)
  BY <1>1 DEF VainInvariant, PagesInVain
<1>5. empty' \in 0 .. EmptyLimit - 1
  BY <1>1, <1>2
<1>6. PagesInVain'
  <2>1. CASE refs # <<>>
    BY <1>1, <1>4, <2>1 DEF PagesInVain
  <2>2. CASE refs = <<>>
    BY <1>1, <1>2, <1>3, <1>4, <2>2 DEF PagesInVain
  <2> QED
    BY <2>1, <2>2
<1> QED
  BY <1>1, <1>2, <1>5, <1>6 DEF VainInvariant

LEMMA YieldingInVain ==
  ASSUME VainInvariant, Yield
  PROVE  VainInvariant'
<1>1. /\ index' = index /\ beyond' = beyond /\ page' = page
      /\ phase = "emitting" /\ phase' = "emitting"
      /\ refs # <<>> /\ previous' = previous /\ stale' = stale /\ empty' = empty
      /\ IF Head(refs) \in seen THEN vain' = vain /\ (novel' <=> novel) ELSE vain' = 0
  BY DEF Yield, portalVars
<1>2. previous # <<>> /\ empty = 0 /\ vain <= stale + 1 /\ (novel => vain = 0)
  BY <1>1 DEF VainInvariant, PagesInVain
<1>3. vain \in Nat /\ stale \in Nat
  BY ConstantsAreNumbers DEF VainInvariant
<1>4. vain' \in Nat /\ vain' <= stale + 1 /\ (novel' => vain' = 0)
  BY <1>1, <1>2, <1>3
<1>5. PagesInVain'
  BY <1>1, <1>2, <1>4 DEF PagesInVain
<1> QED
  BY <1>1, <1>4, <1>5 DEF VainInvariant

LEMMA TurningInVain ==
  ASSUME VainInvariant, NextPage
  PROVE  VainInvariant'
<1>1. /\ index' = index /\ beyond' = beyond /\ page' = page + 1
      /\ phase = "emitting" /\ phase' = "paging"
      /\ vain' = vain /\ empty' = empty
      /\ stale' = IF Stale THEN stale + 1 ELSE 0
      /\ Stale => stale + 1 < StaleLimit
  BY ConstantsAreNumbers DEF NextPage, NextStale, TooStale, portalVars, VainInvariant
<1>2. /\ vain \in Nat /\ empty \in 0 .. EmptyLimit - 1 /\ stale \in 0 .. StaleLimit - 1
      /\ EmptyLimit \in Nat \ {0} /\ StaleLimit \in Nat \ {0} /\ page \in Nat
      /\ index \in Seq(Documents)
  BY ConstantsAreNumbers DEF VainInvariant
<1>3. IF previous # <<>> THEN empty = 0 /\ vain <= stale + 1 /\ (novel => vain = 0)
      ELSE empty > 0 /\ vain < StaleLimit + empty /\ (vain > 0 => PageAt(page) = <<>>)
  BY <1>1 DEF VainInvariant, PagesInVain
<1>4. stale' \in 0 .. StaleLimit - 1
  BY <1>1, <1>2
<1>5. PageAt(page)' = PageAt(page + 1)
  BY <1>1 DEF PageAt, PageOfIndex, PageCount
<1>6. PagesInVain'
  <2>1. CASE previous # <<>>
    <3>1. vain <= stale'
      BY <1>1, <1>2, <1>3, <2>1 DEF Stale
    <3> QED
      BY <1>1, <1>3, <2>1, <3>1 DEF PagesInVain
  <2>2. CASE previous = <<>>
    <3>1. vain > 0 => PageAt(page + 1) = <<>>
      BY <1>2, <1>3, <2>2, PagesShow
    <3> QED
      BY <1>1, <1>2, <1>3, <1>5, <2>2, <3>1 DEF PagesInVain
  <2> QED
    BY <2>1, <2>2
<1> QED
  BY <1>1, <1>2, <1>4, <1>6 DEF VainInvariant

(* When the portal changes, the count starts again. *)
LEMMA PortalInVain ==
  ASSUME VainInvariant, Publish \/ \E i \in DOMAIN index : Withdraw(i)
  PROVE  VainInvariant'
<1>1. /\ phase' = phase /\ page' = page /\ refs' = refs /\ previous' = previous /\ novel' = novel
      /\ empty' = empty /\ stale' = stale /\ vain' = 0
  BY DEF Publish, Withdraw
<1>2. /\ vain \in Nat /\ empty \in Nat /\ stale \in Nat /\ StaleLimit \in Nat \ {0}
      /\ index \in Seq(Documents)
  BY ConstantsAreNumbers DEF VainInvariant
<1>3. index' \in Seq(Documents)
  <2>1. CASE Publish
    <3>1. PICK d \in Documents : index' = <<d>> \o index
      BY <2>1 DEF Publish
    <3>2. <<d>> \in Seq(Documents)
      OBVIOUS
    <3> QED
      BY <1>2, <3>1, <3>2, ConcatProperties
  <2>2. CASE \E i \in DOMAIN index : Withdraw(i)
    BY <1>2, <2>2, RemovingKeepsType DEF Withdraw
  <2> QED
    BY <2>1, <2>2
<1>4. PagesInVain'
  BY <1>1, <1>2 DEF VainInvariant, PagesInVain
<1> QED
  BY <1>1, <1>2, <1>3, <1>4 DEF VainInvariant

(* However the portal goes on past its end, whatever it repeats, and whatever the
   limits are: between two changes of the portal, a run reads less pages in a row
   without anything new than both limits together. *)
THEOREM EndlessPortalsAreLeft == PaginationSpec => []EndlessPortalIsLeft
<1>1. VainInvariant /\ ReadInvariant /\ [PaginationNext]_pageVars => VainInvariant'
  <2> SUFFICES ASSUME VainInvariant, ReadInvariant, [PaginationNext]_pageVars
               PROVE  VainInvariant'
    OBVIOUS
  <2>1. CASE \E m \in {"full", "incremental"} : Start(m)
    <3>1. Restored.cursor \in Nat
      BY DEF ReadInvariant, Restored
    <3> QED
      BY <2>1, <3>1, RunBeginsOrEnds DEF Start, portalVars
  <2>2. CASE ReadPage
    BY <2>2, ReadingInVain
  <2>3. CASE EmptyPages \/ StopAtPage \/ StalePages \/ LastPage
    BY <2>3, RunBeginsOrEnds
       DEF EmptyPages, StopAtPage, StalePages, LastPage, SweepCompleted, Forget, portalVars
  <2>4. CASE SamePage \/ LeaveAtRead \/ LeaveAtYield \/ PageLimit
    BY <2>4, RunBeginsOrEnds
       DEF SamePage, LeaveAtRead, LeaveAtYield, PageLimit, Interrupted, Forget, portalVars
  <2>5. CASE Accept \/ Yield \/ NextPage
    BY <2>5, AcceptingInVain, YieldingInVain, TurningInVain
  <2>6. CASE Fail \/ Restart
    BY <2>6, RunBeginsOrEnds DEF Fail, Restart, Forget, portalVars
  <2>7. CASE Publish \/ \E i \in DOMAIN index : Withdraw(i)
    BY <2>7, PortalInVain
  <2>8. CASE UNCHANGED pageVars
    BY <2>8 DEF pageVars, portalVars, runVars, VainInvariant, PagesInVain, PageAt, PageOfIndex,
                PageCount
  <2> QED
    BY <2>1, <2>2, <2>3, <2>4, <2>5, <2>6, <2>7, <2>8 DEF PaginationNext, RunStep
<1>2. VainInvariant => EndlessPortalIsLeft
  BY ConstantsAreNumbers DEF VainInvariant, PagesInVain, EndlessPortalIsLeft
<1> QED
  BY InitialVain, ReadIsInvariant, <1>1, <1>2, PTL DEF PaginationSpec
=============================================================================
