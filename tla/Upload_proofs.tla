--------------------------- MODULE Upload_proofs ----------------------------
(***************************************************************************)
(* What the update server guarantees for any flash, any headers and blocks *)
(* a PC may send and any timeouts: what UploadInv says of the receiver and *)
(* the flash survives every callback, and with it the image arrives intact *)
(* in a slot the car does not run from, and the server is the update that  *)
(* the rest of the car counts on.                                          *)
(***************************************************************************)
EXTENDS Upload, FiniteSetTheorems, TLAPS

-----------------------------------------------------------------------------
(* Quotients and multiples. *)

\* What \div and % are.
LEMMA DivMod ==
  ASSUME NEW a \in Int, NEW d \in Nat \ {0}
  PROVE  a \div d \in Int /\ a % d \in 0 .. d - 1 /\ a = d * (a \div d) + (a % d)
OBVIOUS

\* A quotient and a remainder that fit are the quotient and the remainder.
LEMMA DivModUnique ==
  ASSUME NEW a \in Int, NEW d \in Nat \ {0}, NEW k \in Int, NEW r \in 0 .. d - 1,
         a = d * k + r
  PROVE  a \div d = k /\ a % d = r
<1> DEFINE q == a \div d
           s == a % d
<1>1. q \in Int /\ s \in 0 .. d - 1 /\ a = d * q + s
  BY DivMod
<1> HIDE DEF q, s
<1>2. d * (k - q) = s - r
  BY <1>1
<1>3. ~(k - q >= 1)
  <2>1. SUFFICES ASSUME k - q >= 1 PROVE FALSE
    OBVIOUS
  <2>2. d * (k - q) >= d
    BY <1>1, <2>1
  <2> QED BY <1>1, <1>2, <2>2
<1>4. ~(k - q <= -1)
  <2>1. SUFFICES ASSUME k - q <= -1 PROVE FALSE
    OBVIOUS
  <2>2. d * (k - q) <= -d
    BY <1>1, <2>1
  <2> QED BY <1>1, <1>2, <2>2
<1>5. k = q
  BY <1>1, <1>3, <1>4
<1> QED BY <1>1, <1>5 DEF q, s

\* What is below d already is its own remainder.
LEMMA SmallMod ==
  ASSUME NEW d \in Nat \ {0}, NEW a \in 0 .. d - 1
  PROVE  a % d = a
BY DivModUnique, a = d * 0 + a

\* The multiples of d.
LEMMA Multiple ==
  ASSUME NEW a \in Int, NEW d \in Nat \ {0}
  PROVE  /\ a % d = 0 => a = d * (a \div d)
         /\ \A k \in Int : a = d * k => a % d = 0 /\ a \div d = k
<1>1. a % d = 0 => a = d * (a \div d)
  BY DivMod
<1>2. ASSUME NEW k \in Int, a = d * k PROVE a % d = 0 /\ a \div d = k
  BY <1>2, DivModUnique, a = d * k + 0, 0 \in 0 .. d - 1
<1> QED BY <1>1, <1>2

\* They are closed under sum and difference.
LEMMA MultipleSum ==
  ASSUME NEW a \in Int, NEW b \in Int, NEW d \in Nat \ {0}, a % d = 0, b % d = 0
  PROVE  (a + b) % d = 0 /\ (a - b) % d = 0
<1> DEFINE i == a \div d
           j == b \div d
<1>1. i \in Int /\ j \in Int /\ a = d * i /\ b = d * j
  BY DivMod, Multiple
<1> HIDE DEF i, j
<1>2. a + b = d * (i + j) /\ a - b = d * (i - j)
  BY <1>1
<1> QED BY <1>1, <1>2, Multiple

\* The next multiple.
LEMMA MultipleNext ==
  ASSUME NEW a \in Int, NEW d \in Nat \ {0}, a % d = 0
  PROVE  (a + d) % d = 0
<1>1. d % d = 0
  BY Multiple, d = d * 1
<1>2. d \in Int
  OBVIOUS
<1> QED BY <1>1, <1>2, MultipleSum

\* Two of them are d apart at least.
LEMMA MultipleGap ==
  ASSUME NEW a \in Int, NEW b \in Int, NEW d \in Nat \ {0}, a % d = 0, b % d = 0, a < b
  PROVE  a + d <= b
<1> DEFINE i == a \div d
           j == b \div d
<1>1. i \in Int /\ j \in Int /\ a = d * i /\ b = d * j
  BY DivMod, Multiple
<1> HIDE DEF i, j
<1>2. j - i >= 1
  <2>1. SUFFICES ASSUME j - i <= 0 PROVE FALSE
    BY <1>1
  <2>2. d * (j - i) <= 0
    BY <1>1, <2>1
  <2>3. d * (j - i) = b - a
    BY <1>1
  <2> QED BY <2>2, <2>3
<1>3. d * (j - i) >= d
  BY <1>1, <1>2
<1>4. d * (j - i) = b - a
  BY <1>1
<1> QED BY <1>3, <1>4

\* Whole sectors are whole pages.
LEMMA MultipleOfMultiple ==
  ASSUME NEW a \in Int, NEW d \in Nat \ {0}, NEW e \in Nat \ {0}, e % d = 0, a % e = 0
  PROVE  a % d = 0
<1> DEFINE i == a \div e
           j == e \div d
<1>1. i \in Int /\ j \in Int /\ a = e * i /\ e = d * j
  BY DivMod, Multiple
<1> HIDE DEF i, j
<1>2. a = d * (j * i)
  BY <1>1
<1> QED BY <1>1, <1>2, Multiple

-----------------------------------------------------------------------------
(* Sectors and pages. *)

\* What the code and the chip fix about them.
LEMMA Geometry ==
  /\ OTA_FLASH_PAGE \in Nat \ {0} /\ OTA_FLASH_SECTOR \in Nat \ {0}
  /\ OTA_FLASH_SECTOR % OTA_FLASH_PAGE = 0
  /\ OTA_XIP_BASE \in Nat /\ OTA_XIP_BASE % OTA_FLASH_PAGE = 0
  /\ WORD \in Nat \ {0} /\ OTA_XIP_BASE < WORD
BY OtaAssumption

\* The same as numbers.
LEMMA Numbers ==
  /\ OTA_FLASH_PAGE \in Nat \ {0} /\ OTA_FLASH_SECTOR \in Nat \ {0}
  /\ OTA_XIP_BASE \in Nat /\ WORD \in Nat \ {0} /\ OTA_XIP_BASE < WORD
BY Geometry

\* The sector of an offset contains it, and sectors do not overlap.
LEMMA SectorFacts ==
  ASSUME NEW o \in Nat
  PROVE  /\ SectorOf(o) \in Nat /\ SectorOf(o) % OTA_FLASH_SECTOR = 0
         /\ SectorOf(o) <= o /\ o < SectorOf(o) + OTA_FLASH_SECTOR
         /\ \A b \in Int : b % OTA_FLASH_SECTOR = 0 =>
              /\ b <= o => b <= SectorOf(o)
              /\ o < b => SectorOf(o) + OTA_FLASH_SECTOR <= b
<1> DEFINE S == OTA_FLASH_SECTOR
           q == o \div S
           s == SectorOf(o)
<1>1. S \in Nat \ {0}
  BY Geometry
<1>2. q \in Int /\ o % S \in 0 .. S - 1 /\ o = S * q + (o % S)
  BY <1>1, DivMod
<1>3. s = S * q /\ s \in Int
  BY <1>1, <1>2 DEF SectorOf
<1>4. s % S = 0
  BY <1>1, <1>2, <1>3, Multiple
<1>5. s <= o /\ o < s + S
  BY <1>1, <1>2, <1>3
<1>6. s >= 0
  <2>1. 0 % S = 0
    BY <1>1, SmallMod
  <2>2. s < 0 => s + S <= 0
    BY <1>1, <1>3, <1>4, <2>1, MultipleGap
  <2> QED BY <1>1, <1>3, <1>5, <2>2
<1>7. ASSUME NEW b \in Int, b % S = 0
      PROVE  (b <= o => b <= s) /\ (o < b => s + S <= b)
  <2> HIDE DEF s, S
  <2>1. s < b => s + S <= b
    BY <1>1, <1>3, <1>4, <1>7, MultipleGap
  <2> QED BY <1>1, <1>3, <1>5, <1>7, <2>1
<1> QED BY <1>3, <1>4, <1>5, <1>6, <1>7

-----------------------------------------------------------------------------
(* The receiver of ota_logic.c: it never leaves its slot, never goes back, and
   erases each sector before its first page is written. *)

\* The flash offset from which the next block may go.
NextOffset(r) == r.slot_start + r.next_addr - OTA_XIP_BASE

\* A slot of whole sectors, in reach of 32-bit addresses.
SlotOk(r) ==
  /\ r.slot_start % OTA_FLASH_SECTOR = 0 /\ r.slot_size % OTA_FLASH_SECTOR = 0
  /\ r.slot_size > 0
  /\ r.slot_start + r.slot_size < WORD
  /\ OTA_XIP_BASE + r.slot_size < WORD

\* What was written and what was erased ends in the slot, at a page and at a
\* sector, and nothing was written that was not erased.
RxInv(r) ==
  /\ r.num_blocks > 0 /\ r.next_block <= r.num_blocks
  /\ r.next_addr >= OTA_XIP_BASE /\ r.next_addr % OTA_FLASH_PAGE = 0
  /\ r.erased_end % OTA_FLASH_SECTOR = 0
  /\ NextOffset(r) <= r.erased_end
  /\ r.erased_end <= r.slot_start + r.slot_size

\* The fields of a receiver are words.
LEMMA RxFields ==
  ASSUME NEW r \in Rx
  PROVE  /\ r.slot_start \in 0 .. WORD - 1 /\ r.slot_size \in 0 .. WORD - 1
         /\ r.num_blocks \in 0 .. WORD - 1 /\ r.next_block \in 0 .. WORD - 1
         /\ r.next_addr \in 0 .. WORD - 1 /\ r.erased_end \in 0 .. WORD - 1
BY DEF Rx, Words

\* A header that is taken starts a receiver at the start of the slot.
LEMMA RxStart ==
  ASSUME NEW h \in Header, NEW start \in Words, NEW size \in Words,
         start % OTA_FLASH_SECTOR = 0
  PROVE  LET init == ota_rx_init(h, start, size)
         IN  /\ init.rx \in Rx
             /\ ota_header_parse(h) = "OTA_OK" /\ init.status = "OTA_OK" =>
                  /\ init.rx.slot_start = start /\ init.rx.slot_size = size
                  /\ init.rx.next_block = 0
                  /\ init.rx.num_blocks = h.num_blocks
                  /\ init.rx.erased_end = start /\ NextOffset(init.rx) = start
                  /\ RxInv(init.rx)
<1> DEFINE init == ota_rx_init(h, start, size)
<1>1. /\ 0 \in Words /\ OTA_XIP_BASE \in Words
  BY Geometry DEF Words
<1>2. RxZero \in Rx
  BY <1>1 DEF RxZero, Rx
<1>3. CASE h.num_blocks * OTA_FLASH_PAGE > size
  BY <1>2, <1>3 DEF ota_rx_init
<1>4. CASE ~(h.num_blocks * OTA_FLASH_PAGE > size)
  <2>1. init.rx = [slot_start |-> start, slot_size |-> size, family |-> h.family,
                   num_blocks |-> h.num_blocks, next_block |-> 0,
                   next_addr |-> OTA_XIP_BASE, erased_end |-> start]
    BY <1>4 DEF ota_rx_init, RxZero
  <2>2. h.family \in Families /\ h.num_blocks \in Words
    BY DEF Header
  <2>3. init.rx \in Rx
    BY <1>1, <2>1, <2>2 DEF Rx
  <2>4. ASSUME ota_header_parse(h) = "OTA_OK" PROVE RxInv(init.rx)
    <3>1. h.num_blocks # 0
      BY <2>4 DEF ota_header_parse
    <3>2. h.num_blocks \in Nat /\ start \in Nat /\ size \in Nat
      BY <2>2 DEF Words
    <3>3. start + OTA_XIP_BASE - OTA_XIP_BASE = start /\ start <= start + size
      BY <3>2, Numbers
    <3>4. OTA_XIP_BASE >= OTA_XIP_BASE /\ OTA_XIP_BASE % OTA_FLASH_PAGE = 0
      BY Geometry
    <3>5. h.num_blocks > 0 /\ 0 <= h.num_blocks /\ start <= start
      BY <3>1, <3>2
    <3> HIDE DEF init
    <3> QED BY <2>1, <3>3, <3>4, <3>5 DEF RxInv, NextOffset
  <2>5. NextOffset(init.rx) = start
    BY <2>1, Geometry DEF NextOffset, Words
  <2> HIDE DEF init
  <2> QED BY <2>1, <2>3, <2>4, <2>5 DEF init
<1> QED BY <1>3, <1>4

\* Where a good block goes: on a page of the slot, behind all that was
\* written, and nothing wraps.
LEMMA BlockPlace ==
  ASSUME NEW r \in Rx, SlotOk(r), RxInv(r), NEW block \in Block,
         BlockStatus(r, block) = "OTA_OK"
  PROVE  LET o == Offset(r, block.target)
         IN  /\ o = r.slot_start + block.target - OTA_XIP_BASE
             /\ o \in Nat /\ o % OTA_FLASH_PAGE = 0
             /\ r.slot_start <= o /\ NextOffset(r) <= o
             /\ o + OTA_FLASH_PAGE <= r.slot_start + r.slot_size
             /\ r.next_block < r.num_blocks
<1> DEFINE P == OTA_FLASH_PAGE
           S == OTA_FLASH_SECTOR
           B == OTA_XIP_BASE
           t == block.target
           u == r.slot_start + t - B
<1>1. /\ ~ota_rx_done(r) /\ TargetOk(r, t)
  BY DEF BlockStatus
<1>2. t \in 0 .. WORD - 1
  BY DEF Block, Words
<1>3. /\ t >= r.next_addr /\ t >= B /\ t % P = 0
      /\ (t - B) % WORD <= (r.slot_size - P) % WORD
  BY <1>1, <1>2, Geometry, RxFields DEF TargetOk, RxInv
<1>4. (t - B) % WORD = t - B
  BY <1>2, <1>3, Geometry, SmallMod
<1>5. P <= r.slot_size
  <2>1. r.slot_size % P = 0
    BY Geometry, RxFields, MultipleOfMultiple DEF SlotOk
  <2>2. 0 % P = 0
    BY Geometry, SmallMod
  <2> QED BY <2>1, <2>2, Geometry, RxFields, MultipleGap DEF SlotOk
<1>6. (r.slot_size - P) % WORD = r.slot_size - P
  <2>1. r.slot_size - P \in 0 .. WORD - 1
    BY <1>5, Geometry, RxFields
  <2> QED BY <2>1, Geometry, SmallMod
<1>7. t - B <= r.slot_size - P
  BY <1>3, <1>4, <1>6
<1>8. u \in 0 .. WORD - 1 /\ r.slot_start <= u /\ u + P <= r.slot_start + r.slot_size
  <2>1. /\ r.slot_start \in Nat /\ r.slot_size \in Nat /\ r.slot_start + r.slot_size < WORD
        /\ t \in Nat /\ t >= B
    BY <1>2, <1>3, Numbers, RxFields DEF SlotOk
  <2> HIDE DEF t
  <2> QED BY <1>7, <2>1, Numbers
<1>9. Offset(r, t) = u
  BY <1>8, Geometry, SmallMod DEF Offset
<1>10. u % P = 0
  <2>1. r.slot_start % P = 0
    BY Geometry, RxFields, MultipleOfMultiple DEF SlotOk
  <2>2. (r.slot_start + t) % P = 0 /\ r.slot_start + t \in Int
    BY <1>2, <1>3, <2>1, Numbers, RxFields, MultipleSum
  <2>3. B % P = 0 /\ B \in Int
    BY Geometry
  <2>4. P \in Nat \ {0}
    BY Numbers
  <2> DEFINE x == r.slot_start + t
  <2> HIDE DEF x, B, P
  <2>5. ASSUME x \in Int, x % P = 0 PROVE (x - B) % P = 0
    BY <2>3, <2>4, <2>5, MultipleSum
  <2>6. u = x - B
    BY <1>2, Numbers, RxFields DEF x, B
  <2> HIDE DEF u
  <2>7. x \in Int /\ x % P = 0
    BY <2>2 DEF x, P
  <2> QED BY <2>5, <2>6, <2>7
<1>11. NextOffset(r) <= u
  BY <1>2, <1>3, Geometry, RxFields DEF NextOffset
<1>12. r.next_block < r.num_blocks
  BY <1>1, RxFields DEF ota_rx_done, RxInv
<1> QED BY <1>8, <1>9, <1>10, <1>11, <1>12

\* A good block is counted, moves the receiver behind its page, and has its
\* sector erased if and only if that lies behind all erased ones.
LEMMA RxNext ==
  ASSUME NEW r \in Rx, SlotOk(r), RxInv(r), NEW block \in Block,
         BlockStatus(r, block) = "OTA_OK"
  PROVE  LET n == ota_rx_next(r, block)
             w == ota_write(r, block)
         IN  /\ n \in Rx /\ RxInv(n)
             /\ n.slot_start = r.slot_start /\ n.slot_size = r.slot_size
             /\ n.num_blocks = r.num_blocks
             /\ n.next_block = r.next_block + 1
             /\ NextOffset(n) = w.offset + OTA_FLASH_PAGE
             /\ w.erase <=> w.offset >= r.erased_end
             /\ w.erase_offset = SectorOf(w.offset)
             /\ w.erase => /\ r.erased_end <= w.erase_offset
                           /\ n.erased_end = w.erase_offset + OTA_FLASH_SECTOR
             /\ ~w.erase => n.erased_end = r.erased_end
<1> DEFINE P == OTA_FLASH_PAGE
           S == OTA_FLASH_SECTOR
           B == OTA_XIP_BASE
           t == block.target
           o == Offset(r, t)
           n == ota_rx_next(r, block)
           w == ota_write(r, block)
           end == r.slot_start + r.slot_size
<1>1. /\ o = r.slot_start + t - B /\ o \in Nat /\ o % P = 0
      /\ r.slot_start <= o /\ NextOffset(r) <= o /\ o + P <= end
      /\ r.next_block < r.num_blocks
  BY BlockPlace
<1>2. t \in 0 .. WORD - 1
  BY DEF Block, Words
<1>3. /\ w.offset = o /\ w.erase_offset = SectorOf(o)
      /\ w.erase <=> o >= r.erased_end
  BY DEF ota_write
<1>4. /\ SectorOf(o) \in Nat /\ SectorOf(o) % S = 0
      /\ SectorOf(o) <= o /\ o < SectorOf(o) + S
  BY <1>1, SectorFacts
<1>5. w.erase => r.erased_end <= SectorOf(o)
  BY <1>1, <1>3, SectorFacts, RxFields DEF RxInv
<1>6. SectorOf(o) + S <= end
  <2>1. end % S = 0 /\ end \in Int
    BY Geometry, RxFields, MultipleSum DEF SlotOk
  <2>2. o < end
    BY <1>1, Geometry, RxFields
  <2> QED BY <1>1, <2>1, <2>2, SectorFacts
<1>7. (SectorOf(o) + S) % WORD = SectorOf(o) + S /\ (SectorOf(o) + S) % S = 0
  <2>1. SectorOf(o) + S \in 0 .. WORD - 1
    BY <1>4, <1>6, Geometry, RxFields DEF SlotOk
  <2>2. (SectorOf(o) + S) % WORD = SectorOf(o) + S
    BY <2>1, Numbers, SmallMod
  <2> HIDE DEF o
  <2>3. (SectorOf(o) + S) % S = 0
    BY <1>4, Numbers, MultipleNext
  <2> QED BY <2>2, <2>3
<1>8. (t + P) % WORD = t + P /\ (t + P) % P = 0
  <2>1. t + P \in 0 .. WORD - 1
    BY <1>1, <1>2, Geometry, RxFields DEF SlotOk
  <2>2. t % P = 0
    BY DEF BlockStatus, TargetOk
  <2>3. (t + P) % WORD = t + P
    BY <2>1, Numbers, SmallMod
  <2> HIDE DEF t
  <2>4. t \in Int /\ P \in Nat \ {0}
    BY <1>2, Numbers
  <2>5. (t + P) % P = 0
    BY <2>2, <2>4, MultipleNext
  <2> QED BY <2>3, <2>5
<1>9. (r.next_block + 1) % WORD = r.next_block + 1
  BY <1>1, Geometry, RxFields, SmallMod
<1>10. n = [slot_start |-> r.slot_start, slot_size |-> r.slot_size, family |-> r.family,
            num_blocks |-> r.num_blocks, next_block |-> r.next_block + 1,
            next_addr |-> t + P,
            erased_end |-> IF w.erase THEN SectorOf(o) + S ELSE r.erased_end]
  <2>1. n = [r EXCEPT !.erased_end = IF w.erase THEN SectorOf(o) + S ELSE r.erased_end,
                      !.next_block = r.next_block + 1, !.next_addr = t + P]
    BY <1>3, <1>7, <1>8, <1>9 DEF ota_rx_next
  <2> HIDE DEF n, w, o, t, P, S
  <2> QED BY <2>1 DEF Rx
<1>11. n \in Rx
  <2>1. r.next_block + 1 \in Words /\ t + P \in Words /\ SectorOf(o) + S \in Words
    BY <1>1, <1>2, <1>4, <1>6, Geometry, RxFields DEF SlotOk, Words
  <2>2. r.slot_start \in Words /\ r.slot_size \in Words /\ r.family \in Families \cup {0}
        /\ r.num_blocks \in Words /\ r.erased_end \in Words
    BY DEF Rx
  <2> HIDE DEF n, o, w, t, P, S
  <2> QED BY <1>10, <2>1, <2>2 DEF Rx
<1>12. NextOffset(n) = o + P
  BY <1>1, <1>2, <1>10, Geometry, RxFields DEF NextOffset
<1>13. n.erased_end % S = 0 /\ o + P <= n.erased_end /\ n.erased_end <= end
  <2>1. CASE w.erase
    <3>1. n.erased_end = SectorOf(o) + S
      BY <1>10, <2>1
    <3>2. (SectorOf(o) + S) % P = 0
      BY <1>4, <1>7, Geometry, MultipleOfMultiple
    <3>3. o + P <= SectorOf(o) + S
      BY <1>1, <1>4, <3>2, Geometry, MultipleGap
    <3> QED BY <1>6, <1>7, <3>1, <3>3
  <2>2. CASE ~w.erase
    <3>1. n.erased_end = r.erased_end /\ o < r.erased_end /\ r.erased_end \in Int
      BY <1>1, <1>3, <1>10, <2>2, RxFields
    <3>2. r.erased_end % S = 0 /\ r.erased_end <= end
      BY DEF RxInv
    <3>3. r.erased_end % P = 0
      BY <3>1, <3>2, Geometry, MultipleOfMultiple
    <3>4. o + P <= r.erased_end
      BY <1>1, <3>1, <3>3, Geometry, MultipleGap
    <3> QED BY <3>1, <3>2, <3>4
  <2> QED BY <2>1, <2>2
<1>14. RxInv(n)
  <2>1. n.num_blocks > 0 /\ n.next_block <= n.num_blocks
    BY <1>1, <1>10, RxFields DEF RxInv
  <2>2. n.next_addr >= B /\ n.next_addr % P = 0
    BY <1>1, <1>2, <1>8, <1>10, Geometry, RxFields
  <2>3. n.slot_start + n.slot_size = end
    BY <1>10
  <2> HIDE DEF n, o, end
  <2> QED BY <1>12, <1>13, <2>1, <2>2, <2>3 DEF RxInv
<1>15. /\ n.slot_start = r.slot_start /\ n.slot_size = r.slot_size
       /\ n.num_blocks = r.num_blocks /\ n.next_block = r.next_block + 1
       /\ n.erased_end = IF w.erase THEN SectorOf(o) + S ELSE r.erased_end
  BY <1>10
<1> HIDE DEF n, w, o
<1> QED BY <1>3, <1>5, <1>11, <1>12, <1>14, <1>15 DEF n, w

-----------------------------------------------------------------------------
(* What all callbacks keep. *)

\* The update has the car, and rx describes it.
Receiving == up_state \in {"UP_STOPPING", "UP_DATA", "UP_REBOOT"}

\* rx is for the slot of a partition.
ForSlot(r, i) == r.slot_start = SlotStart(i) /\ r.slot_size = SlotSize(i)

Address(p) == p * OTA_FLASH_PAGE

\* What the pages hold: only erased ones are not old, and between the last
\* page written and the last page erased all are blank.
FlashInv(r) ==
  /\ \A p \in Pages :
       /\ flash[p] \in {"old", "blank", "new"}
       /\ flash[p] # "old" => r.slot_start <= Address(p) /\ Address(p) < r.erased_end
       /\ flash[p] = "new" => Address(p) < NextOffset(r)
       /\ NextOffset(r) <= Address(p) /\ Address(p) < r.erased_end => flash[p] = "blank"
  /\ Cardinality(NewPages) = r.next_block

\* rx is for a partition the car does not run from, and agrees with the pages.
Placed ==
  /\ RxInv(rx) /\ FlashInv(rx)
  /\ \E i \in DOMAIN Partitions \ {boot_partition} : ForSlot(rx, i)

\* The inductive invariant.
UploadInv ==
  /\ TypeOK
  /\ CarFollowsUpload
  /\ RunningImageUntouched
  /\ Receiving => Placed
  /\ up_state = "UP_STOPPING" => flash = Untouched
  /\ up_state \in {"UP_STOPPING", "UP_DATA"} /\ handler = "none" => ~ota_rx_done(rx)
  /\ up_state = "UP_REBOOT" => rx.next_block = rx.num_blocks
  /\ off => up_state = "UP_REBOOT"

-----------------------------------------------------------------------------
(* Slots and pages. *)

\* The slot of a partition is of whole sectors, in the flash and in reach of
\* 32-bit addresses.
LEMMA PartitionSlot ==
  ASSUME NEW i \in DOMAIN Partitions
  PROVE  /\ SlotStart(i) \in Words /\ SlotSize(i) \in Words
         /\ SlotStart(i) % OTA_FLASH_SECTOR = 0 /\ SlotSize(i) % OTA_FLASH_SECTOR = 0
         /\ SlotSize(i) > 0
         /\ SlotStart(i) + SlotSize(i) <= FLASH_SECTORS * OTA_FLASH_SECTOR
         /\ SlotStart(i) + SlotSize(i) < WORD
         /\ OTA_XIP_BASE + SlotSize(i) < WORD
<1> DEFINE S == OTA_FLASH_SECTOR
           f == Partitions[i].first
           l == Partitions[i].last
           n == l + 1 - f
<1>1. /\ f \in Nat /\ l \in Nat /\ f <= l /\ l < FLASH_SECTORS
      /\ OTA_XIP_BASE + (l + 1) * S < WORD
      /\ FLASH_SECTORS \in Nat /\ FLASH_SECTORS * S < WORD
  BY UploadAssumption
<1>2. S \in Nat \ {0} /\ OTA_XIP_BASE \in Nat /\ WORD \in Nat
  BY Numbers
<1>3. SlotStart(i) = f * S /\ SlotSize(i) = n * S
  BY DEF SlotStart, SlotSize
<1> HIDE DEF S, f, l
<1>4. n \in Nat /\ n >= 1
  BY <1>1
<1>5. f * S \in Nat /\ n * S \in Nat /\ n * S >= S
  BY <1>1, <1>2, <1>4
<1>6. f * S + n * S = (l + 1) * S
  BY <1>1, <1>2
<1>7. (l + 1) * S <= FLASH_SECTORS * S
  <2>1. (FLASH_SECTORS - (l + 1)) * S >= 0
    BY <1>1, <1>2
  <2> QED BY <1>1, <1>2, <2>1
<1>8. (f * S) % S = 0 /\ (n * S) % S = 0
  <2>1. f * S = S * f /\ n * S = S * n
    BY <1>1, <1>2, <1>4
  <2> HIDE DEF n
  <2> QED BY <1>1, <1>2, <1>4, <1>5, <2>1, Multiple
<1> DEFINE F == f * S
           N == n * S
           L == (l + 1) * S
           T == FLASH_SECTORS * S
<1>9. F \in Nat /\ N \in Nat /\ N > 0 /\ F + N = L /\ L <= T /\ T < WORD
      /\ OTA_XIP_BASE + L < WORD /\ L \in Int /\ T \in Int
  BY <1>1, <1>2, <1>5, <1>6, <1>7
<1> HIDE DEF F, N, L, T, n
<1>10. F \in Words /\ N \in Words /\ OTA_XIP_BASE + N < WORD /\ F + N < WORD
  BY <1>2, <1>9 DEF Words
<1> QED BY <1>3, <1>8, <1>9, <1>10 DEF F, N, T, S, n

\* The page at an offset of the flash.
LEMMA PageAt ==
  ASSUME NEW o \in Nat, o % OTA_FLASH_PAGE = 0,
         o + OTA_FLASH_PAGE <= FLASH_SECTORS * OTA_FLASH_SECTOR
  PROVE  PageOf(o) \in Pages /\ Address(PageOf(o)) = o
<1> DEFINE P == OTA_FLASH_PAGE
           T == FLASH_SECTORS * OTA_FLASH_SECTOR
           k == o \div P
           m == T \div P
<1>1. P \in Nat \ {0} /\ OTA_FLASH_SECTOR \in Nat \ {0} /\ FLASH_SECTORS \in Nat
  BY Numbers, UploadAssumption
<1>2. T \in Nat /\ T % P = 0
  <2>1. T = OTA_FLASH_SECTOR * FLASH_SECTORS /\ T \in Nat
    BY <1>1
  <2> HIDE DEF T
  <2>2. T % OTA_FLASH_SECTOR = 0
    BY <1>1, <2>1, Multiple
  <2>3. OTA_FLASH_SECTOR % P = 0 /\ T \in Int
    BY <2>1, Geometry
  <2> HIDE DEF P
  <2>4. T % P = 0
    BY <1>1, <2>2, <2>3, MultipleOfMultiple
  <2> QED BY <2>1, <2>4
<1>3. k \in Int /\ o = P * k /\ m \in Int /\ T = P * m
  <2>1. o % P = 0
    OBVIOUS
  <2> HIDE DEF T, P
  <2>2. k \in Int /\ o = P * k
    BY <1>1, <2>1, DivMod, Multiple
  <2>3. m \in Int /\ T = P * m
    BY <1>1, <1>2, DivMod, Multiple
  <2> QED BY <2>2, <2>3
<1>4. o < T
  BY <1>1, <1>2
<1> HIDE DEF k, m, T, P
<1>5. k >= 0
  <2> SUFFICES ASSUME k <= -1 PROVE FALSE
    BY <1>3
  <2>1. P * k <= -P
    BY <1>1, <1>3
  <2> QED BY <1>1, <1>3, <2>1
<1>6. k < m
  <2> SUFFICES ASSUME k - m >= 0 PROVE FALSE
    BY <1>3
  <2>1. P * (k - m) >= 0
    BY <1>1, <1>3
  <2>2. P * (k - m) = o - T
    BY <1>1, <1>3
  <2> QED BY <1>2, <1>4, <2>1, <2>2
<1>7. k \in 0 .. m - 1
  BY <1>3, <1>5, <1>6
<1>8. k * P = o
  BY <1>1, <1>3
<1> QED BY <1>7, <1>8 DEF PageOf, Pages, Address, k, m, T, P

\* The pages are finite, and each has its address.
LEMMA PageFacts ==
  /\ Pages \subseteq Nat /\ IsFiniteSet(Pages)
  /\ \A p \in Pages : Address(p) \in Nat /\ Address(p) % OTA_FLASH_PAGE = 0
  /\ \A p, q \in Pages : Address(p) = Address(q) => p = q
<1> DEFINE T == FLASH_SECTORS * OTA_FLASH_SECTOR
           m == T \div OTA_FLASH_PAGE
<1>1. OTA_FLASH_PAGE \in Nat \ {0} /\ T \in Nat
  BY Numbers, UploadAssumption
<1>2. m \in Int
  BY <1>1, DivMod
<1>3. Pages = 0 .. m - 1 /\ m - 1 \in Int
  BY <1>2 DEF Pages
<1>4. IsFiniteSet(Pages)
  BY <1>3, FS_Interval
<1> HIDE DEF m
<1>5. Pages \subseteq Nat
  BY <1>2, <1>3
<1>6. ASSUME NEW p \in Pages
      PROVE  Address(p) \in Nat /\ Address(p) % OTA_FLASH_PAGE = 0
  <2>1. p \in Nat
    BY <1>5
  <2>2. Address(p) = OTA_FLASH_PAGE * p /\ Address(p) \in Nat
    BY <1>1, <2>1 DEF Address
  <2> QED BY <1>1, <2>1, <2>2, Multiple
<1>7. ASSUME NEW p \in Pages, NEW q \in Pages, Address(p) = Address(q)
      PROVE  p = q
  <2>1. p \in Nat /\ q \in Nat
    BY <1>5
  <2>2. (p - q) * OTA_FLASH_PAGE = 0
    BY <1>1, <1>7, <2>1 DEF Address
  <2>3. p - q = 0
    BY <1>1, <2>1, <2>2
  <2> QED BY <2>1, <2>3
<1> QED BY <1>4, <1>5, <1>6, <1>7

-----------------------------------------------------------------------------
(* A block is written. *)

\* The pages that a good block has erased are old ones of the slot, and among
\* them, or blank from before, is the page that it goes to.
LEMMA BlockPages ==
  ASSUME rx \in Rx, RxInv(rx), FlashInv(rx), flash \in [Pages -> PageStates],
         NEW i \in DOMAIN Partitions, ForSlot(rx, i),
         NEW block \in Block, BlockStatus(rx, block) = "OTA_OK"
  PROVE  LET w == ota_write(rx, block)
             n == ota_rx_next(rx, block)
             p0 == PageOf(w.offset)
         IN  /\ n \in Rx /\ RxInv(n) /\ ForSlot(n, i)
             /\ n.num_blocks = rx.num_blocks /\ n.next_block = rx.next_block + 1
             /\ n.slot_start <= NextOffset(rx) /\ NextOffset(rx) <= w.offset
             /\ NextOffset(n) = w.offset + OTA_FLASH_PAGE
             /\ rx.erased_end <= n.erased_end
             /\ p0 \in Pages /\ Address(p0) = w.offset
             /\ Erased(w) \in [Pages -> PageStates] /\ Erased(w)[p0] = "blank"
             /\ flash[p0] # "new"
             /\ \A p \in Pages :
                  /\ Erased(w)[p] # flash[p] =>
                       /\ Erased(w)[p] = "blank" /\ flash[p] = "old"
                       /\ rx.erased_end <= Address(p) /\ Address(p) < n.erased_end
                  /\ NextOffset(n) <= Address(p) /\ Address(p) < n.erased_end =>
                       Erased(w)[p] = "blank"
<1> DEFINE w == ota_write(rx, block)
           n == ota_rx_next(rx, block)
           p0 == PageOf(w.offset)
           P == OTA_FLASH_PAGE
           S == OTA_FLASH_SECTOR
           o == w.offset
           e == Erased(w)
<1>1. SlotOk(rx) /\ rx.slot_start + rx.slot_size <= FLASH_SECTORS * OTA_FLASH_SECTOR
  BY PartitionSlot DEF SlotOk, ForSlot
<1>2. /\ o = Offset(rx, block.target) /\ o \in Nat /\ o % P = 0
      /\ rx.slot_start <= o /\ NextOffset(rx) <= o
      /\ o + P <= rx.slot_start + rx.slot_size
  BY <1>1, BlockPlace DEF ota_write
<1>3. /\ n \in Rx /\ RxInv(n)
      /\ n.slot_start = rx.slot_start /\ n.slot_size = rx.slot_size
      /\ n.num_blocks = rx.num_blocks /\ n.next_block = rx.next_block + 1
      /\ NextOffset(n) = o + P
      /\ w.erase <=> o >= rx.erased_end
      /\ w.erase_offset = SectorOf(o)
      /\ w.erase => /\ rx.erased_end <= w.erase_offset
                    /\ n.erased_end = w.erase_offset + S
      /\ ~w.erase => n.erased_end = rx.erased_end
  BY <1>1, RxNext
<1>4. P \in Nat \ {0} /\ S \in Nat \ {0} /\ OTA_XIP_BASE \in Nat
  BY Numbers
<1>5. rx.erased_end \in Nat /\ rx.slot_start \in Nat /\ rx.slot_size \in Nat
      /\ rx.next_addr \in Nat /\ rx.next_addr >= OTA_XIP_BASE
  BY RxFields DEF RxInv
<1>6. rx.slot_start <= NextOffset(rx) /\ NextOffset(rx) \in Int
      /\ NextOffset(rx) <= rx.erased_end
  BY <1>4, <1>5 DEF NextOffset, RxInv
<1>7. p0 \in Pages /\ Address(p0) = o
  <2>1. o + P <= FLASH_SECTORS * OTA_FLASH_SECTOR
    <3> DEFINE T == FLASH_SECTORS * OTA_FLASH_SECTOR
    <3>1. T \in Int
      BY Numbers, UploadAssumption
    <3>2. o + P <= rx.slot_start + rx.slot_size /\ rx.slot_start + rx.slot_size <= T
      BY <1>1, <1>2
    <3> HIDE DEF T, P, o
    <3> QED BY <1>2, <1>4, <1>5, <3>1, <3>2 DEF T
  <2> QED BY <1>2, <2>1, PageAt
<1> HIDE DEF w, n
<1>8. /\ SectorOf(o) \in Nat /\ SectorOf(o) % S = 0
      /\ SectorOf(o) <= o /\ o < SectorOf(o) + S
  BY <1>2, SectorFacts
<1>9. rx.erased_end <= n.erased_end
  BY <1>3, <1>4, <1>5, <1>8
<1>10. \A p \in Pages : Address(p) \in Nat
  BY PageFacts
<1>11. /\ e \in [Pages -> PageStates]
       /\ \A p \in Pages :
            e[p] = IF w.erase /\ SectorOf(Address(p)) = SectorOf(o) THEN "blank" ELSE flash[p]
  BY <1>3 DEF Erased, SectorPages, Address, PageStates
<1>12. \A p \in Pages :
         SectorOf(Address(p)) = SectorOf(o) <=>
           SectorOf(o) <= Address(p) /\ Address(p) < SectorOf(o) + S
  <2> TAKE p \in Pages
  <2> DEFINE a == Address(p)
             so == SectorOf(o)
             sa == SectorOf(a)
  <2>1. /\ a \in Nat /\ sa \in Nat /\ sa <= a /\ a < sa + S
        /\ so <= a => so <= sa
        /\ a < so + S => sa + S <= so + S
    <3>1. a \in Nat
      BY <1>10
    <3>2. so \in Int /\ so + S \in Int /\ so % S = 0 /\ (so + S) % S = 0
      BY <1>4, <1>8, MultipleNext
    <3> HIDE DEF so, a
    <3> QED BY <3>1, <3>2, SectorFacts
  <2>2. so \in Nat
    BY <1>8
  <2> HIDE DEF so, sa, a
  <2>3. sa = so <=> so <= a /\ a < so + S
    BY <1>4, <2>1, <2>2
  <2> QED BY <2>3 DEF sa, so, a
<1>13. ASSUME NEW p \in Pages, e[p] # flash[p]
       PROVE  /\ e[p] = "blank" /\ flash[p] = "old"
              /\ rx.erased_end <= Address(p) /\ Address(p) < n.erased_end
  <2>1. w.erase /\ SectorOf(Address(p)) = SectorOf(o) /\ e[p] = "blank"
    BY <1>11, <1>13
  <2>2. SectorOf(o) <= Address(p) /\ Address(p) < SectorOf(o) + S
    BY <1>12, <2>1
  <2>3. rx.erased_end <= SectorOf(o) /\ n.erased_end = SectorOf(o) + S
    BY <1>3, <2>1
  <2>4. Address(p) \in Nat
    BY <1>10
  <2>5. rx.erased_end <= Address(p) /\ Address(p) < n.erased_end
    <3> DEFINE so == SectorOf(o)
    <3>1. so \in Nat
      BY <1>8
    <3> HIDE DEF so
    <3> QED BY <1>5, <2>2, <2>3, <2>4, <3>1 DEF so
  <2>6. flash[p] = "old"
    BY <1>5, <2>4, <2>5 DEF FlashInv
  <2> QED BY <2>1, <2>5, <2>6
<1>14. ASSUME NEW p \in Pages, o <= Address(p), Address(p) < n.erased_end
       PROVE  e[p] = "blank"
  <2>1. Address(p) \in Nat
    BY <1>10
  <2>2. CASE w.erase
    <3>1. n.erased_end = SectorOf(o) + S
      BY <1>3, <2>2
    <3> DEFINE so == SectorOf(o)
    <3>2. so \in Nat /\ so <= o
      BY <1>8
    <3>3. so <= Address(p) /\ Address(p) < so + S
      <4> HIDE DEF so, o
      <4> QED BY <1>2, <1>14, <2>1, <3>1, <3>2 DEF so
    <3> QED BY <1>11, <1>12, <2>2, <3>3
  <2>3. CASE ~w.erase
    <3>1. NextOffset(rx) <= Address(p) /\ Address(p) < rx.erased_end
      BY <1>2, <1>3, <1>6, <1>14, <2>1, <2>3
    <3>2. flash[p] = "blank"
      BY <3>1 DEF FlashInv
    <3> QED BY <1>11, <2>3, <3>2
  <2> QED BY <2>2, <2>3
<1>15. e[p0] = "blank"
  <2>1. o <= Address(p0)
    BY <1>2, <1>7
  <2>2. Address(p0) < n.erased_end
    <3>1. CASE w.erase
      BY <1>3, <1>7, <1>8, <3>1
    <3>2. CASE ~w.erase
      BY <1>2, <1>3, <1>5, <1>7, <3>2
    <3> QED BY <3>1, <3>2
  <2> QED BY <1>7, <1>14, <2>1, <2>2
<1>16. flash[p0] # "new"
  BY <1>2, <1>6, <1>7 DEF FlashInv
<1>17. ASSUME NEW p \in Pages, NextOffset(n) <= Address(p), Address(p) < n.erased_end
       PROVE  e[p] = "blank"
  <2>1. o <= Address(p)
    BY <1>2, <1>3, <1>4, <1>10, <1>17
  <2> QED BY <1>14, <1>17, <2>1
<1>18. ForSlot(n, i)
  BY <1>3 DEF ForSlot
<1>19. n.slot_start <= NextOffset(rx) /\ NextOffset(rx) <= o
  BY <1>2, <1>3, <1>6
<1> HIDE DEF e, p0, o
<1> QED BY <1>3, <1>7, <1>9, <1>11, <1>13, <1>15, <1>16, <1>17, <1>18, <1>19
        DEF w, n, e, p0, o, P

\* A page that was erased for the image is one of its slot.
LEMMA SlotPages ==
  ASSUME NEW i \in DOMAIN Partitions, NEW r \in Rx, ForSlot(r, i), RxInv(r),
         NEW p \in Pages, r.slot_start <= Address(p), Address(p) < r.erased_end
  PROVE  p * OTA_FLASH_PAGE \in SlotStart(i) .. SlotStart(i) + SlotSize(i) - 1
<1>1. r.slot_start \in Nat /\ r.slot_size \in Nat /\ r.erased_end \in Nat
  BY RxFields
<1>2. r.erased_end <= r.slot_start + r.slot_size
  BY DEF RxInv
<1>3. Address(p) \in Nat
  BY PageFacts
<1> DEFINE a == Address(p)
<1> HIDE DEF a
<1>4. a \in r.slot_start .. r.slot_start + r.slot_size - 1
  BY <1>1, <1>2, <1>3 DEF a
<1> QED BY <1>4 DEF a, Address, ForSlot

\* A page written whole is one more of the image.
LEMMA PageWritten ==
  ASSUME TypeOK, Placed, NEW block \in Block, BlockStatus(rx, block) = "OTA_OK",
         flash' = Written(ota_write(rx, block)), rx' = ota_rx_next(rx, block),
         boot_partition' = boot_partition
  PROVE  /\ rx' \in Rx /\ flash' \in [Pages -> PageStates]
         /\ Placed' /\ RunningImageUntouched'
         /\ rx'.num_blocks = rx.num_blocks /\ rx'.next_block = rx.next_block + 1
         /\ NewPages' # {}
<1> DEFINE w == ota_write(rx, block)
           p0 == PageOf(w.offset)
           e == Erased(w)
<1>1. rx \in Rx /\ flash \in [Pages -> PageStates]
  BY DEF TypeOK
<1>2. PICK i \in DOMAIN Partitions \ {boot_partition} : ForSlot(rx, i)
  BY DEF Placed
<1>3. RxInv(rx) /\ FlashInv(rx)
  BY DEF Placed
<1>4. /\ rx' \in Rx /\ RxInv(rx') /\ ForSlot(rx', i)
      /\ rx'.num_blocks = rx.num_blocks /\ rx'.next_block = rx.next_block + 1
      /\ rx'.slot_start <= NextOffset(rx) /\ NextOffset(rx) <= w.offset
      /\ NextOffset(rx') = w.offset + OTA_FLASH_PAGE
      /\ rx.erased_end <= rx'.erased_end
      /\ p0 \in Pages /\ Address(p0) = w.offset
      /\ e \in [Pages -> PageStates] /\ e[p0] = "blank" /\ flash[p0] # "new"
      /\ \A p \in Pages :
           /\ e[p] # flash[p] =>
                /\ e[p] = "blank" /\ flash[p] = "old"
                /\ rx.erased_end <= Address(p) /\ Address(p) < rx'.erased_end
           /\ NextOffset(rx') <= Address(p) /\ Address(p) < rx'.erased_end => e[p] = "blank"
  BY <1>1, <1>2, <1>3, BlockPages
<1>5. flash' = [e EXCEPT ![p0] = "new"]
  BY <1>4 DEF Written
<1> HIDE DEF e, p0
<1>6. flash' \in [Pages -> PageStates]
  BY <1>4, <1>5 DEF PageStates
<1>7. /\ flash'[p0] = "new"
      /\ \A p \in Pages : p # p0 => flash'[p] = e[p]
  BY <1>4, <1>5
<1>8. /\ rx.slot_start = rx'.slot_start /\ rx.slot_start \in Nat
      /\ rx.erased_end \in Nat /\ rx'.erased_end \in Nat
      /\ NextOffset(rx) \in Int /\ NextOffset(rx) <= rx.erased_end
      /\ w.offset \in Nat /\ OTA_FLASH_PAGE \in Nat \ {0}
  <2>1. rx.slot_start = rx'.slot_start
    BY <1>2, <1>4 DEF ForSlot
  <2>2. w.offset \in Nat
    BY <1>4, PageFacts
  <2> HIDE DEF w
  <2> QED BY <1>1, <1>3, <1>4, <2>1, <2>2, RxFields, Numbers DEF RxInv, NextOffset
<1>9. NextOffset(rx') <= rx'.erased_end /\ NextOffset(rx') \in Int
  BY <1>4, <1>8 DEF RxInv
<1> HIDE DEF w
<1>10. ASSUME NEW p \in Pages
       PROVE  /\ flash'[p] \in {"old", "blank", "new"}
              /\ flash'[p] # "old" => rx'.slot_start <= Address(p) /\ Address(p) < rx'.erased_end
              /\ flash'[p] = "new" => Address(p) < NextOffset(rx')
              /\ NextOffset(rx') <= Address(p) /\ Address(p) < rx'.erased_end => flash'[p] = "blank"
  <2>1. Address(p) \in Nat
    BY PageFacts
  <2>2. CASE p = p0
    BY <1>4, <1>7, <1>8, <1>9, <2>1, <2>2
  <2>3. CASE p # p0 /\ e[p] = flash[p]
    <3>1. /\ flash[p] \in {"old", "blank", "new"}
          /\ flash[p] # "old" => rx.slot_start <= Address(p) /\ Address(p) < rx.erased_end
          /\ flash[p] = "new" => Address(p) < NextOffset(rx)
      BY <1>3 DEF FlashInv
    <3> QED BY <1>4, <1>7, <1>8, <1>9, <2>1, <2>3, <3>1
  <2>4. CASE p # p0 /\ e[p] # flash[p]
    <3>1. flash'[p] = "blank" /\ rx.erased_end <= Address(p) /\ Address(p) < rx'.erased_end
      BY <1>4, <1>7, <2>4
    <3> QED BY <1>4, <1>8, <2>1, <3>1
  <2> QED BY <2>2, <2>3, <2>4
<1>11. NewPages' = NewPages \cup {p0} /\ p0 \notin NewPages
  <2>1. \A p \in Pages : e[p] = "new" <=> flash[p] = "new"
    BY <1>4
  <2> QED BY <1>4, <1>7, <2>1 DEF NewPages
<1>12. Cardinality(NewPages)' = rx'.next_block
  <2>1. IsFiniteSet(NewPages)
    BY PageFacts, FS_Subset DEF NewPages
  <2>2. Cardinality(NewPages \cup {p0}) = Cardinality(NewPages) + 1
    BY <1>11, <2>1, FS_AddElement
  <2> QED BY <1>3, <1>4, <1>11, <2>2 DEF FlashInv
<1>13. FlashInv(rx)'
  BY <1>10, <1>12 DEF FlashInv
<1>14. Placed'
  BY <1>2, <1>4, <1>13 DEF Placed
<1>15. RunningImageUntouched'
  BY <1>2, <1>4, <1>10, SlotPages DEF RunningImageUntouched
<1> QED BY <1>4, <1>6, <1>11, <1>14, <1>15

\* A page that the flash did not take is one of the slot, too.
LEMMA PageFailed ==
  ASSUME TypeOK, Placed, NEW block \in Block, BlockStatus(rx, block) = "OTA_OK",
         flash' = WriteFails(ota_write(rx, block)), rx' = ota_rx_next(rx, block),
         boot_partition' = boot_partition
  PROVE  flash' \in [Pages -> PageStates] /\ RunningImageUntouched'
<1> DEFINE w == ota_write(rx, block)
           p0 == PageOf(w.offset)
           e == Erased(w)
<1>1. rx \in Rx /\ flash \in [Pages -> PageStates]
  BY DEF TypeOK
<1>2. PICK i \in DOMAIN Partitions \ {boot_partition} : ForSlot(rx, i)
  BY DEF Placed
<1>3. RxInv(rx) /\ FlashInv(rx)
  BY DEF Placed
<1>4. /\ rx' \in Rx /\ RxInv(rx') /\ ForSlot(rx', i)
      /\ rx'.slot_start <= NextOffset(rx) /\ NextOffset(rx) <= w.offset
      /\ NextOffset(rx') = w.offset + OTA_FLASH_PAGE
      /\ rx.erased_end <= rx'.erased_end
      /\ p0 \in Pages /\ Address(p0) = w.offset
      /\ e \in [Pages -> PageStates]
      /\ \A p \in Pages :
           e[p] # flash[p] => rx.erased_end <= Address(p) /\ Address(p) < rx'.erased_end
  BY <1>1, <1>2, <1>3, BlockPages
<1>5. flash' = [e EXCEPT ![p0] = "bad"]
  BY DEF WriteFails
<1> HIDE DEF e, p0
<1>6. flash' \in [Pages -> PageStates]
  BY <1>4, <1>5 DEF PageStates
<1>7. /\ rx.slot_start = rx'.slot_start /\ rx.slot_start \in Nat
      /\ rx.erased_end \in Nat /\ rx'.erased_end \in Nat
      /\ NextOffset(rx) \in Int /\ NextOffset(rx) <= rx.erased_end
      /\ w.offset \in Nat /\ OTA_FLASH_PAGE \in Nat \ {0}
  <2>1. rx.slot_start = rx'.slot_start
    BY <1>2, <1>4 DEF ForSlot
  <2>2. w.offset \in Nat
    BY <1>4, PageFacts
  <2> HIDE DEF w
  <2> QED BY <1>1, <1>3, <1>4, <2>1, <2>2, RxFields, Numbers DEF RxInv, NextOffset
<1>8. NextOffset(rx') <= rx'.erased_end /\ NextOffset(rx') \in Int
  BY <1>4, <1>7 DEF RxInv
<1> HIDE DEF w
<1>9. ASSUME NEW p \in Pages, flash'[p] # "old"
      PROVE  rx'.slot_start <= Address(p) /\ Address(p) < rx'.erased_end
  <2>1. Address(p) \in Nat
    BY PageFacts
  <2>2. CASE p = p0
    BY <1>4, <1>7, <1>8, <2>1, <2>2
  <2>3. CASE p # p0 /\ e[p] = flash[p]
    <3>1. flash[p] # "old"
      BY <1>4, <1>5, <1>9, <2>3
    <3>2. rx.slot_start <= Address(p) /\ Address(p) < rx.erased_end
      BY <1>3, <3>1 DEF FlashInv
    <3> QED BY <1>4, <1>7, <2>1, <3>2
  <2>4. CASE p # p0 /\ e[p] # flash[p]
    BY <1>4, <1>7, <2>1, <2>4
  <2> QED BY <2>2, <2>3, <2>4
<1> QED BY <1>2, <1>4, <1>6, <1>9, SlotPages DEF RunningImageUntouched

\* A new image starts with nothing written.
LEMMA NothingWritten ==
  ASSUME flash' = Untouched, rx' \in Rx, RxInv(rx'), rx'.next_block = 0,
         rx'.erased_end = rx'.slot_start, NextOffset(rx') = rx'.slot_start
  PROVE  FlashInv(rx)' /\ RunningImageUntouched' /\ NewPages' = {}
<1>1. \A p \in Pages : flash'[p] = "old"
  BY DEF Untouched
<1>2. NewPages' = {}
  BY <1>1 DEF NewPages
<1>3. Cardinality(NewPages)' = rx'.next_block
  BY <1>2, FS_EmptySet
<1>4. \A p \in Pages : ~(rx'.slot_start <= Address(p) /\ Address(p) < rx'.slot_start)
  BY PageFacts, RxFields
<1>5. FlashInv(rx)'
  BY <1>1, <1>3, <1>4 DEF FlashInv
<1> QED BY <1>1, <1>2, <1>5 DEF RunningImageUntouched

-----------------------------------------------------------------------------
(* Every callback keeps the invariant. *)

\* What does not touch the receiver, the flash or the boot ROM's choice keeps
\* what is said of them.
LEMMA SameReceiver ==
  ASSUME UNCHANGED <<rx, flash, boot_partition>>
  PROVE  /\ Placed' <=> Placed
         /\ RunningImageUntouched' <=> RunningImageUntouched
         /\ Image' = IF ~car_stopped' \/ NewPages = {} THEN "none"
                     ELSE IF Cardinality(NewPages) < rx.num_blocks THEN "part" ELSE "whole"
<1>1. NewPages' = NewPages
  BY DEF NewPages
<1>2. FlashInv(rx)' <=> FlashInv(rx)
  BY <1>1 DEF FlashInv
<1>3. Placed' <=> Placed
  BY <1>2 DEF Placed
<1>4. RunningImageUntouched' <=> RunningImageUntouched
  BY DEF RunningImageUntouched
<1> QED BY <1>1, <1>3, <1>4 DEF Image

\* A callback that touches neither needs to answer for the server's state only.
LEMMA ControlOnly ==
  ASSUME UploadInv, UNCHANGED <<rx, flash, boot_partition>>, TypeOK', CarFollowsUpload',
         Receiving' => Receiving,
         up_state' = "UP_STOPPING" => up_state = "UP_STOPPING",
         up_state' \in {"UP_STOPPING", "UP_DATA"} /\ handler' = "none" => ~ota_rx_done(rx),
         up_state' = "UP_REBOOT" => rx.next_block = rx.num_blocks,
         off' => up_state' = "UP_REBOOT"
  PROVE  UploadInv'
<1>1. Receiving' => Placed'
  BY SameReceiver DEF UploadInv
<1>2. RunningImageUntouched'
  BY SameReceiver DEF UploadInv
<1>3. up_state' = "UP_STOPPING" => flash' = Untouched'
  BY DEF UploadInv, Untouched
<1>4. ota_rx_done(rx)' <=> ota_rx_done(rx)
  BY DEF ota_rx_done
<1> QED BY <1>1, <1>2, <1>3, <1>4 DEF UploadInv

\* An upload that has ended leaves the car free, whatever is in the flash.
LEMMA CarFreed ==
  ASSUME UploadInv, TypeOK', RunningImageUntouched', up_state' = "UP_IDLE", ~client',
         ~car_stopped', handler' = "none", off' = off, ~off
  PROVE  UploadInv'
BY DEF UploadInv, CarFollowsUpload, Receiving

\* A tick more is within the bound.
LEMMA LaterRange ==
  /\ 0 \in 0 .. MAX_TICKS
  /\ \A n \in 0 .. MAX_TICKS : Later(n) \in 0 .. MAX_TICKS
<1>1. MAX_TICKS \in Nat
  BY UploadAssumption DEF MAX_TICKS
<1> QED BY <1>1 DEF Later

\* Of the sizes only their sign and their sum matter.
LEMMA Sizes ==
  /\ HEADER_SIZE \in Nat /\ CHUNK_SIZE \in Nat /\ CHUNK_BLOCKS \in Nat
  /\ 0 \in 0 .. CHUNK_SIZE
  /\ Need \in 0 .. CHUNK_SIZE
BY UploadAssumption DEF Need

\* What a callback returns is one of the codes.
LEMMA ReturnedType ==
  ASSUME NEW aborted \in BOOLEAN, NEW err \in {"ERR_OK", "ERR_ABRT"}, Returned(aborted, err)
  PROVE  callback' \in [aborted : BOOLEAN, returned : {"ERR_OK", "ERR_ABRT"}]
BY DEF Returned

\* on_accept()
LEMMA OnAcceptInv ==
  ASSUME UploadInv, OnAccept
  PROVE  UploadInv'
<1> USE DEF OnAccept, Running, serverVars, chunkVars, set_state
<1>1. TypeOK'
  <2>1. callback' \in [aborted : BOOLEAN, returned : {"ERR_OK", "ERR_ABRT"}]
    <3>1. Returned(TRUE, "ERR_ABRT") \/ Returned(FALSE, "ERR_OK")
      OBVIOUS
    <3> QED BY <3>1, ReturnedType
  <2>2. client' \in BOOLEAN /\ up_state' \in UpStates /\ age' \in 0 .. MAX_TICKS
        /\ buf_len' \in 0 .. CHUNK_SIZE /\ idle' \in 0 .. MAX_TICKS
        /\ car_stopped' = car_stopped
    BY LaterRange, Sizes DEF UploadInv, TypeOK, UpStates
  <2> QED BY <2>1, <2>2 DEF UploadInv, TypeOK
<1>2. CarFollowsUpload'
  BY DEF UploadInv, CarFollowsUpload
<1> QED BY <1>1, <1>2, ControlOnly DEF UploadInv, Receiving

\* on_recv() at the end of the connection
LEMMA OnRecvClosedInv ==
  ASSUME UploadInv, OnRecvClosed
  PROVE  UploadInv'
<1> USE DEF OnRecvClosed, Running, serverVars, chunkVars, set_state, close_client,
            resume_car
<1>1. TypeOK'
  <2>1. PICK aborted \in BOOLEAN : Returned(aborted, "ERR_OK")
    OBVIOUS
  <2>2. callback' \in [aborted : BOOLEAN, returned : {"ERR_OK", "ERR_ABRT"}]
    BY <2>1, ReturnedType
  <2>3. client' \in BOOLEAN /\ car_stopped' \in BOOLEAN /\ up_state' \in UpStates
        /\ age' \in 0 .. MAX_TICKS
    BY LaterRange DEF UploadInv, TypeOK, UpStates
  <2> QED BY <2>2, <2>3 DEF UploadInv, TypeOK
<1>2. CarFollowsUpload'
  BY DEF UploadInv, CarFollowsUpload
<1> QED BY <1>1, <1>2, ControlOnly DEF UploadInv, Receiving

\* on_tcp_err()
LEMMA OnTcpErrInv ==
  ASSUME UploadInv, OnTcpErr
  PROVE  UploadInv'
<1> USE DEF OnTcpErr, Running, serverVars, chunkVars, set_state, resume_car
<1>1. TypeOK'
  <2>1. client' \in BOOLEAN /\ car_stopped' \in BOOLEAN /\ up_state' \in UpStates
        /\ age' \in 0 .. MAX_TICKS
    BY LaterRange DEF UploadInv, TypeOK, UpStates
  <2> QED BY <2>1 DEF UploadInv, TypeOK
<1>2. CarFollowsUpload'
  BY DEF UploadInv, CarFollowsUpload
<1> QED BY <1>1, <1>2, ControlOnly DEF UploadInv, Receiving

\* What on_recv() does on data, whatever it is.
Receives == Running /\ client /\ idle' = 0 /\ UNCHANGED <<off, boot_partition>>

\* fail() leaves the car free and the server ready.
LEMMA FailedFrees ==
  ASSUME FailedCallback
  PROVE  /\ up_state' = "UP_IDLE" /\ age' = 0 /\ ~client' /\ client' \in BOOLEAN
         /\ ~car_stopped' /\ car_stopped' \in BOOLEAN
         /\ callback' \in [aborted : BOOLEAN, returned : {"ERR_OK", "ERR_ABRT"}]
<1>1. PICK aborted \in BOOLEAN :
        fail(aborted) /\ Returned(aborted, IF aborted THEN "ERR_ABRT" ELSE "ERR_OK")
  BY DEF FailedCallback
<1>2. callback' \in [aborted : BOOLEAN, returned : {"ERR_OK", "ERR_ABRT"}]
  <2>1. (IF aborted THEN "ERR_ABRT" ELSE "ERR_OK") \in {"ERR_OK", "ERR_ABRT"}
    OBVIOUS
  <2> QED BY <1>1, <2>1, ReturnedType
<1> QED BY <1>1, <1>2 DEF fail, close_client, resume_car, set_state

\* on_recv() of too much data
LEMMA RecvTooMuchInv ==
  ASSUME UploadInv, Receives, NEW n \in Nat, RecvTooMuch(n)
  PROVE  UploadInv'
<1>1. TypeOK'
  BY FailedFrees, LaterRange DEF UploadInv, TypeOK, UpStates, RecvTooMuch, Receives, chunkVars
<1>2. RunningImageUntouched'
  BY SameReceiver DEF UploadInv, RecvTooMuch, Receives
<1> QED BY <1>1, <1>2, FailedFrees, CarFreed DEF RecvTooMuch, Receives, Running, chunkVars

\* on_recv() of a part of what it waits for
LEMMA RecvPartInv ==
  ASSUME UploadInv, Receives, NEW n \in Nat, RecvPart(n)
  PROVE  UploadInv'
<1> USE DEF RecvPart, Receives, Running, chunkVars, Returned
<1>1. buf_len' \in 0 .. CHUNK_SIZE
  BY Sizes DEF UploadInv, TypeOK
<1>2. TypeOK'
  BY <1>1, LaterRange DEF UploadInv, TypeOK
<1>3. CarFollowsUpload'
  BY DEF UploadInv, CarFollowsUpload
<1> QED BY <1>2, <1>3, ControlOnly DEF UploadInv, Receiving

\* on_recv() of the rest of a chunk
LEMMA RecvChunkInv ==
  ASSUME UploadInv, Receives, NEW n \in Nat, RecvChunk(n)
  PROVE  UploadInv'
<1> USE DEF RecvChunk, Receives, Running
<1>1. buf_len' \in 0 .. CHUNK_SIZE
  BY Sizes DEF UploadInv, TypeOK
<1>2. left' \in 0 .. CHUNK_BLOCKS
  BY Sizes
<1>3. TypeOK'
  BY <1>1, <1>2, LaterRange DEF UploadInv, TypeOK
<1>4. CarFollowsUpload'
  BY DEF UploadInv, CarFollowsUpload
<1> QED BY <1>3, <1>4, ControlOnly DEF UploadInv, Receiving

\* on_recv() of the rest of a header: the receiver it starts is for a slot
\* the car does not run from.
LEMMA RecvHeaderInv ==
  ASSUME UploadInv, Receives, NEW n \in Nat, NEW h \in Header,
         NEW target \in DOMAIN Partitions \cup {-1}, RecvHeader(n, h, target)
  PROVE  UploadInv' /\ (Receiving' => NewPages' = {})
<1> DEFINE init == ota_rx_init(h, SlotStart(target), SlotSize(target))
           found == ota_header_parse(h) = "OTA_OK" /\ find_slot(target) = "OTA_OK"
<1>1. /\ buf_len' = Need /\ handler' = "none" /\ left' = left
      /\ rx' = IF found THEN init.rx ELSE rx
      /\ idle' = 0 /\ off' = off /\ ~off /\ boot_partition' = boot_partition
  BY Sizes DEF RecvHeader, Receives, Running, chunkVars, UploadInv, TypeOK
<1>2. found => target \in DOMAIN Partitions \ {boot_partition}
  BY DEF find_slot
<1>3. /\ rx' \in Rx
      /\ found /\ init.status = "OTA_OK" =>
           /\ ForSlot(rx', target)
           /\ rx'.next_block = 0 /\ rx'.num_blocks > 0
           /\ rx'.erased_end = rx'.slot_start /\ NextOffset(rx') = rx'.slot_start
           /\ RxInv(rx')
  <2>1. CASE ~found
    BY <1>1, <2>1 DEF UploadInv, TypeOK
  <2>2. CASE found
    <3>1. SlotStart(target) \in Words /\ SlotSize(target) \in Words
          /\ SlotStart(target) % OTA_FLASH_SECTOR = 0
      BY <1>2, <2>2, PartitionSlot
    <3>2. /\ init.rx \in Rx
          /\ init.status = "OTA_OK" =>
               /\ init.rx.slot_start = SlotStart(target)
               /\ init.rx.slot_size = SlotSize(target)
               /\ init.rx.next_block = 0
               /\ init.rx.erased_end = SlotStart(target)
               /\ NextOffset(init.rx) = SlotStart(target)
               /\ RxInv(init.rx)
      BY <2>2, <3>1, RxStart
    <3>3. rx' = init.rx
      BY <1>1, <2>2
    <3> HIDE DEF init, found
    <3> QED BY <3>2, <3>3 DEF ForSlot, RxInv
  <2> QED BY <2>1, <2>2
<1>4. CASE found /\ init.status = "OTA_OK"
  <2>1. /\ car_stopped' = TRUE /\ up_state' = "UP_STOPPING" /\ age' = 0
        /\ flash' = Untouched /\ client' = client
        /\ callback' = NoCallback
    BY <1>4 DEF RecvHeader, set_state, Returned, NoCallback
  <2> HIDE DEF init, found
  <2>2. FlashInv(rx)' /\ RunningImageUntouched' /\ NewPages' = {}
    BY <1>3, <1>4, <2>1, NothingWritten
  <2>3. Placed'
    BY <1>1, <1>2, <1>3, <1>4, <2>2 DEF Placed
  <2>4. ~ota_rx_done(rx)'
    BY <1>3, <1>4, RxFields DEF ota_rx_done
  <2>5. TypeOK'
    BY <1>1, <1>3, <2>1, Sizes, LaterRange
       DEF UploadInv, TypeOK, UpStates, Untouched, PageStates, NoCallback
  <2>6. CarFollowsUpload'
    BY <1>1, <2>1 DEF CarFollowsUpload, Receives
  <2>7. flash' = Untouched'
    BY <2>1 DEF Untouched
  <2> QED BY <1>1, <2>1, <2>2, <2>3, <2>4, <2>5, <2>6, <2>7 DEF UploadInv
<1>5. CASE ~(found /\ init.status = "OTA_OK")
  <2>1. FailedCallback /\ flash' = flash
    BY <1>5 DEF RecvHeader
  <2> HIDE DEF init, found
  <2>2. TypeOK'
    BY <1>1, <1>3, <2>1, FailedFrees, Sizes, LaterRange DEF UploadInv, TypeOK, UpStates
  <2>3. RunningImageUntouched'
    BY <1>1, <2>1 DEF UploadInv, RunningImageUntouched
  <2> QED BY <1>1, <2>1, <2>2, <2>3, FailedFrees, CarFreed DEF Receiving
<1> QED BY <1>4, <1>5

\* on_chunk() on a block that is refused or not written
LEMMA ChunkFailsInv ==
  ASSUME UploadInv, handler = "on_chunk", ~ota_rx_done(rx), NEW block \in Block,
         ChunkFails(block), UNCHANGED <<off, boot_partition>>
  PROVE  UploadInv'
<1>1. up_state = "UP_DATA" /\ Placed /\ ~off
  BY DEF UploadInv, CarFollowsUpload, Receiving
<1>2. rx' \in Rx /\ flash' \in [Pages -> PageStates] /\ RunningImageUntouched'
  <2>1. CASE BlockStatus(rx, block) = "OTA_OK"
    <3>1. rx' = ota_rx_next(rx, block)
      BY <2>1 DEF ChunkFails
    <3>2. rx' \in Rx
      <4>1. rx \in Rx /\ RxInv(rx) /\ FlashInv(rx) /\ flash \in [Pages -> PageStates]
        BY <1>1 DEF UploadInv, TypeOK, Placed
      <4>2. PICK i \in DOMAIN Partitions : ForSlot(rx, i)
        BY <1>1 DEF Placed
      <4> QED BY <2>1, <3>1, <4>1, <4>2, BlockPages
    <3>3. CASE flash' = flash
      BY <3>2, <3>3 DEF UploadInv, TypeOK, RunningImageUntouched
    <3>4. CASE flash' = WriteFails(ota_write(rx, block))
      BY <1>1, <2>1, <3>1, <3>2, <3>4, PageFailed DEF UploadInv
    <3> QED BY <2>1, <3>3, <3>4 DEF ChunkFails
  <2>2. CASE BlockStatus(rx, block) # "OTA_OK"
    BY <2>2 DEF ChunkFails, UploadInv, TypeOK, RunningImageUntouched
  <2> QED BY <2>1, <2>2
<1>3. FailedCallback /\ handler' = "none" /\ left' = 0 /\ UNCHANGED <<buf_len, idle>>
  BY DEF ChunkFails, LeaveChunk
<1>4. TypeOK'
  BY <1>2, <1>3, FailedFrees, Sizes, LaterRange DEF UploadInv, TypeOK, UpStates
<1> QED BY <1>1, <1>2, <1>3, <1>4, FailedFrees, CarFreed

\* on_chunk() on a block that is written: the image is not whole yet when it
\* is, and there is some of it after.
LEMMA ChunkWritesInv ==
  ASSUME UploadInv, handler = "on_chunk", left > 0, ~ota_rx_done(rx), NEW block \in Block,
         ChunkWrites(block), UNCHANGED <<off, boot_partition>>
  PROVE  UploadInv' /\ NewPages' # {}
<1>1. up_state = "UP_DATA" /\ Placed /\ ~off
  BY DEF UploadInv, CarFollowsUpload, Receiving
<1>2. /\ rx' \in Rx /\ flash' \in [Pages -> PageStates]
      /\ Placed' /\ RunningImageUntouched' /\ NewPages' # {}
  BY <1>1, PageWritten DEF ChunkWrites, UploadInv
<1>3. left' \in 0 .. CHUNK_BLOCKS
  BY Sizes DEF ChunkWrites, UploadInv, TypeOK
<1>4. UNCHANGED serverVars /\ handler' = handler /\ callback' = callback
  BY DEF ChunkWrites
<1>5. TypeOK'
  BY <1>2, <1>3, <1>4 DEF UploadInv, TypeOK, serverVars
<1>6. CarFollowsUpload'
  BY <1>4 DEF UploadInv, CarFollowsUpload, serverVars
<1> QED BY <1>1, <1>2, <1>4, <1>5, <1>6 DEF UploadInv, serverVars

\* The size of an image that is being written.
LEMMA ImageSize ==
  ASSUME TypeOK, Placed
  PROVE  /\ rx.num_blocks \in Nat /\ rx.next_block \in Nat /\ rx.num_blocks > 0
         /\ Cardinality(NewPages) = rx.next_block /\ rx.next_block <= rx.num_blocks
         /\ ota_rx_done(rx) <=> rx.next_block = rx.num_blocks
<1>1. rx \in Rx /\ RxInv(rx) /\ FlashInv(rx)
  BY DEF TypeOK, Placed
<1> QED BY <1>1, RxFields DEF RxInv, FlashInv, ota_rx_done

\* on_chunk() after its loop
LEMMA ChunkEndsInv ==
  ASSUME UploadInv, ChunkEnds
  PROVE  UploadInv'
<1> USE DEF ChunkEnds, LeaveChunk, set_state, close_client
<1>1. up_state = "UP_DATA" /\ Placed /\ ~off /\ TypeOK
  BY DEF UploadInv, CarFollowsUpload, Receiving
<1>2. callback' \in [aborted : BOOLEAN, returned : {"ERR_OK", "ERR_ABRT"}]
  <2>1. CASE ota_rx_done(rx)
    <3>1. PICK aborted \in BOOLEAN : Returned(aborted, IF aborted THEN "ERR_ABRT" ELSE "ERR_OK")
      BY <2>1
    <3>2. (IF aborted THEN "ERR_ABRT" ELSE "ERR_OK") \in {"ERR_OK", "ERR_ABRT"}
      OBVIOUS
    <3> QED BY <3>1, <3>2, ReturnedType
  <2>2. CASE ~ota_rx_done(rx)
    <3>1. Returned(FALSE, "ERR_OK")
      BY <2>2
    <3> QED BY <3>1, ReturnedType
  <2> QED BY <2>1, <2>2
<1>3. TypeOK'
  <2>1. client' \in BOOLEAN /\ up_state' \in UpStates /\ age' \in 0 .. MAX_TICKS
    BY <1>1, LaterRange DEF TypeOK, UpStates
  <2>2. buf_len' \in 0 .. CHUNK_SIZE /\ left' \in 0 .. CHUNK_BLOCKS
    BY Sizes
  <2> QED BY <1>1, <1>2, <2>1, <2>2 DEF TypeOK
<1>4. CarFollowsUpload'
  BY <1>1 DEF UploadInv, CarFollowsUpload
<1>5. ota_rx_done(rx) => rx.next_block = rx.num_blocks
  BY <1>1, ImageSize
<1> QED BY <1>1, <1>3, <1>4, <1>5, ControlOnly DEF UploadInv, Receiving

\* on_tick()
LEMMA OnTickInv ==
  ASSUME UploadInv, OnTick
  PROVE  UploadInv'
<1>1. /\ UNCHANGED <<rx, flash, boot_partition, handler, left, callback>>
      /\ handler = "none" /\ ~off /\ TypeOK
  BY DEF OnTick, Running, chunkVars, UploadInv
<1>2. CASE Settle
  <2> USE <1>1, <1>2 DEF Settle, set_state
  <2>1. TypeOK'
    BY Sizes, LaterRange DEF TypeOK, UpStates
  <2>2. CarFollowsUpload'
    BY DEF UploadInv, CarFollowsUpload
  <2> QED BY <2>1, <2>2, ControlOnly DEF UploadInv, Receiving
<1>3. CASE Stall
  <2> USE <1>1, <1>3 DEF Stall, fail, set_state, close_client, resume_car
  <2>1. TypeOK'
    BY LaterRange DEF TypeOK, UpStates
  <2>2. RunningImageUntouched'
    BY SameReceiver DEF UploadInv
  <2> QED BY <2>1, <2>2, CarFreed
<1>4. CASE Reboot
  <2> USE <1>1, <1>4 DEF Reboot, serverVars
  <2>1. TypeOK'
    BY DEF TypeOK
  <2>2. CarFollowsUpload'
    BY DEF UploadInv, CarFollowsUpload
  <2> QED BY <2>1, <2>2, ControlOnly DEF UploadInv, Receiving
<1>5. CASE Wait
  <2> USE <1>1, <1>5 DEF Wait
  <2>1. TypeOK'
    BY LaterRange DEF TypeOK
  <2>2. CarFollowsUpload'
    BY DEF UploadInv, CarFollowsUpload
  <2> QED BY <2>1, <2>2, ControlOnly DEF UploadInv, Receiving
<1> QED BY <1>2, <1>3, <1>4, <1>5 DEF OnTick

\* Zeroed memory, and a flash that no upload has touched, are a good start.
LEMMA FreshStart ==
  /\ Init => UploadInv
  /\ Restart => UploadInv'
<1>1. RxZero \in Rx /\ Untouched \in [Pages -> PageStates]
      /\ NoCallback \in [aborted : BOOLEAN, returned : {"ERR_OK", "ERR_ABRT"}]
  <2>1. 0 \in Words
    BY Numbers DEF Words
  <2> QED BY <2>1 DEF RxZero, Rx, Untouched, PageStates, NoCallback
<1>2. \A p \in Pages : Untouched[p] = "old"
  BY DEF Untouched
<1>3. Init => UploadInv
  <2> SUFFICES ASSUME Init PROVE UploadInv
    OBVIOUS
  <2>1. /\ up_state \in UpStates /\ client \in BOOLEAN /\ car_stopped \in BOOLEAN
        /\ off \in BOOLEAN /\ handler \in {"none", "on_chunk"}
        /\ rx \in Rx /\ flash \in [Pages -> PageStates]
        /\ callback \in [aborted : BOOLEAN, returned : {"ERR_OK", "ERR_ABRT"}]
        /\ boot_partition \in DOMAIN Partitions \cup {-1}
    BY <1>1 DEF Init, UpStates
  <2>2. /\ buf_len \in 0 .. CHUNK_SIZE /\ left \in 0 .. CHUNK_BLOCKS
        /\ age \in 0 .. MAX_TICKS /\ idle \in 0 .. MAX_TICKS
    BY Sizes, LaterRange DEF Init
  <2>3. TypeOK
    BY <2>1, <2>2 DEF TypeOK
  <2> QED BY <1>2, <2>3
          DEF Init, UploadInv, CarFollowsUpload, RunningImageUntouched, Receiving
<1>4. Restart => UploadInv'
  <2> SUFFICES ASSUME Restart PROVE UploadInv'
    OBVIOUS
  <2>1. /\ up_state' \in UpStates /\ client' \in BOOLEAN /\ car_stopped' \in BOOLEAN
        /\ off' \in BOOLEAN /\ handler' \in {"none", "on_chunk"}
        /\ rx' \in Rx /\ flash' \in [Pages -> PageStates]
        /\ callback' \in [aborted : BOOLEAN, returned : {"ERR_OK", "ERR_ABRT"}]
        /\ boot_partition' \in DOMAIN Partitions \cup {-1}
    BY <1>1 DEF Restart, UpStates
  <2>2. /\ buf_len' \in 0 .. CHUNK_SIZE /\ left' \in 0 .. CHUNK_BLOCKS
        /\ age' \in 0 .. MAX_TICKS /\ idle' \in 0 .. MAX_TICKS
    BY Sizes, LaterRange DEF Restart
  <2>3. TypeOK'
    BY <2>1, <2>2 DEF TypeOK
  <2> QED BY <1>2, <2>3
          DEF Restart, UploadInv, CarFollowsUpload, RunningImageUntouched, Receiving
<1> QED BY <1>3, <1>4

\* A step that changes nothing.
LEMMA StutterInv ==
  ASSUME UploadInv, UNCHANGED vars
  PROVE  UploadInv'
<1> USE DEF vars, serverVars, chunkVars
<1>1. TypeOK'
  BY DEF UploadInv, TypeOK
<1>2. CarFollowsUpload'
  BY DEF UploadInv, CarFollowsUpload
<1> QED BY <1>1, <1>2, ControlOnly DEF UploadInv, Receiving

\* Every step of the server keeps the invariant.
LEMMA UploadInvNext ==
  ASSUME UploadInv, [Next]_vars
  PROVE  UploadInv'
<1>1. CASE OnRecv
  <2>1. Receives
    BY <1>1 DEF OnRecv, Receives
  <2>2. 1 .. HEADER_SIZE + CHUNK_SIZE \subseteq Nat /\ Headers \subseteq Header
    BY UploadAssumption
  <2> QED BY <1>1, <2>1, <2>2, RecvTooMuchInv, RecvPartInv, RecvChunkInv, RecvHeaderInv
          DEF OnRecv
<1>2. CASE ChunkBlock
  <2>1. Blocks \subseteq Block
    BY UploadAssumption
  <2> QED BY <1>2, <2>1, ChunkFailsInv, ChunkWritesInv DEF ChunkBlock
<1> QED BY <1>1, <1>2, OnAcceptInv, OnRecvClosedInv, OnTcpErrInv, ChunkEndsInv, OnTickInv,
           FreshStart, StutterInv DEF Next

\* What follows from the invariant.
LEMMA UploadInvImplies ==
  ASSUME UploadInv
  PROVE  TypeOK /\ CarFollowsUpload /\ ImageIntact /\ RunningImageUntouched
<1>1. Receiving => Placed
  BY DEF UploadInv
<1>2. Placed => /\ Cardinality(NewPages) = rx.next_block
                /\ \A p \in Pages : flash[p] \in {"old", "blank", "new"}
  BY DEF Placed, FlashInv
<1> QED BY <1>1, <1>2 DEF UploadInv, Receiving, ImageIntact

-----------------------------------------------------------------------------
(* The server implements UpdateSession. *)

\* How much of the image is there.
LEMMA ImageIs ==
  ASSUME UploadInv
  PROVE  /\ ~car_stopped => Image = "none"
         /\ car_stopped => (Image = "whole" <=> ota_rx_done(rx))
<1>1. car_stopped => Placed /\ TypeOK
  BY DEF UploadInv, CarFollowsUpload, Receiving
<1>2. car_stopped => (Image = "whole" <=> ota_rx_done(rx))
  <2> SUFFICES ASSUME car_stopped PROVE Image = "whole" <=> ota_rx_done(rx)
    OBVIOUS
  <2>1. /\ rx.num_blocks \in Nat /\ rx.next_block \in Nat /\ rx.num_blocks > 0
        /\ Cardinality(NewPages) = rx.next_block /\ rx.next_block <= rx.num_blocks
        /\ ota_rx_done(rx) <=> rx.next_block = rx.num_blocks
    BY <1>1, ImageSize
  <2>2. NewPages = {} => Cardinality(NewPages) = 0
    BY FS_EmptySet
  <2> QED BY <2>1, <2>2 DEF Image
<1> QED BY <1>2 DEF Image

\* fail(), or the loss of the PC, in any state is Refuse or Cancel: the image
\* is not whole.
LEMMA FreesMaps ==
  ASSUME UploadInv, UploadInv', ~off, ~off', up_state \in {"UP_HEADER", "UP_STOPPING", "UP_DATA"},
         handler = "on_chunk" => ~ota_rx_done(rx), up_state' = "UP_IDLE"
  PROVE  Update!Refuse \/ Update!Cancel
<1>1. ~car_stopped' /\ Phase' = "idle" /\ Image' = "none"
  BY DEF UploadInv, CarFollowsUpload, Phase, Image
<1>2. CASE up_state = "UP_HEADER"
  BY <1>1, <1>2 DEF UploadInv, CarFollowsUpload, Phase, Image, Update!Refuse
<1>3. CASE up_state \in {"UP_STOPPING", "UP_DATA"}
  <2>1. ~ota_rx_done(rx)
    BY <1>3 DEF UploadInv, TypeOK
  <2>2. Image # "whole"
    BY <1>3, <2>1, ImageIs DEF UploadInv, CarFollowsUpload
  <2>3. Phase \in {"stopping", "writing"}
    BY <1>3 DEF Phase
  <2> QED BY <1>1, <2>2, <2>3 DEF Update!Cancel
<1> QED BY <1>2, <1>3

\* Without a change of these the update does not see the step.
LEMMA StutterMaps ==
  ASSUME UNCHANGED <<up_state, car_stopped, off, rx, flash, boot_partition>>
  PROVE  UNCHANGED <<Phase, Image>>
<1>1. Image' = Image
  BY SameReceiver DEF Image
<1> QED BY <1>1 DEF Phase

\* Received data is a good header, or leaves what the update sees alone, or
\* ends the upload.
LEMMA RecvMaps ==
  ASSUME UploadInv, UploadInv', Receives, NEW n \in 1 .. HEADER_SIZE + CHUNK_SIZE,
         \/ RecvTooMuch(n) \/ RecvPart(n) \/ RecvChunk(n)
         \/ \E h \in Header, target \in DOMAIN Partitions \cup {-1} : RecvHeader(n, h, target)
  PROVE  Update!Next \/ UNCHANGED <<Phase, Image>>
<1>1. ~off /\ ~off' /\ handler = "none" /\ client
  BY DEF Receives, Running
<1>2. up_state \in {"UP_HEADER", "UP_STOPPING", "UP_DATA"}
  BY <1>1 DEF UploadInv, CarFollowsUpload
<1>3. CASE up_state' = "UP_IDLE"
  BY <1>1, <1>2, <1>3, FreesMaps DEF Update!Next
<1>4. CASE up_state' # "UP_IDLE" /\ (RecvTooMuch(n) \/ RecvPart(n) \/ RecvChunk(n))
  <2>1. ~RecvTooMuch(n)
    BY <1>4, FailedFrees DEF RecvTooMuch
  <2>2. UNCHANGED <<up_state, car_stopped, off, rx, flash, boot_partition>>
    BY <1>4, <2>1 DEF RecvPart, RecvChunk, Receives
  <2> QED BY <2>2, StutterMaps
<1>5. ASSUME up_state' # "UP_IDLE", NEW h \in Header,
             NEW target \in DOMAIN Partitions \cup {-1}, RecvHeader(n, h, target)
      PROVE  Update!StopCar
  <2>1. up_state = "UP_HEADER" /\ up_state' = "UP_STOPPING"
    BY <1>5, FailedFrees DEF RecvHeader, set_state
  <2>2. n \in Nat
    BY UploadAssumption
  <2>3. NewPages' = {}
    BY <1>5, <2>1, <2>2, RecvHeaderInv DEF Receiving
  <2>4. Image' = "none"
    BY <2>3 DEF Image
  <2> QED BY <1>1, <2>1, <2>4 DEF Phase, Update!StopCar
<1> QED BY <1>3, <1>4, <1>5 DEF Update!Next

\* A block is a Write, or ends the upload.
LEMMA BlockMaps ==
  ASSUME UploadInv, UploadInv', handler = "on_chunk", left > 0, ~ota_rx_done(rx),
         UNCHANGED <<off, boot_partition>>, NEW block \in Block,
         ChunkFails(block) \/ ChunkWrites(block)
  PROVE  Update!Next
<1>1. up_state = "UP_DATA" /\ ~off /\ car_stopped
  BY DEF UploadInv, CarFollowsUpload
<1>2. CASE ChunkFails(block)
  BY <1>1, <1>2, FailedFrees, FreesMaps DEF ChunkFails, Update!Next
<1>3. CASE ChunkWrites(block)
  <2>1. NewPages' # {}
    BY <1>3, ChunkWritesInv
  <2>2. UNCHANGED <<up_state, car_stopped, off>>
    BY <1>3 DEF ChunkWrites, serverVars
  <2>3. Image' \in {"part", "whole"}
    BY <1>1, <2>1, <2>2 DEF Image
  <2>4. Image # "whole"
    BY <1>1, ImageIs
  <2>5. Phase = "writing" /\ Phase' = "writing"
    BY <1>1, <2>2 DEF Phase
  <2> QED BY <2>3, <2>4, <2>5 DEF Update!Write, Update!Next
<1> QED BY <1>2, <1>3

\* The server starts where the update starts.
LEMMA StartMaps == Init => Update!Init
<1> SUFFICES ASSUME Init PROVE Update!Init
  OBVIOUS
<1> QED BY DEF Init, Update!Init, Phase, Image

\* Every callback is a step of the update, or none.
LEMMA StepMaps ==
  ASSUME UploadInv, UploadInv', [Next]_vars
  PROVE  [Update!Next]_(Update!vars)
<1> SUFFICES Update!Next \/ UNCHANGED <<Phase, Image>>
  BY DEF Update!vars
<1>1. CASE OnAccept
  <2>1. ~off /\ off' = off /\ UNCHANGED <<rx, flash, boot_partition, car_stopped>>
    BY <1>1 DEF OnAccept, Running, serverVars
  <2>2. Image' = Image
    BY <2>1, SameReceiver DEF Image
  <2>3. CASE UNCHANGED up_state
    BY <2>1, <2>3, StutterMaps
  <2>4. CASE up_state' # up_state
    <3>1. up_state = "UP_IDLE" /\ up_state' = "UP_HEADER"
      BY <1>1, <2>4 DEF OnAccept, serverVars, set_state
    <3> QED BY <2>1, <2>2, <3>1 DEF Phase, Update!Accept, Update!Next
  <2> QED BY <2>3, <2>4
<1>2. CASE OnRecv
  <2>1. PICK n \in 1 .. HEADER_SIZE + CHUNK_SIZE :
          \/ RecvTooMuch(n) \/ RecvPart(n) \/ RecvChunk(n)
          \/ \E h \in Headers, target \in DOMAIN Partitions \cup {-1} : RecvHeader(n, h, target)
    BY <1>2 DEF OnRecv
  <2>2. Receives /\ Headers \subseteq Header
    BY <1>2, UploadAssumption DEF OnRecv, Receives
  <2> QED BY <2>1, <2>2, RecvMaps
<1>3. CASE OnRecvClosed \/ OnTcpErr
  <2>1. ~off /\ ~off' /\ handler = "none" /\ client
    BY <1>3 DEF OnRecvClosed, OnTcpErr, Running
  <2>2. up_state \in {"UP_HEADER", "UP_STOPPING", "UP_DATA"}
    BY <2>1 DEF UploadInv, CarFollowsUpload
  <2>3. up_state' = "UP_IDLE"
    BY <1>3, <2>2 DEF OnRecvClosed, OnTcpErr, set_state
  <2> QED BY <2>1, <2>2, <2>3, FreesMaps DEF Update!Next
<1>4. CASE ChunkBlock
  <2>1. Blocks \subseteq Block
    BY UploadAssumption
  <2> QED BY <1>4, <2>1, BlockMaps DEF ChunkBlock
<1>5. CASE ChunkEnds
  <2>1. /\ UNCHANGED <<rx, flash, boot_partition, car_stopped, off>>
        /\ up_state = "UP_DATA" /\ ~off /\ car_stopped
    BY <1>5 DEF ChunkEnds, UploadInv, CarFollowsUpload
  <2>2. Image' = Image
    BY <2>1, SameReceiver DEF Image
  <2>3. CASE ota_rx_done(rx)
    <3>1. up_state' = "UP_REBOOT"
      BY <1>5, <2>3 DEF ChunkEnds, set_state
    <3>2. Image = "whole"
      BY <2>1, <2>3, ImageIs
    <3> QED BY <2>1, <2>2, <3>1, <3>2 DEF Phase, Update!Finish, Update!Next
  <2>4. CASE ~ota_rx_done(rx)
    <3>1. up_state' = up_state
      BY <1>5, <2>4 DEF ChunkEnds
    <3> QED BY <2>1, <3>1, StutterMaps
  <2> QED BY <2>3, <2>4
<1>6. CASE OnTick
  <2>1. UNCHANGED <<rx, flash, boot_partition>> /\ ~off /\ handler = "none"
    BY <1>6 DEF OnTick, Running
  <2>2. CASE Settle
    <3>1. up_state = "UP_STOPPING" /\ up_state' = "UP_DATA" /\ UNCHANGED <<car_stopped, off>>
      BY <2>2 DEF Settle, set_state
    <3>2. Image' = Image
      BY <2>1, <3>1, SameReceiver DEF Image
    <3> QED BY <2>1, <3>1, <3>2 DEF Phase, Update!Settle, Update!Next
  <2>3. CASE Stall
    <3>1. up_state \in {"UP_HEADER", "UP_DATA"} /\ up_state' = "UP_IDLE" /\ ~off'
      BY <2>1, <2>3 DEF Stall, fail, set_state
    <3> QED BY <2>1, <3>1, FreesMaps DEF Update!Next
  <2>4. CASE Reboot
    <3>1. up_state = "UP_REBOOT" /\ off' /\ UNCHANGED <<up_state, car_stopped>>
      BY <2>4 DEF Reboot, serverVars
    <3>2. Image' = Image
      BY <2>1, <3>1, SameReceiver DEF Image
    <3> QED BY <2>1, <3>1, <3>2 DEF Phase, Update!Reboot, Update!Next
  <2>5. CASE Wait
    <3>1. UNCHANGED <<up_state, car_stopped, off>>
      BY <2>5 DEF Wait
    <3> QED BY <2>1, <3>1, StutterMaps
  <2> QED BY <1>6, <2>2, <2>3, <2>4, <2>5 DEF OnTick
<1>7. CASE Restart
  <2>1. up_state' = "UP_IDLE" /\ ~off' /\ ~car_stopped'
    BY <1>7 DEF Restart
  <2> QED BY <2>1 DEF Phase, Image, Update!Restart, Update!Next
<1>8. CASE UNCHANGED vars
  <2>1. UNCHANGED <<up_state, car_stopped, off, rx, flash, boot_partition>>
    BY <1>8 DEF vars, serverVars
  <2> QED BY <2>1, StutterMaps
<1> QED BY <1>1, <1>2, <1>3, <1>4, <1>5, <1>6, <1>7, <1>8 DEF Next

-----------------------------------------------------------------------------
\* The receiver, the flash and the state of the server agree at all times.
THEOREM UploadInvariant == Spec => []UploadInv
<1>1. Init => UploadInv
  BY FreshStart
<1> QED BY <1>1, UploadInvNext, PTL DEF Spec

\* The types of all that the server keeps: above all, its buffer never holds
\* more than a header and a chunk.
THEOREM UploadTypes == Spec => []TypeOK
BY UploadInvariant, UploadInvImplies, PTL

\* However an upload ends, the car is not left stopped and the server not
\* left deaf: car_stopped, the connection and the state go together.
THEOREM UploadFreesCar == Spec => []CarFollowsUpload
BY UploadInvariant, UploadInvImplies, PTL

\* What is in the slot is what was sent: every block counted is a page
\* written on an erased one and not erased again, and the server reboots only
\* with all of them there, for any geometry of the flash and any header and
\* blocks.
THEOREM UploadImageIntact == Spec => []ImageIntact
BY UploadInvariant, UploadInvImplies, PTL

\* No block of any upload, whatever it asks for, erases or writes a page
\* outside the partition that the car does not run from.
THEOREM UploadSparesRunningImage == Spec => []RunningImageUntouched
BY UploadInvariant, UploadInvImplies, PTL

\* The server implements the abstract update: every callback is one of its
\* steps or invisible to it, so what is proved of the car with UpdateSession
\* holds with the server.
THEOREM UploadImplementsUpdate == Spec => UpdateSpec
<1>1. Init => Update!Init
  BY StartMaps
<1>2. UploadInv /\ UploadInv' /\ [Next]_vars => [Update!Next]_(Update!vars)
  BY StepMaps
<1> QED BY <1>1, <1>2, UploadInvariant, PTL DEF Spec, UpdateSpec, Update!Spec
=============================================================================
