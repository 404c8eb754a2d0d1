----------------------------- MODULE PagingProofs -----------------------------
(***************************************************************************)
(* Theorems about Paging: user code reaches its own page and the vidmap    *)
(* page and nothing else, and the kernel stays mapped to itself, for any   *)
(* number of processes and terminals, and whatever the TLB remembers.      *)
(***************************************************************************)
EXTENDS Paging, NaturalsInduction, WellFoundedInduction, TLAPS

\* The directory and the tables once paging is on: four areas are fixed at boot,
\* but for the page behind vidmap, and the fifth follows the process.
Large(frame, us) == [kind |-> "large", page |-> [to |-> frame, us |-> us]]

Layout ==
    /\ page_directory["kernel"] = Large(KERNEL_ADDR, 0)
    /\ page_directory["tables"] = Large(PAGE_TABLE_STARTADDR, 0)
    /\ page_directory["video"] = [kind |-> "table", us |-> 0]
    /\ page_table["video"] = [i \in Index |-> [to |-> <<"video", i>>, us |-> 0]]
    /\ page_directory["vidmap"] = [kind |-> "table", us |-> 1]
    /\ page_table["vidmap"] = [Empty EXCEPT ![0] = [to |-> screen, us |-> 1]]
    /\ page_directory["program"] = IF mode = "boot" THEN Absent ELSE Large(page, 1)

\* What the TLB remembers is still so, but for the program page inside sys_halt.
Remembered ==
    \A virt \in Addresses :
        tlb[virt] \in {None, resolve_virt_addr(virt)} \/ (mode = "halt" /\ virt[1] = "program")

IInv == TypeOK /\ IF mode = "off" THEN screen = <<"video", 0>> ELSE Layout /\ Remembered
-----------------------------------------------------------------------------
(* Constants, entries and map_page. *)

LEMMA Numbers ==
    0 \in 0 .. 1 /\ 1 \in 0 .. 1 /\ 0 \in Index /\ MAX_TERM_NUM \in Index
    /\ Index = 0 .. MAX_TERM_NUM
BY PagingAssumption DEF Index

LEMMA AreaFacts ==
    /\ PROGRAM_VIRT[1] = "program" /\ PROGRAM_VIRT[2] = 0 /\ PROGRAM_VIRT \in Addresses
    /\ VIDMAP_VIRT_ADDR[1] = "vidmap" /\ VIDMAP_VIRT_ADDR[2] = 0 /\ VIDMAP_VIRT_ADDR \in Addresses
    /\ KERNEL_ADDR[1] = "kernel" /\ KERNEL_ADDR \in Addresses
    /\ PAGE_TABLE_STARTADDR[1] = "tables" /\ PAGE_TABLE_STARTADDR \in Addresses
BY Numbers DEF PROGRAM_VIRT, VIDMAP_VIRT_ADDR, KERNEL_ADDR, PAGE_TABLE_STARTADDR, Addresses, Areas

\* An entry that maps something is not the empty one.
LEMMA EntryNotNone ==
    \A to, us : [to |-> to, us |-> us] # None
<1> SUFFICES ASSUME NEW to, NEW us, [to |-> to, us |-> us] = None PROVE FALSE
  OBVIOUS
<1>1. DOMAIN [to |-> to, us |-> us] = {"to", "us"} /\ DOMAIN None = {"to"}
  BY DEF None
<1> QED
  BY <1>1

LEMMA EntryTypes ==
    /\ \A frame \in Frames, us \in 0 .. 1 :
          [to |-> frame, us |-> us] \in Translation /\ Large(frame, us) \in Entry
    /\ \A us \in 0 .. 1 : [kind |-> "table", us |-> us] \in Entry
    /\ Absent \in Entry /\ None \in Translation /\ Empty \in [Index -> Translation]
BY DEF Translation, Large, Entry, Empty

\* The memory map_page works on.
Memories == [dir : [Areas -> Entry], tab : [Areas -> [Index -> Translation]]]

\* m with another entry d for area a, and otherwise the same.
OtherArea(m, r, a, d) ==
    r.dir[a] = d /\ \A b \in Areas \ {a} : r.dir[b] = m.dir[b] /\ r.tab[b] = m.tab[b]

\* A large page in an area that is remapped, or free.
LEMMA MapLarge ==
    ASSUME NEW m \in Memories, NEW phys, NEW a \in Areas, NEW i \in Index, NEW us, NEW r,
           \/ r = map_page(m, phys, <<a, i>>, 1, us, 1)
           \/ m.dir[a] = Absent /\ r = map_page(m, phys, <<a, i>>, 1, us, 0)
    PROVE  OtherArea(m, r, a, Large(phys, us)) /\ r.tab = m.tab
BY DEF map_page, Memories, Large, Absent, OtherArea

\* A small page in an area that is remapped, or free: the table starts anew.
LEMMA MapSmall ==
    ASSUME NEW m \in Memories, NEW phys, NEW a \in Areas, NEW i \in Index, NEW us, NEW r,
           \/ r = map_page(m, phys, <<a, i>>, 0, us, 1)
           \/ m.dir[a] = Absent /\ r = map_page(m, phys, <<a, i>>, 0, us, 0)
    PROVE  /\ OtherArea(m, r, a, [kind |-> "table", us |-> us])
           /\ r.tab[a][i] = [to |-> phys, us |-> us]
           /\ \A j \in Index \ {i} : r.tab[a][j] = None
<1> DEFINE new == [Empty EXCEPT ![i] = [to |-> phys, us |-> us]]
<1>1. r = [m EXCEPT !.dir[a] = [kind |-> "table", us |-> us], !.tab[a] = new]
  BY DEF map_page, Absent
<1>2. new[i] = [to |-> phys, us |-> us] /\ \A j \in Index \ {i} : new[j] = None
  BY DEF Empty
<1> HIDE DEF new
<1>3. /\ r.dir = [m.dir EXCEPT ![a] = [kind |-> "table", us |-> us]]
      /\ r.tab = [m.tab EXCEPT ![a] = new]
  BY <1>1 DEF Memories
<1>4. m.dir \in [Areas -> Entry] /\ m.tab \in [Areas -> [Index -> Translation]]
  BY DEF Memories
<1>5. r.dir[a] = [kind |-> "table", us |-> us] /\ \A b \in Areas \ {a} : r.dir[b] = m.dir[b]
  BY <1>3, <1>4
<1>6. r.tab[a] = new /\ \A b \in Areas \ {a} : r.tab[b] = m.tab[b]
  BY <1>3, <1>4
<1> QED
  BY <1>2, <1>5, <1>6 DEF OtherArea

\* A small page in a table that has no entry for it.
LEMMA MapMore ==
    ASSUME NEW m \in Memories, NEW phys, NEW a \in Areas, NEW i \in Index, NEW us, NEW r,
           m.dir[a].kind = "table", m.tab[a][i] = None,
           r = map_page(m, phys, <<a, i>>, 0, us, 0)
    PROVE  /\ OtherArea(m, r, a, m.dir[a])
           /\ r.tab[a][i] = [to |-> phys, us |-> us]
           /\ \A j \in Index \ {i} : r.tab[a][j] = m.tab[a][j]
<1>1. m.dir[a].kind = "table" /\ "table" # "absent"
  OBVIOUS
<1>2. r = [m EXCEPT !.tab[a][i] = [to |-> phys, us |-> us]]
  BY <1>1 DEF map_page
<1>3. r.dir = m.dir /\ r.tab = [m.tab EXCEPT ![a][i] = [to |-> phys, us |-> us]]
  BY <1>2 DEF Memories
<1>4. m.tab \in [Areas -> [Index -> Translation]]
  BY DEF Memories
<1>5. r.tab[a][i] = [to |-> phys, us |-> us]
  BY <1>3, <1>4
<1>6. \A j \in Index \ {i} : r.tab[a][j] = m.tab[a][j]
  <2>1. r.tab[a] = [m.tab[a] EXCEPT ![i] = [to |-> phys, us |-> us]]
    BY <1>3, <1>4
  <2>2. m.tab[a] \in [Index -> Translation]
    BY <1>4
  <2> QED
    BY <2>1, <2>2
<1>7. \A b \in Areas \ {a} : r.tab[b] = m.tab[b]
  BY <1>3, <1>4
<1> QED
  BY <1>3, <1>5, <1>6, <1>7 DEF OtherArea

\* Memories that agree everywhere are the same.
LEMMA SameMemory ==
    ASSUME NEW m \in Memories, NEW r \in Memories, \A a \in Areas : m.dir[a] = r.dir[a],
           \A a \in Areas : \A j \in Index : m.tab[a][j] = r.tab[a][j]
    PROVE  m = r
BY DEF Memories

\* map_page returns a directory and tables again.
LEMMA MapType ==
    ASSUME NEW m \in Memories, NEW phys \in Frames, NEW virt \in Addresses,
           NEW size \in 0 .. 1, NEW us \in 0 .. 1, NEW remap \in 0 .. 1
    PROVE  map_page(m, phys, virt, size, us, remap) \in Memories
<1>1. /\ [to |-> phys, us |-> us] \in Translation /\ Empty \in [Index -> Translation]
      /\ [kind |-> "large", page |-> [to |-> phys, us |-> us]] \in Entry
      /\ [kind |-> "table", us |-> us] \in Entry
  BY EntryTypes DEF Large
<1>2. virt[1] \in Areas /\ virt[2] \in Index
  BY DEF Addresses
<1> QED
  BY <1>1, <1>2 DEF map_page, Memories

-----------------------------------------------------------------------------
(* paging_init. *)

\* The least element of a set of numbers.
LEMMA Least ==
    ASSUME NEW T \in SUBSET Nat, T # {}
    PROVE  \E x \in T : \A y \in T : x <= y
<1> DEFINE R == {ss \in Nat \X Nat : ss[1] < ss[2]}
<1>1. IsWellFoundedOn(R, Nat)
  BY NatLessThanWellFounded DEF OpToRel
<1> HIDE DEF R
<1>2. PICK x \in T : \A y \in T : ~(<<y, x>> \in R)
  BY <1>1, WFMin
<1>3. \A y \in T : ~(y < x)
  BY <1>2 DEF R
<1> QED
  BY <1>3

\* The memory with the kernel mapped and the video pages up to i.
VideoTo(i) ==
    [dir |-> [a \in Areas |-> CASE a = "kernel" -> Large(KERNEL_ADDR, 0)
                                [] a = "video" /\ i >= 0 -> [kind |-> "table", us |-> 0]
                                [] OTHER -> Absent],
     tab |-> [a \in Areas |-> [j \in Index |->
                 IF a = "video" /\ i >= 0
                   THEN IF j <= i THEN [to |-> <<"video", j>>, us |-> 0] ELSE None
                   ELSE page_table[a][j]]]]

LEMMA VideoToType ==
    ASSUME TypeOK, NEW i
    PROVE  VideoTo(i) \in Memories
<1>1. \A j \in Index : [to |-> <<"video", j>>, us |-> 0] \in Translation
  BY EntryTypes, Numbers DEF Frames, Addresses, Areas
<1>2. [kind |-> "table", us |-> 0] \in Entry /\ None \in Translation /\ Absent \in Entry
      /\ Large(KERNEL_ADDR, 0) \in Entry
  BY EntryTypes, AreaFacts, Numbers DEF Frames
<1> QED
  BY <1>1, <1>2 DEF VideoTo, Memories, TypeOK

LEMMA KernelIsMapped == ASSUME TypeOK PROVE KernelMapped = VideoTo(-1)
<1> DEFINE m == [dir |-> [a \in Areas |-> Absent], tab |-> page_table]
<1>1. m \in Memories /\ m.tab = page_table /\ \A a \in Areas : m.dir[a] = Absent
  BY EntryTypes DEF Memories, TypeOK
<1> HIDE DEF m
<1>2. KernelMapped = map_page(m, KERNEL_ADDR, KERNEL_ADDR, 1, 0, 0)
  BY DEF KernelMapped, m
<1>3. "kernel" \in Areas /\ m.dir["kernel"] = Absent
  BY <1>1 DEF Areas
<1>4. /\ OtherArea(m, KernelMapped, "kernel", Large(KERNEL_ADDR, 0))
      /\ KernelMapped.tab = page_table
  BY <1>1, <1>2, <1>3, MapLarge, Numbers DEF KERNEL_ADDR
<1>5. KernelMapped \in Memories /\ VideoTo(-1) \in Memories
  BY <1>1, <1>2, MapType, AreaFacts, VideoToType DEF Frames
<1>6. \A a \in Areas : KernelMapped.dir[a] = VideoTo(-1).dir[a]
  BY <1>1, <1>4 DEF OtherArea, VideoTo
<1>7. \A a \in Areas : \A j \in Index : KernelMapped.tab[a][j] = VideoTo(-1).tab[a][j]
  BY <1>4 DEF VideoTo
<1> QED
  BY <1>5, <1>6, <1>7, SameMemory

\* The loop maps one video page more each time.
LEMMA VideoStep ==
    ASSUME TypeOK, NEW i \in 0 .. MAX_TERM_NUM
    PROVE  map_page(VideoTo(i - 1), <<"video", i>>, <<"video", i>>, 0, 0, 0) = VideoTo(i)
<1> DEFINE v == <<"video", i>>
           m == VideoTo(i - 1)
           r == map_page(m, v, v, 0, 0, 0)
           table == [kind |-> "table", us |-> 0]
<1>1. i \in Index /\ v \in Addresses /\ v \in Frames /\ "video" \in Areas /\ i \in Int
      /\ v[1] = "video" /\ v[2] = i /\ \A j \in Index : j \in Int
  BY Numbers, PagingAssumption DEF Addresses, Areas, Frames
<1>2. m \in Memories /\ VideoTo(i) \in Memories
  BY VideoToType
<1>3. r \in Memories
  BY <1>1, <1>2, MapType
<1>4. /\ \A a \in Areas \ {"video"} : m.dir[a] = VideoTo(i).dir[a] /\ m.tab[a] = VideoTo(i).tab[a]
      /\ VideoTo(i).dir["video"] = table
      /\ \A j \in Index : VideoTo(i).tab["video"][j]
            = IF j <= i THEN [to |-> <<"video", j>>, us |-> 0] ELSE None
  BY <1>1 DEF VideoTo
<1> HIDE DEF v, r
<1>5. /\ OtherArea(m, r, "video", table)
      /\ r.tab["video"][i] = [to |-> v, us |-> 0]
      /\ \A j \in Index \ {i} : r.tab["video"][j] = VideoTo(i).tab["video"][j]
  <2>1. CASE i = 0
    <3>1. m.dir["video"] = Absent
      BY <1>1, <2>1 DEF VideoTo
    <3>2. /\ OtherArea(m, r, "video", table)
          /\ r.tab["video"][i] = [to |-> v, us |-> 0]
          /\ \A j \in Index \ {i} : r.tab["video"][j] = None
      <4>1. /\ m.dir["video"] = Absent /\ r = map_page(m, v, <<"video", i>>, 0, 0, 0)
            /\ m \in Memories /\ "video" \in Areas /\ i \in Index
        BY <1>1, <1>2, <3>1 DEF r, v
      <4> HIDE DEF m, table
      <4>2. /\ OtherArea(m, r, "video", [kind |-> "table", us |-> 0])
            /\ r.tab["video"][i] = [to |-> v, us |-> 0]
            /\ \A j \in Index \ {i} : r.tab["video"][j] = None
        BY <4>1, MapSmall, SMTT(60)
      <4> QED
        BY <4>2 DEF table
    <3> QED
      <4>1. \A j \in Index \ {i} : ~(j <= i)
        BY <2>1 DEF Index
      <4> QED
        BY <1>4, <3>2, <4>1
  <2>2. CASE i # 0
    <3>1. /\ m.dir["video"] = table /\ m.tab["video"][i] = None
          /\ \A j \in Index : m.tab["video"][j]
                = IF j <= i - 1 THEN [to |-> <<"video", j>>, us |-> 0] ELSE None
      BY <1>1, <2>2 DEF VideoTo
    <3>2. /\ OtherArea(m, r, "video", table)
          /\ r.tab["video"][i] = [to |-> v, us |-> 0]
          /\ \A j \in Index \ {i} : r.tab["video"][j] = m.tab["video"][j]
      <4> HIDE DEF m
      <4>1. m.dir["video"].kind = "table"
            /\ m.tab["video"][i] = None /\ r = map_page(m, v, <<"video", i>>, 0, 0, 0)
            /\ m \in Memories /\ "video" \in Areas /\ i \in Index
        BY <1>1, <1>2, <3>1 DEF r, v
      <4> HIDE DEF table
      <4>2. /\ OtherArea(m, r, "video", m.dir["video"])
            /\ r.tab["video"][i] = [to |-> v, us |-> 0]
            /\ \A j \in Index \ {i} : r.tab["video"][j] = m.tab["video"][j]
        BY <4>1, MapMore, SMTT(60)
      <4> QED
        BY <3>1, <4>2
    <3>3. \A j \in Index \ {i} : j <= i - 1 <=> j <= i
      <4>1. \A j \in Int : j # i => (j <= i - 1 <=> j <= i)
        OBVIOUS
      <4> QED
        BY <1>1, <4>1, Zenon
    <3>4. \A j \in Index \ {i} : m.tab["video"][j] = VideoTo(i).tab["video"][j]
      BY <1>4, <3>1, <3>3
    <3> QED
      BY <3>2, <3>4
  <2> QED
    BY <2>1, <2>2
<1>6. \A a \in Areas : r.dir[a] = VideoTo(i).dir[a]
  BY <1>4, <1>5 DEF OtherArea
<1>7. \A a \in Areas : \A j \in Index : r.tab[a][j] = VideoTo(i).tab[a][j]
  BY <1>1, <1>4, <1>5 DEF OtherArea, v
<1>8. r = VideoTo(i)
  BY <1>2, <1>3, <1>6, <1>7, SameMemory
<1> QED
  BY <1>8 DEF r, v

\* So the loop has mapped them all when it ends.
LEMMA VideoIsMapped == ASSUME TypeOK PROVE VideoMapped[MAX_TERM_NUM] = VideoTo(MAX_TERM_NUM)
<1> DEFINE D == -1 .. MAX_TERM_NUM
           Map(f, i) == IF i = -1 THEN KernelMapped
                        ELSE map_page(f[i - 1], <<"video", i>>, <<"video", i>>, 0, 0, 0)
           good == [i \in D |-> VideoTo(i)]
<1>1. \A i \in D : i # -1 => i - 1 \in D /\ i \in 0 .. MAX_TERM_NUM
  BY PagingAssumption
<1>2. \A i \in D : good[i] = Map(good, i)
  <2> SUFFICES ASSUME NEW i \in D PROVE VideoTo(i) = Map(good, i)
    OBVIOUS
  <2>1. CASE i = -1
    BY <2>1, KernelIsMapped
  <2>2. CASE i # -1
    <3>1. i - 1 \in D /\ i \in 0 .. MAX_TERM_NUM
      BY <1>1, <2>2
    <3>2. good[i - 1] = VideoTo(i - 1)
      BY <3>1
    <3> QED
      BY <2>2, <3>1, <3>2, VideoStep
  <2> QED
    BY <2>1, <2>2
<1>3. good = [i \in D |-> Map(good, i)]
  BY <1>2
<1>4. VideoMapped = [i \in D |-> Map(VideoMapped, i)]
  <2>1. \E f : f = [i \in D |-> Map(f, i)]
    BY <1>3
  <2>2. VideoMapped = CHOOSE f : f = [i \in D |-> Map(f, i)]
    BY DEF VideoMapped
  <2> HIDE DEF Map, D
  <2> QED
    BY <2>1, <2>2
<1>5. \A i \in D : VideoMapped[i] = Map(VideoMapped, i)
  BY <1>4
<1> DEFINE T == {n \in Nat : n - 1 \in D /\ VideoMapped[n - 1] # VideoTo(n - 1)}
<1>6. T = {}
  <2> SUFFICES ASSUME T # {} PROVE FALSE
    OBVIOUS
  <2>1. PICK n \in T : \A y \in T : n <= y
    BY Least
  <2>2. n \in Nat /\ n - 1 \in D /\ VideoMapped[n - 1] # VideoTo(n - 1)
    OBVIOUS
  <2>3. n # 0
    <3>0. -1 \in D
      BY PagingAssumption
    <3>1. VideoMapped[-1] = Map(VideoMapped, -1) /\ Map(VideoMapped, -1) = VideoTo(-1)
      BY <1>5, <3>0, KernelIsMapped
    <3>2. 0 - 1 = -1
      OBVIOUS
    <3> QED
      BY <2>2, <3>1, <3>2
  <2>4. n - 1 \in Nat /\ (n - 1) - 1 \in D /\ n - 1 \in 0 .. MAX_TERM_NUM /\ n - 1 # -1
    BY <2>2, <2>3, PagingAssumption
  <2>5. VideoMapped[(n - 1) - 1] = VideoTo((n - 1) - 1)
    BY <2>1, <2>4
  <2>6. VideoMapped[n - 1] = map_page(VideoMapped[(n - 1) - 1], <<"video", n - 1>>, <<"video", n - 1>>,
                                      0, 0, 0)
    BY <1>5, <2>2, <2>4
  <2>7. VideoMapped[n - 1] = VideoTo(n - 1)
    BY <2>4, <2>5, <2>6, VideoStep
  <2> QED
    BY <2>2, <2>7
<1>7. MAX_TERM_NUM + 1 \in Nat /\ (MAX_TERM_NUM + 1) - 1 = MAX_TERM_NUM /\ MAX_TERM_NUM \in D
  BY PagingAssumption
<1> QED
  BY <1>6, <1>7
\* What paging_init leaves.
LEMMA InitialLayout ==
    ASSUME TypeOK, screen = <<"video", 0>>, paging_init
    PROVE  TypeOK' /\ Layout'
<1> DEFINE m1 == VideoMapped[MAX_TERM_NUM]
           m2 == map_page(m1, <<"video", 0>>, VIDMAP_VIRT_ADDR, 0, 1, 0)
           m3 == map_page(m2, PAGE_TABLE_STARTADDR, PAGE_TABLE_STARTADDR, 1, 0, 0)
<1>1. /\ page_directory' = m3.dir /\ page_table' = m3.tab /\ mode' = "boot"
      /\ page' = page /\ screen' = screen /\ tlb' = [v \in Addresses |-> None]
  BY DEF paging_init, SetMemory, flush_tlb
<1>2. m1 = VideoTo(MAX_TERM_NUM)
  BY VideoIsMapped
<1> HIDE DEF m1
<1>3. /\ m1.dir["kernel"] = Large(KERNEL_ADDR, 0)
      /\ m1.dir["video"] = [kind |-> "table", us |-> 0]
      /\ m1.dir["vidmap"] = Absent /\ m1.dir["tables"] = Absent /\ m1.dir["program"] = Absent
      /\ \A j \in Index : m1.tab["video"][j] = [to |-> <<"video", j>>, us |-> 0]
  BY <1>2, Numbers, PagingAssumption DEF VideoTo, Areas, Index
<1>4. m1 \in Memories
  BY <1>2, VideoToType
<1>5. /\ {"video", "kernel", "program", "vidmap", "tables"} = Areas
      /\ <<"video", 0>> \in Frames /\ PAGE_TABLE_STARTADDR \in Frames
  BY Numbers, AreaFacts DEF Frames, Addresses, Areas
<1>6. m2 \in Memories
  BY <1>4, <1>5, MapType, AreaFacts, Numbers
<1>7. /\ OtherArea(m1, m2, "vidmap", [kind |-> "table", us |-> 1])
      /\ m2.tab["vidmap"][0] = [to |-> <<"video", 0>>, us |-> 1]
      /\ \A j \in Index \ {0} : m2.tab["vidmap"][j] = None
  <2>1. m2 = map_page(m1, <<"video", 0>>, <<"vidmap", 0>>, 0, 1, 0) /\ "vidmap" \in Areas
    BY <1>5 DEF VIDMAP_VIRT_ADDR
  <2> HIDE DEF m2
  <2> QED
    BY <1>3, <1>4, <2>1, MapSmall, Numbers
<1> HIDE DEF m2
<1>8. m3 \in Memories
  BY <1>5, <1>6, MapType, AreaFacts, Numbers
<1>9. m2.dir["tables"] = Absent
  BY <1>3, <1>5, <1>7 DEF OtherArea
<1>10. OtherArea(m2, m3, "tables", Large(PAGE_TABLE_STARTADDR, 0)) /\ m3.tab = m2.tab
  <2>1. PAGE_TABLE_STARTADDR = <<"tables", 0>>
    BY DEF PAGE_TABLE_STARTADDR
  <2> QED
    BY <1>5, <1>6, <1>9, <2>1, MapLarge, Numbers
<1> HIDE DEF m3
<1>11. TypeOK'
  BY <1>1, <1>8, EntryTypes DEF TypeOK, Memories
<1>12. /\ m3.dir["kernel"] = Large(KERNEL_ADDR, 0)
       /\ m3.dir["tables"] = Large(PAGE_TABLE_STARTADDR, 0)
       /\ m3.dir["video"] = [kind |-> "table", us |-> 0]
       /\ m3.dir["vidmap"] = [kind |-> "table", us |-> 1]
       /\ m3.dir["program"] = Absent
  BY <1>3, <1>5, <1>7, <1>10 DEF OtherArea
<1>13. m3.tab["video"] = [i \in Index |-> [to |-> <<"video", i>>, us |-> 0]]
  <2>1. m3.tab["video"] \in [Index -> Translation]
    BY <1>5, <1>8 DEF Memories
  <2>2. m3.tab["video"] = m1.tab["video"]
    BY <1>5, <1>7, <1>10 DEF OtherArea
  <2> QED
    BY <1>3, <2>1, <2>2
<1>14. m3.tab["vidmap"] = [Empty EXCEPT ![0] = [to |-> screen, us |-> 1]]
  <2>1. m3.tab["vidmap"] \in [Index -> Translation]
    BY <1>5, <1>8 DEF Memories
  <2> QED
    BY <1>7, <1>10, <2>1, Numbers DEF Empty
<1> QED
  BY <1>1, <1>11, <1>12, <1>13, <1>14 DEF Layout

-----------------------------------------------------------------------------
(* The steps that remap. *)

LEMMA MemoryType == ASSUME TypeOK PROVE Memory \in Memories
BY DEF TypeOK, Memory, Memories

\* Another program page, and nothing else.
LEMMA ProgramMapped ==
    ASSUME NEW m \in Memories, NEW frame \in ProgramPages
    PROVE  /\ MapProgram(m, frame) \in Memories
           /\ OtherArea(m, MapProgram(m, frame), "program", Large(frame, 1))
           /\ MapProgram(m, frame).tab = m.tab
<1> DEFINE r == MapProgram(m, frame)
<1>1. r = map_page(m, frame, <<"program", 0>>, 1, 1, 1) /\ "program" \in Areas
  BY DEF MapProgram, PROGRAM_VIRT, Areas
<1>2. <<"program", 0>> \in Addresses /\ frame \in Frames
  BY AreaFacts DEF PROGRAM_VIRT, Frames
<1> HIDE DEF r
<1>3. r \in Memories
  BY <1>1, <1>2, MapType, Numbers
<1>4. OtherArea(m, r, "program", Large(frame, 1)) /\ r.tab = m.tab
  BY <1>1, MapLarge, Numbers
<1> QED
  BY <1>3, <1>4 DEF r

\* The layout once the program page is another one.
LEMMA ProgramLayout ==
    ASSUME TypeOK, mode # "off", Layout, NEW frame \in ProgramPages,
           SetMemory(MapProgram(Memory, frame)), page' = frame, screen' = screen, mode' # "boot"
    PROVE  /\ page_directory' \in [Areas -> Entry] /\ Layout'
           /\ page_table' \in [Areas -> [Index -> Translation]]
<1> DEFINE r == MapProgram(Memory, frame)
<1>1. r \in Memories /\ OtherArea(Memory, r, "program", Large(frame, 1)) /\ r.tab = Memory.tab
  BY MemoryType, ProgramMapped
<1>2. page_directory' = r.dir /\ page_table' = r.tab
  BY DEF SetMemory
<1> HIDE DEF r
<1>3. /\ page_directory'["program"] = Large(frame, 1) /\ page_table' = page_table
      /\ \A a \in Areas \ {"program"} : page_directory'[a] = page_directory[a]
  BY <1>1, <1>2 DEF OtherArea, Memory
<1>4. Layout'
  BY <1>3 DEF Layout, Areas
<1> QED
  BY <1>1, <1>2, <1>4 DEF Memories

\* After a flush the TLB remembers nothing.
LEMMA FlushedTlb ==
    ASSUME flush_tlb
    PROVE  tlb' \in [Addresses -> Translation] /\ Remembered'
BY EntryTypes DEF flush_tlb, Remembered

\* An address of an area that was not remapped is still resolved as before.
LEMMA ResolvedType ==
    ASSUME TypeOK, NEW virt \in Addresses
    PROVE  resolve_virt_addr(virt) \in Translation
<1> DEFINE d == page_directory[virt[1]]
           e == page_table[virt[1]][virt[2]]
<1>1. d \in Entry /\ e \in Translation
  BY DEF TypeOK, Addresses
<1>2. CASE d = Absent
  BY <1>2, EntryTypes DEF resolve_virt_addr, Absent
<1>3. CASE d \in [kind : {"large"}, page : Translation]
  BY <1>3 DEF resolve_virt_addr
<1>4. CASE d \in [kind : {"table"}, us : 0 .. 1]
  <2>1. CASE e = None
    BY <1>4, <2>1, EntryTypes DEF resolve_virt_addr
  <2>2. CASE e # None
    <3>1. e \in [to : Frames, us : 0 .. 1] /\ d.us \in 0 .. 1
      BY <1>1, <1>4, <2>2 DEF Translation
    <3>2. e.us * d.us \in 0 .. 1
      BY <3>1
    <3>3. resolve_virt_addr(virt) = [e EXCEPT !.us = e.us * d.us]
      BY <1>4, <2>2 DEF resolve_virt_addr
    <3> QED
      BY <3>1, <3>2, <3>3 DEF Translation
  <2> QED
    BY <2>1, <2>2
<1> QED
  BY <1>1, <1>2, <1>3, <1>4 DEF Entry

LEMMA NextKeepsIInv == IInv /\ [Next]_vars => IInv'
<1> SUFFICES ASSUME IInv, [Next]_vars PROVE IInv'
  OBVIOUS
<1> USE DEF mem
<1>0. TypeOK /\ (mode # "off" => Layout /\ Remembered)
  BY DEF IInv
<1>1. CASE UNCHANGED vars
  BY <1>1 DEF vars, IInv, TypeOK, Layout, Remembered, resolve_virt_addr
<1>2. CASE paging_init
  <2>1. TypeOK' /\ Layout'
    BY <1>2, InitialLayout DEF IInv, paging_init
  <2>2. Remembered' /\ mode' = "boot"
    BY <1>2, FlushedTlb DEF paging_init
  <2> QED
    BY <2>1, <2>2 DEF IInv
<1>3. ASSUME NEW frame \in ProgramPages, Execute(frame) PROVE IInv'
  <2>1. mode # "off" /\ mode' = "user" /\ page' = frame /\ screen' = screen
        /\ SetMemory(MapProgram(Memory, frame)) /\ flush_tlb
    BY <1>3 DEF Execute
  <2>2. /\ page_directory' \in [Areas -> Entry] /\ Layout'
        /\ page_table' \in [Areas -> [Index -> Translation]]
    BY <1>0, <2>1, ProgramLayout
  <2>3. tlb' \in [Addresses -> Translation] /\ Remembered'
    BY <2>1, FlushedTlb
  <2> QED
    BY <1>0, <2>1, <2>2, <2>3 DEF IInv, TypeOK
<1>4. ASSUME NEW frame \in ProgramPages, HaltMap(frame) PROVE IInv'
  <2>1. mode = "user" /\ mode' = "halt" /\ page' = frame /\ screen' = screen /\ tlb' = tlb
        /\ SetMemory(MapProgram(Memory, frame))
    BY <1>4 DEF HaltMap
  <2>2. /\ page_directory' \in [Areas -> Entry] /\ Layout'
        /\ page_table' \in [Areas -> [Index -> Translation]]
    BY <1>0, <2>1, ProgramLayout
  <2>3. \A a \in Areas \ {"program"} :
           page_directory'[a] = page_directory[a] /\ page_table'[a] = page_table[a]
    BY <1>0, <2>1, ProgramMapped, MemoryType DEF SetMemory, OtherArea, Memory
  <2>4. Remembered'
    <3> SUFFICES ASSUME NEW virt \in Addresses, virt[1] # "program"
                 PROVE  tlb'[virt] \in {None, resolve_virt_addr(virt)'}
      BY <2>1 DEF Remembered
    <3>1. virt[1] \in Areas \ {"program"}
      BY DEF Addresses
    <3>2. resolve_virt_addr(virt)' = resolve_virt_addr(virt)
      BY <2>3, <3>1 DEF resolve_virt_addr
    <3> QED
      BY <1>0, <2>1, <3>2 DEF Remembered
  <2> QED
    BY <1>0, <2>1, <2>2, <2>4 DEF IInv, TypeOK
<1>5. CASE HaltFlush
  <2>1. Remembered' /\ tlb' \in [Addresses -> Translation]
    BY <1>5, FlushedTlb DEF HaltFlush
  <2> QED
    BY <1>0, <1>5, <2>1 DEF HaltFlush, IInv, TypeOK, Layout
<1>6. ASSUME NEW frame \in ProgramPages, NEW vid_mem \in VideoPages, switch_tasks(frame, vid_mem)
      PROVE  IInv'
  <2> DEFINE m == MapProgram(Memory, frame)
             r == map_page(m, vid_mem, VIDMAP_VIRT_ADDR, 0, 1, 1)
  <2>1. /\ mode = "user" /\ mode' = "user" /\ page' = frame /\ screen' = vid_mem /\ flush_tlb
        /\ page_directory' = r.dir /\ page_table' = r.tab
    BY <1>6 DEF switch_tasks, SetMemory
  <2>2. m \in Memories /\ OtherArea(Memory, m, "program", Large(frame, 1)) /\ m.tab = Memory.tab
    BY <1>0, MemoryType, ProgramMapped
  <2> HIDE DEF m
  <2>3. r = map_page(m, vid_mem, <<"vidmap", 0>>, 0, 1, 1) /\ "vidmap" \in Areas
        /\ vid_mem \in Frames /\ <<"vidmap", 0>> \in Addresses
    BY AreaFacts DEF VIDMAP_VIRT_ADDR, Areas, VideoPages, Frames, Addresses
  <2> HIDE DEF r
  <2>4. r \in Memories
    BY <2>2, <2>3, MapType, Numbers
  <2>5. /\ OtherArea(m, r, "vidmap", [kind |-> "table", us |-> 1])
        /\ r.tab["vidmap"][0] = [to |-> vid_mem, us |-> 1]
        /\ \A j \in Index \ {0} : r.tab["vidmap"][j] = None
    <3>1. /\ r = map_page(m, vid_mem, <<"vidmap", 0>>, 0, 1, 1)
          /\ m \in Memories /\ "vidmap" \in Areas /\ 0 \in Index
      BY <2>2, <2>3, Numbers
    <3> QED
      BY <3>1, MapSmall
  <2>6. r.tab["vidmap"] = [Empty EXCEPT ![0] = [to |-> vid_mem, us |-> 1]]
    <3>1. r.tab["vidmap"] \in [Index -> Translation]
      BY <2>3, <2>4 DEF Memories
    <3> QED
      BY <2>5, <3>1, Numbers DEF Empty
  <2>7. /\ r.dir["program"] = Large(frame, 1) /\ r.dir["vidmap"] = [kind |-> "table", us |-> 1]
        /\ r.tab["video"] = page_table["video"]
        /\ \A a \in {"kernel", "tables", "video"} : r.dir[a] = page_directory[a]
    BY <2>2, <2>5 DEF OtherArea, Memory, Areas
  <2>8. Layout'
    BY <1>0, <2>1, <2>6, <2>7 DEF Layout
  <2>9. tlb' \in [Addresses -> Translation] /\ Remembered'
    BY <2>1, FlushedTlb
  <2> QED
    BY <1>0, <2>1, <2>4, <2>8, <2>9 DEF IInv, TypeOK, Memories
<1>7. ASSUME NEW virt \in Addresses, Lookup(virt) PROVE IInv'
  <2>1. /\ tlb' = [tlb EXCEPT ![virt] = resolve_virt_addr(virt)] /\ mode # "off"
        /\ UNCHANGED <<page_directory, page_table, mode, page, screen>>
    BY <1>7 DEF Lookup
  <2>2. \A v : resolve_virt_addr(v)' = resolve_virt_addr(v)
    BY <2>1 DEF resolve_virt_addr
  <2>3. Remembered'
    BY <1>0, <2>1, <2>2 DEF Remembered, TypeOK
  <2> QED
    BY <1>0, <2>1, <2>3, ResolvedType DEF IInv, TypeOK, Layout
<1> QED
  BY <1>1, <1>2, <1>3, <1>4, <1>5, <1>6, <1>7 DEF Next

LEMMA InitIInv == Init => IInv
<1> SUFFICES ASSUME Init PROVE IInv
  OBVIOUS
<1>1. [to |-> <<"junk", 0>>, us |-> 1] \in Translation
  BY EntryTypes, Numbers DEF Frames
<1>2. <<"program", 0>> \in ProgramPages /\ <<"video", 0>> \in VideoPages
  BY PagingAssumption, Numbers DEF ProgramPages, VideoPages, Slots
<1>3. TypeOK
  BY <1>1, <1>2, EntryTypes DEF Init, TypeOK
<1> QED
  BY <1>3 DEF Init, IInv

-----------------------------------------------------------------------------
(* What the layout resolves to. *)

LEMMA Resolved ==
    ASSUME TypeOK, mode # "off", Layout
    PROVE  /\ \A virt \in Addresses : virt[1] = "kernel" =>
                 resolve_virt_addr(virt) = [to |-> KERNEL_ADDR, us |-> 0]
           /\ \A virt \in Addresses : virt[1] = "tables" =>
                 resolve_virt_addr(virt) = [to |-> PAGE_TABLE_STARTADDR, us |-> 0]
           /\ \A virt \in Addresses : virt[1] = "video" =>
                 resolve_virt_addr(virt) = [to |-> virt, us |-> 0]
           /\ \A virt \in Addresses : virt[1] = "vidmap" =>
                 resolve_virt_addr(virt) = IF virt[2] = 0 THEN [to |-> screen, us |-> 1] ELSE None
           /\ \A virt \in Addresses : virt[1] = "program" =>
                 resolve_virt_addr(virt) = IF mode = "boot" THEN None ELSE [to |-> page, us |-> 1]
<1> USE DEF Layout, resolve_virt_addr, Large
<1>1. \A virt \in Addresses : virt[1] = "kernel" =>
         resolve_virt_addr(virt) = [to |-> KERNEL_ADDR, us |-> 0]
  OBVIOUS
<1>2. \A virt \in Addresses : virt[1] = "tables" =>
         resolve_virt_addr(virt) = [to |-> PAGE_TABLE_STARTADDR, us |-> 0]
  OBVIOUS
<1>3. ASSUME NEW virt \in Addresses, virt[1] = "video"
      PROVE  resolve_virt_addr(virt) = [to |-> virt, us |-> 0]
  <2>1. virt[2] \in Index /\ virt = <<"video", virt[2]>>
    BY <1>3 DEF Addresses
  <2>2. page_table[virt[1]][virt[2]] = [to |-> virt, us |-> 0]
    BY <1>3, <2>1
  <2>3. page_directory[virt[1]].kind = "table" /\ page_directory[virt[1]].us = 0
    BY <1>3
  <2> QED
    BY <2>2, <2>3, EntryNotNone
<1>4. ASSUME NEW virt \in Addresses, virt[1] = "vidmap"
      PROVE  resolve_virt_addr(virt) = IF virt[2] = 0 THEN [to |-> screen, us |-> 1] ELSE None
  <2>1. virt[2] \in Index
    BY DEF Addresses
  <2>2. page_table[virt[1]][virt[2]] = IF virt[2] = 0 THEN [to |-> screen, us |-> 1] ELSE None
    BY <1>4, <2>1 DEF Empty
  <2>3. page_directory[virt[1]].kind = "table" /\ page_directory[virt[1]].us = 1
    BY <1>4
  <2> QED
    BY <2>2, <2>3, EntryNotNone
<1>5. ASSUME NEW virt \in Addresses, virt[1] = "program"
      PROVE  resolve_virt_addr(virt) = IF mode = "boot" THEN None ELSE [to |-> page, us |-> 1]
  BY <1>5 DEF Absent
<1> QED
  BY <1>1, <1>2, <1>3, <1>4, <1>5

\* What an access may reach, when the TLB remembers nothing that is stale.
LEMMA ReachedFresh ==
    ASSUME NEW virt, tlb[virt] \in {None, resolve_virt_addr(virt)}
    PROVE  /\ Reached(virt) \subseteq {resolve_virt_addr(virt)} \ {None}
           /\ resolve_virt_addr(virt) # None => Reached(virt) = {resolve_virt_addr(virt)}
BY DEF Reached

\* Through every sequence of executes, halts and task switches, and whatever the
\* TLB remembers since the last flush, user code reaches its own page and the video
\* page behind vidmap, and nothing else (map_page and its callers).
THEOREM UserSeesItsOwn == Spec => []UserSees
<1>1. IInv => UserSees
  <2> SUFFICES ASSUME IInv, mode = "user" PROVE UserSees
    BY DEF UserSees
  <2>1. TypeOK /\ Layout /\ \A virt \in Addresses : tlb[virt] \in {None, resolve_virt_addr(virt)}
    BY DEF IInv, Remembered
  <2>2. resolve_virt_addr(PROGRAM_VIRT) = [to |-> page, us |-> 1]
    BY <2>1, Resolved, AreaFacts
  <2>3. resolve_virt_addr(VIDMAP_VIRT_ADDR) = [to |-> screen, us |-> 1]
    BY <2>1, Resolved, AreaFacts
  <2>4. Reached(PROGRAM_VIRT) = {[to |-> page, us |-> 1]}
    BY <2>1, <2>2, ReachedFresh, EntryNotNone, AreaFacts
  <2>5. Reached(VIDMAP_VIRT_ADDR) = {[to |-> screen, us |-> 1]}
    BY <2>1, <2>3, ReachedFresh, EntryNotNone, AreaFacts
  <2>6. ASSUME NEW virt \in Addresses, NEW e \in Reached(virt), e.us = 1
        PROVE  e.to \in {page, screen}
    <3>1. e = resolve_virt_addr(virt) /\ e # None
      BY <2>1, <2>6, ReachedFresh
    <3>2. virt[1] \in {"video", "kernel", "program", "vidmap", "tables"}
      BY DEF Addresses, Areas
    <3>3. CASE virt[1] \in {"video", "kernel", "tables"}
      BY <2>1, <2>6, <3>1, <3>3, Resolved
    <3>4. CASE virt[1] = "vidmap"
      BY <2>1, <3>1, <3>4, Resolved
    <3>5. CASE virt[1] = "program"
      BY <2>1, <3>1, <3>5, Resolved
    <3> QED
      BY <3>2, <3>3, <3>4, <3>5
  <2> QED
    BY <2>4, <2>5, <2>6 DEF UserSees
<1> QED
  BY InitIInv, NextKeepsIInv, <1>1, PTL DEF Spec

\* Once paging is on, the kernel, the video pages and the page tables stay mapped
\* to themselves and closed to user code.
THEOREM KernelAlwaysMapped == Spec => []KernelStays
<1>1. IInv => KernelStays
  <2> SUFFICES ASSUME IInv, mode # "off", NEW virt \in KernelAddresses
               PROVE  Reached(virt) = {[to |-> virt, us |-> 0]}
    BY DEF KernelStays
  <2>1. virt \in Addresses /\ virt[1] \in {"kernel", "video", "tables"} /\ virt[1] # "program"
    BY AreaFacts DEF KernelAddresses, VideoPages, Addresses, Areas
  <2>2. TypeOK /\ Layout /\ tlb[virt] \in {None, resolve_virt_addr(virt)}
    BY <2>1 DEF IInv, Remembered
  <2>3. virt[1] = "kernel" => virt = KERNEL_ADDR
    BY AreaFacts DEF KernelAddresses, VideoPages
  <2>4. virt[1] = "tables" => virt = PAGE_TABLE_STARTADDR
    BY AreaFacts DEF KernelAddresses, VideoPages
  <2>5. resolve_virt_addr(virt) = [to |-> virt, us |-> 0]
    BY <2>1, <2>2, <2>3, <2>4, Resolved
  <2> QED
    BY <2>2, <2>5, ReachedFresh, EntryNotNone
<1> QED
  BY InitIInv, NextKeepsIInv, <1>1, PTL DEF Spec

=============================================================================
