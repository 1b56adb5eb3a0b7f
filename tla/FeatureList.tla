---------------------------- MODULE FeatureList -----------------------------
(***************************************************************************)
(* Probing a card (pcie.c): the device feature list in BAR 0 is walked     *)
(* header by header, then the list of each port the FME header names.  A   *)
(* header of an FME or a port makes a new platform device, the following   *)
(* private features and the AFU are added to it, and it is registered when *)
(* the next one is made or the lists are through.  Anything may fail; then *)
(* what was made is undone.  Cards are probed and removed independently,   *)
(* but share the tables fme_features and port_features and the ids.        *)
(*                                                                         *)
(* A card's lists are sequences of headers, list 0 that of BAR 0.  A       *)
(* header has its type (t), what it is (id), its offset in the BAR (at),   *)
(* the size of its registers (size), an FIU the offset of its AFU (afu)    *)
(* and a port the size of its AFU's registers (mmio), a private feature    *)
(* its number of interrupts (vecs).  External: memory allocation, the      *)
(* driver core.                                                            *)
(***************************************************************************)
EXTENDS Integers, Sequences, FiniteSets, FiniteSetsExt

CONSTANTS
    Cards,
    Layouts,       \* what cards look like
    Supported,     \* feature ids in fme_features and port_features
    BarLen,
    VecCount,      \* MSI-X vectors of a card
    Faults,        \* what may fail
    NONE

VARIABLES
    layout,
    pc,            \* "off", "list", "irq", "afu", "next", "fail", "bound", "oops"
    list, pos,     \* the header being parsed
    feature_dev,   \* binfo->feature_dev, or NONE
    added,         \* registered devices: fme_dev and port_dev_list
    regions,       \* lists whose BAR is mapped
    ids,           \* fpga_ids: <<type, id>> to card
    table,         \* port_features[UAFU].resource_size
    vec_cnt,       \* ... and [..].vec_cnt of the feature being parsed
    resets         \* the port resets a card has seen: list and device

walk == <<list, pos>>
vars == <<layout, pc, walk, feature_dev, added, regions, ids, table, vec_cnt,
          resets>>

NoDev == [type |-> "none", id |-> -1, list |-> -1, pdata |-> FALSE,
          feats |-> {}]

Init ==
    /\ layout \in [Cards -> Layouts]
    /\ pc = [c \in Cards |-> "off"]
    /\ list = [c \in Cards |-> 0] /\ pos = [c \in Cards |-> 1]
    /\ feature_dev = [c \in Cards |-> NONE]
    /\ added = [c \in Cards |-> {}]
    /\ regions = [c \in Cards |-> {}]
    /\ ids = {}
    /\ table = 0 /\ vec_cnt = 0
    /\ resets = [c \in Cards |-> {}]

Header(c) == layout[c].lists[list[c] + 1][pos[c]]

\* Mutant: as many as there are.
FreshIdCount(type) == Cardinality({e \in ids : e[1] = type})

\* idr_alloc: the lowest free id of a type.
FreshId(type) ==
    Min({n \in 0 .. Cardinality(ids) : \A e \in ids : e[1] # type \/ e[2] # n})

-----------------------------------------------------------------------------
(* Undoing: build_info_free, cci_pci_free_irq, destroy_drvdata.            *)

\* The ids that are freed: of the registered devices, of the one being made,
\* and of the card.
OwnIds(c) ==
    {e \in ids : e[3] = c /\ (e[1] = "parent"
        \/ \E d \in added[c] \cup ({feature_dev[c]} \ {NONE}) :
              e[1] = d.type /\ e[2] = d.id)}

Undo(c) ==
    /\ pc' = [pc EXCEPT ![c] = "off"]
    /\ added' = [added EXCEPT ![c] = {}]
    /\ feature_dev' = [feature_dev EXCEPT ![c] = NONE]
    /\ regions' = [regions EXCEPT ![c] = {}]
    /\ ids' = ids \ OwnIds(c)
    /\ UNCHANGED <<layout, walk, table, vec_cnt, resets>>

\* cci_pci_remove
Remove(c) == pc[c] = "bound" /\ Undo(c)

-----------------------------------------------------------------------------
(* Probing.                                                                *)

\* cci_pci_probe, create_init_drvdata, parse_start.  Before drvdata exists a
\* failure has nothing to undo.
Probe(c) ==
    /\ pc[c] = "off"
    /\ pc' = [pc EXCEPT ![c] = "list"]
    /\ ids' = ids \cup {<<"parent", FreshId("parent"), c>>}
    /\ regions' = [regions EXCEPT ![c] = {0}]
    /\ list' = [list EXCEPT ![c] = 0] /\ pos' = [pos EXCEPT ![c] = 1]
    /\ resets' = [resets EXCEPT ![c] = {}]
    /\ UNCHANGED <<layout, feature_dev, added, table, vec_cnt>>

\* An allocation or mapping fails outside build_info_create_dev.
ProbeFails(c) ==
    /\ "mem" \in Faults
    /\ pc[c] \in {"list", "irq", "afu", "next"}
    /\ Undo(c)

\* The unsigned comparison of create_feature_instance: a start behind the
\* end of the BAR leaves a huge number.
Fits(at, size) == BarLen - at < 0 \/ BarLen - at >= size

Feature(id, at, size, vecs) == [id |-> id, at |-> at, size |-> size, vecs |-> vecs]

\* build_info_commit_dev
Committed(c) == added[c] \cup ({feature_dev[c]} \ {NONE})

\* What is in feature_dev after build_info_create_dev failed with fault f.
Leftover(c, type, f) ==
    CASE f = "add" -> feature_dev[c]
      [] f = "alloc" -> NONE
      [] f = "id" -> [NoDev EXCEPT !.type = type, !.list = list[c]]
      [] f = "pdata" -> [NoDev EXCEPT !.type = type, !.list = list[c],
                                      !.id = FreshId(type)]
      [] OTHER -> [NoDev EXCEPT !.type = type, !.list = list[c],
                                !.id = FreshId(type), !.pdata = TRUE]

\* build_info_create_dev.  f is the step that fails, or "none".
CreateDev(c, type, f, dev) ==
    /\ f = "add" => feature_dev[c] # NONE
    /\ added' = [added EXCEPT ![c] = IF f = "add" THEN @ ELSE Committed(c)]
    /\ feature_dev' = [feature_dev EXCEPT ![c] = dev]
    /\ ids' = IF f \in {"add", "alloc", "id"} THEN ids
              ELSE ids \cup {<<type, FreshId(type), c>>}

\* parse_feature_fme
ParseFme(c, f) ==
    LET h == Header(c)
        twice == f = "none" /\ \E d \in Committed(c) : d.type = "fme"
        bad == f # "none" \/ twice \/ ~Fits(h.at, h.size)
        dev == [Leftover(c, "fme", f) EXCEPT
                  !.feats = IF bad THEN {} ELSE
                            {Feature("header", h.at, h.size, 0)}]
    IN  /\ h.t = "fiu" /\ h.id = "fme"
        /\ CreateDev(c, "fme", f, IF f \in {"add", "alloc"}
                                  THEN Leftover(c, "fme", f) ELSE dev)
        /\ pc' = [pc EXCEPT ![c] = IF bad THEN "fail" ELSE "afu"]
        /\ UNCHANGED <<table, resets>>

\* A device whose header registers are known to get_feature_ioaddr_by_index.
HasHeader(d) == d # NONE /\ \E x \in d.feats : x.id = "header"

\* parse_feature_port, then enable_port_uafu, even if the former failed: the
\* size of the AFU goes to the table and feature_dev is reset.  The reset reads
\* the header registers: without them it is an oops.
ParsePort(c, f) ==
    LET h == Header(c)
        bad == f # "none" \/ ~Fits(h.at, h.size)
        old == Leftover(c, "port", f)
        dev == IF f \in {"add", "alloc"} THEN old
               ELSE [old EXCEPT !.feats = IF bad THEN {} ELSE
                                  {Feature("header", h.at, h.size, 0)}]
    IN  /\ h.t = "fiu" /\ h.id = "port"
        /\ CreateDev(c, "port", f, dev)
        /\ table' = h.mmio
        /\ resets' = IF h.mmio = 0 THEN resets
                     ELSE [resets EXCEPT ![c] = @ \cup
                             {[list |-> list[c], dev |->
                                 IF dev = NONE THEN NoDev ELSE dev]}]
        /\ pc' = [pc EXCEPT ![c] =
              IF h.mmio # 0 /\ ~HasHeader(dev) THEN "oops"
              ELSE IF bad THEN "fail" ELSE "afu"]

\* parse_feature_fiu up to the AFU pointer.
ParseFiu(c) ==
    /\ pc[c] = "list" /\ Header(c).t = "fiu"
    /\ \E f \in Faults \cup {"none"} :
          f # "mem" /\ (ParseFme(c, f) \/ ParsePort(c, f))
    /\ UNCHANGED <<layout, walk, regions, vec_cnt>>

AddFeature(c, f) ==
    feature_dev' = [feature_dev EXCEPT ![c].feats =
                      {x \in @ : x.id # f.id} \cup {f}]

\* parse_feature_afu, parse_feature_port_afu: an AFU is added with the size
\* in the table.
ParseAfu(c, at) ==
    IF feature_dev[c] = NONE THEN
       /\ pc' = [pc EXCEPT ![c] = "fail"]
       /\ UNCHANGED <<feature_dev, table>>
    ELSE IF feature_dev[c].type = "port" THEN
       /\ IF table # 0 /\ Fits(at, table)
          THEN /\ AddFeature(c, Feature("uafu", at, table, 0))
               /\ pc' = [pc EXCEPT ![c] = "next"]
          ELSE /\ pc' = [pc EXCEPT ![c] = "fail"]
               /\ UNCHANGED feature_dev
       /\ table' = IF table # 0 THEN 0 ELSE table
    ELSE /\ pc' = [pc EXCEPT ![c] = "next"]
         /\ UNCHANGED <<feature_dev, table>>

\* The AFU an FIU points to.
FiuAfu(c) ==
    /\ pc[c] = "afu"
    /\ IF Header(c).afu = 0
       THEN /\ pc' = [pc EXCEPT ![c] = "next"]
            /\ UNCHANGED <<feature_dev, table>>
       ELSE ParseAfu(c, Header(c).at + Header(c).afu)
    /\ UNCHANGED <<layout, walk, added, regions, ids, vec_cnt, resets>>

\* An AFU in the list.
ListAfu(c) ==
    /\ pc[c] = "list" /\ Header(c).t = "afu"
    /\ ParseAfu(c, Header(c).at)
    /\ UNCHANGED <<layout, walk, added, regions, ids, vec_cnt, resets>>

\* A feature that claims more vectors than there are gets none.
Vectors(h) == IF h.vecs > VecCount THEN 0 ELSE h.vecs

\* parse_feature_irqs: the vectors go to the table.
PrivateIrqs(c) ==
    /\ pc[c] = "list" /\ Header(c).t = "private"
    /\ IF feature_dev[c] = NONE
       THEN pc' = [pc EXCEPT ![c] = "fail"] /\ UNCHANGED vec_cnt
       ELSE IF Header(c).id \notin Supported
       THEN pc' = [pc EXCEPT ![c] = "next"] /\ UNCHANGED vec_cnt
       ELSE /\ pc' = [pc EXCEPT ![c] = "irq"]
            /\ vec_cnt' = Vectors(Header(c))
    /\ UNCHANGED <<layout, walk, feature_dev, added, regions, ids, table, resets>>

\* create_feature_instance takes them from there.
Private(c) ==
    LET h == Header(c)
    IN  /\ pc[c] = "irq"
        /\ IF Fits(h.at, h.size)
           THEN /\ AddFeature(c, Feature(h.id, h.at, h.size, vec_cnt))
                /\ pc' = [pc EXCEPT ![c] = "next"]
           ELSE pc' = [pc EXCEPT ![c] = "fail"] /\ UNCHANGED feature_dev
        /\ UNCHANGED <<layout, walk, added, regions, ids, table, vec_cnt, resets>>

Unknown(c) ==
    /\ pc[c] = "list" /\ Header(c).t \notin {"fiu", "afu", "private"}
    /\ pc' = [pc EXCEPT ![c] = "next"]
    /\ UNCHANGED <<layout, walk, feature_dev, added, regions, ids, table,
                   vec_cnt, resets>>

\* parse_feature_list: the next header.
NextHeader(c) ==
    /\ pc[c] = "next" /\ pos[c] < Len(layout[c].lists[list[c] + 1])
    /\ pc' = [pc EXCEPT ![c] = "list"]
    /\ pos' = [pos EXCEPT ![c] = @ + 1]
    /\ UNCHANGED <<layout, list, feature_dev, added, regions, ids, table,
                   vec_cnt, resets>>

\* parse_ports_from_fme: the next port's list.  Without an FME this is a VF.
NextPort(c) ==
    /\ pc[c] = "next" /\ pos[c] = Len(layout[c].lists[list[c] + 1])
    /\ list[c] + 1 < Len(layout[c].lists)
    /\ pc' = [pc EXCEPT ![c] = "list"]
    /\ list' = [list EXCEPT ![c] = @ + 1] /\ pos' = [pos EXCEPT ![c] = 1]
    /\ regions' = [regions EXCEPT ![c] = @ \cup {list[c] + 1}]
    /\ UNCHANGED <<layout, feature_dev, added, ids, table, vec_cnt, resets>>

\* cci_pci_create_feature_devs: the last device is registered.
Bind(c) ==
    /\ pc[c] = "next" /\ pos[c] = Len(layout[c].lists[list[c] + 1])
    /\ list[c] + 1 = Len(layout[c].lists)
    /\ pc' = [pc EXCEPT ![c] = "bound"]
    /\ added' = [added EXCEPT ![c] = Committed(c)]
    /\ feature_dev' = [feature_dev EXCEPT ![c] = NONE]
    /\ UNCHANGED <<layout, walk, regions, ids, table, vec_cnt, resets>>

\* free_binfo_exit and what follows it.
Failed(c) == pc[c] = "fail" /\ Undo(c)

Card(c) ==
    \/ Probe(c) \/ ProbeFails(c) \/ ParseFiu(c) \/ FiuAfu(c) \/ ListAfu(c)
    \/ PrivateIrqs(c) \/ Private(c) \/ Unknown(c) \/ NextHeader(c)
    \/ NextPort(c) \/ Bind(c) \/ Failed(c) \/ Remove(c)

Next == \E c \in Cards : Card(c)

Spec == Init /\ [][Next]_vars

-----------------------------------------------------------------------------
\* What a list describes: the header of its FIU and what belongs to it.
Described(l) ==
    LET h == l[1]
        afus == {Feature("uafu", h.at + h.afu, h.mmio, 0) : x \in
                    IF h.afu = 0 THEN {} ELSE {0}}
                \cup {Feature("uafu", l[i].at, h.mmio, 0) :
                    i \in {j \in DOMAIN l : l[j].t = "afu"}}
    IN  {Feature("header", h.at, h.size, 0)}
        \cup (IF h.id = "port" THEN afus ELSE {})
        \cup {Feature(l[i].id, l[i].at, l[i].size,
                      IF l[i].vecs > VecCount THEN 0 ELSE l[i].vecs) :
                i \in {j \in DOMAIN l : l[j].t = "private"
                                        /\ l[j].id \in Supported}}

(* A card that is bound has one device per list, of the kind its header    *)
(* says, with exactly the features of that list, the AFU with the size the *)
(* port states, and interrupts as the feature states.                      *)
DevicesAsDescribed ==
    \A c \in Cards : pc[c] = "bound" =>
        LET ls == layout[c].lists
        IN  /\ Cardinality(added[c]) = Len(ls)
            /\ \A d \in added[c] :
                  /\ d.type = ls[d.list + 1][1].id
                  /\ d.feats = Described(ls[d.list + 1])

(* The same but for the size of the AFU and the interrupts, which come     *)
(* from the tables that cards probed at the same time overwrite.           *)
Places(feats) ==
    {[id |-> x.id, at |-> x.at, size |-> IF x.id = "uafu" THEN 0 ELSE x.size] :
       x \in feats}

PlacesAsDescribed ==
    \A c \in Cards : pc[c] = "bound" =>
        LET ls == layout[c].lists
        IN  /\ Cardinality(added[c]) = Len(ls)
            /\ \A d \in added[c] :
                  /\ d.type = ls[d.list + 1][1].id
                  /\ Places(d.feats) = Places(Described(ls[d.list + 1]))

(* A card that is not bound has left nothing: no registered device, no     *)
(* mapping and no id, whichever step of its probe failed.  There is one    *)
(* exception, in which the probe neither returns nor undoes anything: a    *)
(* port with an AFU is reset without header registers.                     *)
NothingLeft ==
    \A c \in Cards :
        /\ pc[c] = "off" =>
             added[c] = {} /\ regions[c] = {} /\ \A e \in ids : e[3] # c
        /\ pc[c] = "oops" =>
             /\ Header(c).id = "port" /\ Header(c).mmio # 0
             /\ ~HasHeader(feature_dev[c])

(* Ids, which become minor numbers, are never shared, and every device has *)
(* the one it holds in the table.                                          *)
IdsHeld ==
    /\ \A e, f \in ids : e[1] = f[1] /\ e[2] = f[2] => e = f
    /\ \A c \in Cards : \A d \in added[c] : <<d.type, d.id, c>> \in ids

(* "UAFU feature size should be read from PORT_CAP.MMIOSIZE".              *)
AfuSizeOfPort ==
    \A c \in Cards : \A d \in added[c] : \A f \in d.feats :
        f.id = "uafu" => f.size = layout[c].lists[d.list + 1][1].mmio

(* "to Enable UAFU, we should reset related port": what is reset is the    *)
(* port whose header is being parsed.                                      *)
ResetsRelatedPort ==
    \A c \in Cards : \A r \in resets[c] : r.dev.type = "port" /\ r.dev.list = r.list

(* A feature's registers lie in the BAR.                                   *)
InsideBar ==
    \A c \in Cards : \A d \in added[c] : \A f \in d.feats : f.at + f.size <= BarLen

=============================================================================
