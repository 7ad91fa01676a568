---------------------------- MODULE MCUtmReport -----------------------------
(* Two viewers, six portals, and scans of up to four of seven records.    *)
EXTENDS UtmReport, Sequences

B(leadItem, leadLegacy, dealItem, dealLegacy) ==
    [k \in Kind |-> [s \in Spelling |->
        CASE k = "lead" /\ s = "item" -> leadItem
          [] k = "lead" /\ s = "legacy" -> leadLegacy
          [] k = "deal" /\ s = "item" -> dealItem
          [] OTHER -> dealLegacy]]

Portals == { B("ok", "ok", "ok", "ok"), B("absent", "absent", "ok", "ok"),
             B("ignores", "ok", "ignores", "ok"), B("untagged", "untagged", "ok", "ok"),
             B("ok", "ok", "ignores", "ignores"), B("coreless", "ok", "coreless", "coreless") }

R(kind, source, content, term, account, native) ==
    [kind |-> kind, account |-> account, native |-> native,
     tags |-> [d \in Dimension |-> CASE d = "source" -> source [] d = "content" -> content
                                     [] OTHER -> term]]

\* Up to four records, in any order: a bag.
Listed == <<R("lead", 1, 1, 1, "none", "none"), R("lead", 2, 1, NoTag, "none", "none"),
            R("deal", 1, 1, 2, "A", "A"), R("deal", 3, 2, 2, "A", "B"),
            R("deal", 3, 1, 1, "none", "B"), R("deal", NoTag, 3, 3, "none", "none"),
            R("deal", 2, 2, 1, "A", Unnamed)>>

ShapesScanned ==
    {[i \in 1 .. n |-> Listed[f[i]]] :
        <<n, f>> \in {<<n, f>> \in (0 .. 4) \X [1 .. 4 -> 1 .. Len(Listed)] :
                        \A i, j \in 1 .. 4 : i <= j => f[i] <= f[j]}}
=============================================================================
