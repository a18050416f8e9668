---------------------------- MODULE MCDiscovery -----------------------------
(* Small instances of Discovery: two files outside, one of the panel's own.  *)
(* A process names b, and a unit in a roundabout way; both files are in the  *)
(* known directories, b twice.                                               *)
EXTENDS Discovery

CONSTANTS a, b, own, dotted, name1, name2

MCPaths == {a, b}
MCTexts == {a, b, own, dotted}
MCAbs == [t \in MCTexts |-> IF t = dotted THEN b ELSE t]
MCLinkTo == [p \in MCPaths |-> b]
MCNames == {name1, name2}
MCProcesses == <<own, b>>
MCUnits == <<dotted, own>>
MCKnown == <<b, a, b>>
MCTree == <<a, b>>

MCFirst == [MCPaths -> {"config", "bare"}]
               \cup {[p \in MCPaths |-> IF p = a THEN "link" ELSE "config"]}
=============================================================================
