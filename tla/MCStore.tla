------------------------------ MODULE MCStore ------------------------------
(* A small store: two callers, two names, an accepted and a refused          *)
(* configuration beside the one on disk, one unknown field.                  *)
EXTENDS Store

CONSTANTS p1, p2, a, b, c1, c2, bad, x

T(name, config, extra) == [name |-> name, config |-> config, extra |-> extra]
Ask(op, tunnel) == [op |-> op, tunnel |-> tunnel]

MCProcs == {p1, p2}
MCNames == {a, b}
MCConfigs == {c1, c2, bad}
MCUnacceptable == {bad}
MCExtras == {x}

(* A file may be missing, broken, or one that the user dropped in with an    *)
(* unknown field; under the name b it embeds another name.                   *)
MCHandPlaced == {Malformed, T(a, c1, x)}

MCNoFiles == {}

MCWorkload == {Ask("create", T(a, c2, x)), Ask("create", T(b, bad, NoExtra)),
               Ask("update", T(a, c2, NoExtra)),
               Ask("delete", T(a, c1, NoExtra)), Ask("get", T(a, c1, NoExtra)),
               Ask("list", T(a, c1, NoExtra))}
=============================================================================
