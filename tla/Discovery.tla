----------------------------- MODULE Discovery -----------------------------
(***************************************************************************)
(* What GATT discovery (lib/bt/connect.c) makes of a node's attribute      *)
(* table.  A table is the sequence of what the node's handles are: a known *)
(* characteristic (its value), an "other" one, or the "ccc" descriptor of  *)
(* the characteristic before it; the pouch service begins at handle first  *)
(* and ends with the table.  The discovery of descriptors reports CCC      *)
(* handles only, and the gateway has to tell whose they are.               *)
(***************************************************************************)
EXTENDS Integers, Sequences, FiniteSetsExt

(* enum pouch_gateway_gatt_attr, in its order.                             *)
AttrOrder == <<"info", "downlink", "uplink", "server_cert", "device_cert">>
Attrs     == {AttrOrder[i] : i \in DOMAIN AttrOrder}

Table == [uuid    : {"svc16", "svc128", "none"},
          first   : Nat \ {0},
          handles : Seq(Attrs \cup {"other", "ccc"})]

Zeroes == [a \in Attrs |-> 0]

(* discover_characteristics: the value handles among the first k handles.  *)
Values(t, k) ==
  [a \in Attrs |-> Max({h \in t.first .. k : t.handles[h] = a} \cup {0})]

(***************************************************************************)
(* Descriptors are looked for after the lowest value handle, which is 0    *)
(* when a characteristic is missing: then even before the service.         *)
(***************************************************************************)
StartHandle(v) == Min({v[a] : a \in Attrs}) + 1

(* Mutant: the first value handle below the descriptor's counts.           *)
FirstBelow(v, h) ==
  LET below == {i \in DOMAIN AttrOrder : v[AttrOrder[i]] < h}
  IN AttrOrder[Min(below)]

(* discover_descriptors: the first of the highest value handles below h.   *)
Closest(v, h) ==
  LET below == {i \in DOMAIN AttrOrder : v[AttrOrder[i]] < h}
      top   == Max({v[AttrOrder[i]] : i \in below})
  IN AttrOrder[Min({i \in below : v[AttrOrder[i]] = top})]

(* The CCC handles after the descriptors up to handle k; the last one wins. *)
Cccs(t, v, k) ==
  [a \in Attrs |->
     Max({h \in StartHandle(v) .. k :
            t.handles[h] = "ccc" /\ Closest(v, h) = a} \cup {0})]

-----------------------------------------------------------------------------
(* The definition of GATT: the CCC descriptor of a characteristic follows  *)
(* its value, before the next characteristic.                              *)
Owns(t, a, h) ==
  \E v \in t.first .. h - 1 :
    /\ t.handles[v] = a
    /\ \A i \in v + 1 .. h - 1 : t.handles[i] = "ccc"

OwnCcc(t, a) ==
  Max({h \in DOMAIN t.handles : t.handles[h] = "ccc" /\ Owns(t, a, h)} \cup {0})

(***************************************************************************)
(* The tables that lib/bt/connect.c:53 can tell apart.  A descriptor of an *)
(* unknown characteristic counts as that of the known one before it, and   *)
(* so does one of a characteristic's first occurrence.                     *)
(***************************************************************************)
Plain(t) ==
  /\ \A g, h \in t.first .. Len(t.handles) :
       (t.handles[g] = t.handles[h] /\ t.handles[g] \in Attrs) => g = h
  /\ \A h \in t.first .. Len(t.handles) - 1 :
       t.handles[h] = "other" => t.handles[h + 1] # "ccc"
=============================================================================
