--------------------------- MODULE Filament_proofs ---------------------------
(***************************************************************************)
(* Proofs about the two components that move filament: GearSync, which has *)
(* the gears follow the extruder, for any machine; and FilamentPath, which *)
(* moves the tip between spool and nozzle, for every set of layouts.       *)
(***************************************************************************)
EXTENDS GearSync, FilamentPath, TLAPS

-----------------------------------------------------------------------------
(* GearSync. *)

LEMMA MachineFields ==
    ASSUME NEW m \in Machine
    PROVE  /\ m.gate \in Gates \cup {None} /\ m.here \in Units
           /\ m.homed \in BOOLEAN /\ m.inside \in BOOLEAN /\ m.standalone \in BOOLEAN
           /\ m.print \in {"off", "started", "printing", "paused"} /\ m.monitoring \in BOOLEAN
           /\ m.wrap \in [gate : Gates \cup {None}, before : Currents]
           /\ m.mode \in [Gates -> Modes] /\ m.current \in [Gates -> Currents]
           /\ m.rd \in [Gates -> Rds] /\ m.active \in SUBSET Units
           /\ m.armed \in SUBSET Units /\ m.requested \in SUBSET Units
           /\ m.boosted \in [Units -> Gates \cup {None}]
           /\ m.pending \in [Units -> Changes \cup {None}]
           /\ m.landing \in [Units -> Changes \cup {None}]
           /\ m.scheduled \in [Units -> Rds \cup {None}]
           /\ m.pendingRd \in [Units -> Rds \cup {None}]
BY ZenonT(30) DEF Machine

(* The fields that each group of methods leaves alone.                       *)
KeepsSync(m, r) ==
    r.gate = m.gate /\ r.here = m.here /\ r.mode = m.mode /\ r.active = m.active
KeepsTurn(m, r) ==
    /\ r.rd = m.rd /\ r.scheduled = m.scheduled /\ r.pendingRd = m.pendingRd
    /\ r.monitoring = m.monitoring
KeepsPower(m, r) ==
    /\ r.current = m.current /\ r.boosted = m.boosted /\ r.pending = m.pending
    /\ r.landing = m.landing /\ r.wrap = m.wrap

LEMMA DriveType ==
    ASSUME fit \in Layouts, NEW g \in Gates
    PROVE  /\ Drive(g) \in Gates /\ fit.unit[g] \in Units
           /\ g # None /\ g # Tuned
BY GearSyncAssumption DEF Drive

LEMMA LandFields ==
    ASSUME NEW m \in Machine, NEW u \in Units, m.landing[u] # None
    PROVE  LET r == Land(m, u)
           IN /\ r \in Machine
              /\ r.landing = [m.landing EXCEPT ![u] = None]
              /\ r.current = [m.current EXCEPT ![Drive(m.landing[u].gate)] = Percent(m.landing[u])]
              /\ r.boosted = [m.boosted EXCEPT ![u] =
                                IF m.landing[u].boost THEN m.landing[u].gate ELSE None]
              /\ KeepsSync(m, r) /\ KeepsTurn(m, r) /\ r.pending = m.pending /\ r.wrap = m.wrap
<1> DEFINE c == m.landing[u]
           ls == [m.landing EXCEPT ![u] = None]
           cs == [m.current EXCEPT ![Drive(c.gate)] = Percent(c)]
           bs == [m.boosted EXCEPT ![u] = IF c.boost THEN c.gate ELSE None]
           r  == [m EXCEPT !.landing = ls, !.current = cs, !.boosted = bs]
<1>1. Land(m, u) = r
  BY Zenon DEF Land
<1>2. c.gate \in Gates /\ Percent(c) \in Currents
  <2>1. c \in Changes
    BY MachineFields
  <2>2. c.gate \in Gates
    BY <2>1, Zenon DEF Changes
  <2> QED BY <2>2, Zenon DEF Percent, Currents
<1>3. /\ ls \in [Units -> Changes \cup {None}] /\ cs \in [Gates -> Currents]
      /\ bs \in [Units -> Gates \cup {None}]
  BY <1>2, MachineFields
<1> HIDE DEF ls, cs, bs
<1>4. /\ r \in Machine /\ r.landing = ls /\ r.current = cs /\ r.boosted = bs
      /\ r.pending = m.pending /\ r.wrap = m.wrap
  BY <1>3, ZenonT(30) DEF Machine
<1>5. KeepsSync(m, r) /\ KeepsTurn(m, r)
  BY ZenonT(30) DEF Machine, KeepsSync, KeepsTurn
<1> HIDE DEF r
<1> QED BY <1>1, <1>4, <1>5, Zenon DEF ls, cs, bs

-----------------------------------------------------------------------------
(* Currents.                                                                 *)

(* A change of current that is waited for, decided or done is one of the     *)
(* selected gate, by its unit.  One on the bus is none of a wrapper's time,  *)
(* and changes the current.                                                  *)
Own(m, u, g) == g = m.gate /\ u = fit.unit[g]

Owned(m) ==
    \A u \in Units :
        /\ m.boosted[u] # None => Own(m, u, m.boosted[u])
        /\ m.pending[u] # None => Own(m, u, m.pending[u].gate)
        /\ m.landing[u] # None =>
              /\ Own(m, u, m.landing[u].gate) /\ m.wrap = NoWrap
              /\ m.current[Drive(m.gate)] # Percent(m.landing[u])

(* It lowers only what is on record as boosted.                              *)
Lowers(m) ==
    \A u \in Units : m.landing[u] # None /\ ~m.landing[u].boost => m.boosted[u] # None

NoneLanding(m) == \A u \in Units : m.landing[u] = None

(* A wrapper's current is that of the gate it began with.                    *)
Wraps(m) ==
    /\ m.wrap = NoWrap => \A d \in Gates : m.current[d] # "wrap"
    /\ m.wrap # NoWrap =>
          /\ m.gate # None /\ m.wrap.gate = m.gate /\ m.wrap.before # "wrap"
          /\ \A d \in Gates : d # Drive(m.gate) => m.current[d] # "wrap"

(* What is not refused leaves the current as asked, and the bus free.        *)
LEMMA AdjustFields ==
    ASSUME fit \in Layouts, NEW m \in Machine, Owned(m), m.gate \in Gates,
           NEW percent \in Currents
    PROVE  LET r == AdjustGearCurrent(m, m.gate, percent)
           IN /\ r \in Machine /\ Owned(r)
              /\ KeepsSync(m, r) /\ KeepsTurn(m, r) /\ r.pending = m.pending /\ r.wrap = m.wrap
              /\ \A d \in Gates : d # Drive(m.gate) => r.current[d] = m.current[d]
              /\ Refused(m, m.gate, percent) => r = m
              /\ ~Refused(m, m.gate, percent) =>
                    r.current[Drive(m.gate)] = percent /\ NoneLanding(r)
<1> DEFINE g == m.gate
           u == fit.unit[g]
           b == BusFree(m, g)
           r == AdjustGearCurrent(m, g, percent)
<1>g. Drive(g) \in Gates /\ u \in Units /\ g # None
  BY DriveType, Zenon
<1>1. CASE Refused(m, g, percent)
  <2>1. r = m
    BY <1>1, Zenon DEF AdjustGearCurrent
  <2> QED BY <1>1, <2>1, Zenon DEF KeepsSync, KeepsTurn
<1>2. CASE ~Refused(m, g, percent)
  <2>1. \A v \in Units : m.landing[v] # None => v = u /\ m.landing[v].gate = g
    BY Zenon DEF Owned, Own
  <2>2. /\ b \in Machine /\ NoneLanding(b) /\ KeepsSync(m, b) /\ KeepsTurn(m, b)
        /\ b.pending = m.pending /\ b.wrap = m.wrap
        /\ \A d \in Gates : d # Drive(g) => b.current[d] = m.current[d]
        /\ \A v \in Units : b.boosted[v] # None => Own(m, v, b.boosted[v])
    <3>1. CASE m.landing[u] = None
      <4>1. b = m
        BY <3>1, Zenon DEF BusFree
      <4>2. NoneLanding(m)
        BY <2>1, <3>1, Zenon DEF NoneLanding
      <4> QED BY <4>1, <4>2, Zenon DEF KeepsSync, KeepsTurn, Owned
    <3>2. CASE m.landing[u] # None
      <4>1. b = Land(m, u)
        BY <1>g, <2>1, <3>2, Zenon DEF BusFree
      <4> HIDE DEF b
      <4>2. /\ b \in Machine
            /\ b.landing = [m.landing EXCEPT ![u] = None]
            /\ b.current = [m.current EXCEPT ![Drive(m.landing[u].gate)] = Percent(m.landing[u])]
            /\ b.boosted = [m.boosted EXCEPT ![u] =
                                IF m.landing[u].boost THEN m.landing[u].gate ELSE None]
            /\ KeepsSync(m, b) /\ KeepsTurn(m, b) /\ b.pending = m.pending /\ b.wrap = m.wrap
        BY <1>g, <3>2, <4>1, LandFields, Zenon
      <4>3. m.landing[u].gate = g
        BY <1>g, <2>1, <3>2, Zenon
      <4>4. NoneLanding(b)
        BY <1>g, <2>1, <4>2, MachineFields DEF NoneLanding
      <4>5. \A d \in Gates : d # Drive(g) => b.current[d] = m.current[d]
        BY <4>2, <4>3, MachineFields
      <4>6. \A v \in Units : b.boosted[v] # None => Own(m, v, b.boosted[v])
        BY <4>2, <4>3, MachineFields DEF Owned, Own
      <4> QED BY <4>2, <4>4, <4>5, <4>6, Zenon
    <3> QED BY <3>1, <3>2
  <2> HIDE DEF b
  <2> DEFINE cs == [b.current EXCEPT ![Drive(g)] = percent]
             q  == [b EXCEPT !.current = cs]
  <2>3. r = q
    BY <1>2, <1>g, Zenon DEF AdjustGearCurrent, b
  <2>4. cs \in [Gates -> Currents] /\ cs[Drive(g)] = percent
          /\ \A d \in Gates : d # Drive(g) => cs[d] = b.current[d]
    BY <1>g, <2>2, MachineFields
  <2> HIDE DEF cs
  <2>5. /\ q \in Machine /\ q.current = cs /\ q.landing = b.landing /\ q.boosted = b.boosted
        /\ q.pending = b.pending /\ q.wrap = b.wrap
    BY <2>2, <2>4, ZenonT(30) DEF Machine
  <2>6. KeepsSync(b, q) /\ KeepsTurn(b, q)
    BY <2>2, ZenonT(30) DEF Machine, KeepsSync, KeepsTurn
  <2> HIDE DEF q
  <2>7. KeepsSync(m, q) /\ KeepsTurn(m, q)
    BY <2>2, <2>6, Zenon DEF KeepsSync, KeepsTurn
  <2>8. NoneLanding(q)
    BY <2>2, <2>5, Zenon DEF NoneLanding
  <2>9. Owned(q)
    <3> SUFFICES ASSUME NEW v \in Units
                 PROVE  /\ q.boosted[v] # None => Own(q, v, q.boosted[v])
                        /\ q.pending[v] # None => Own(q, v, q.pending[v].gate)
      BY <2>8, Zenon DEF Owned, NoneLanding
    <3>1. q.boosted[v] # None => q.boosted[v] = m.gate /\ v = u
      BY <2>2, <2>5, Zenon DEF Own
    <3>2. q.pending[v] # None => Own(m, v, q.pending[v].gate)
      BY <2>2, <2>5, Zenon DEF Owned
    <3>3. q.gate = m.gate
      BY <2>7, Zenon DEF KeepsSync
    <3> QED BY <3>1, <3>2, <3>3 DEF Own
  <2> QED BY <1>2, <2>2, <2>3, <2>4, <2>5, <2>7, <2>8, <2>9, Zenon
<1> QED BY <1>1, <1>2

(* What a gear that can be followed has above the sync current is on record. *)
OnRecord(m) ==
    m.gate # None /\ m.wrap = NoWrap /\ m.current[Drive(m.gate)] # "sync" =>
        m.boosted[fit.unit[m.gate]] # None

(* What was boosted is put back, in its own time or by the change under way. *)
LEMMA InvalidateTangleFields ==
    ASSUME fit \in Layouts, NEW m \in Machine, Owned(m), Lowers(m), NEW u \in Units
    PROVE  LET r == InvalidateTangle(m, u)
           IN /\ r \in Machine /\ Owned(r) /\ Lowers(r)
              /\ KeepsSync(m, r) /\ KeepsTurn(m, r) /\ r.wrap = m.wrap
              /\ OnRecord(m) => OnRecord(r)
              /\ \A d \in Gates : \/ r.current[d] = m.current[d]
                                  \/ r.current[d] = "sync" /\ m.gate # None /\ d = Drive(m.gate)
              /\ \A v \in Units : r.landing[v] # None =>
                    m.landing[v] # None /\ (v = u => r.landing[v].boost)
<1> DEFINE r  == InvalidateTangle(m, u)
           ps == [m.pending EXCEPT ![u] = None]
           bs == [m.boosted EXCEPT ![u] = None]
           n  == [m EXCEPT !.pending = ps, !.requested = m.requested \ {u}, !.boosted = bs]
           g  == m.boosted[u]
<1>f. /\ m.boosted \in [Units -> Gates \cup {None}] /\ m.pending \in [Units -> Changes \cup {None}]
      /\ m.requested \in SUBSET Units /\ m.current \in [Gates -> Currents]
      /\ m.landing \in [Units -> Changes \cup {None}] /\ m.gate \in Gates \cup {None}
  BY MachineFields, Zenon
<1>1. r = IF g = None THEN n ELSE AdjustGearCurrent(n, g, "sync")
  <2> DEFINE dropped == [m EXCEPT !.pending[u] = None, !.requested = @ \ {u}, !.boosted[u] = None]
  <2>1. dropped = n
    BY Zenon
  <2>2. r = IF g = None THEN dropped ELSE AdjustGearCurrent(dropped, g, "sync")
    BY Zenon DEF InvalidateTangle
  <2> HIDE DEF dropped, n
  <2> QED BY <2>1, <2>2, Zenon
<1>2. /\ ps \in [Units -> Changes \cup {None}] /\ bs \in [Units -> Gates \cup {None}]
      /\ ps[u] = None /\ bs[u] = None
      /\ \A v \in Units : v # u => ps[v] = m.pending[v] /\ bs[v] = m.boosted[v]
      /\ m.requested \ {u} \in SUBSET Units
  BY <1>f
<1> HIDE DEF ps, bs
<1>3. /\ n \in Machine /\ n.pending = ps /\ n.boosted = bs /\ n.landing = m.landing
      /\ n.current = m.current /\ n.wrap = m.wrap
  BY <1>2, ZenonT(30) DEF Machine
<1>4. KeepsSync(m, n) /\ KeepsTurn(m, n)
  BY <1>2, ZenonT(30) DEF Machine, KeepsSync, KeepsTurn
<1> HIDE DEF n, r
<1>5. n.gate = m.gate
  BY <1>4, Zenon DEF KeepsSync
<1>6. Owned(n)
  <2> SUFFICES ASSUME NEW v \in Units
               PROVE  /\ n.boosted[v] # None => Own(n, v, n.boosted[v])
                      /\ n.pending[v] # None => Own(n, v, n.pending[v].gate)
                      /\ n.landing[v] # None =>
                            /\ Own(n, v, n.landing[v].gate) /\ n.wrap = NoWrap
                            /\ n.current[Drive(n.gate)] # Percent(n.landing[v])
    BY Zenon DEF Owned
  <2>1. \A h : Own(m, v, h) => Own(n, v, h)
    BY <1>5, Zenon DEF Own
  <2> QED BY <1>2, <1>3, <1>5, <2>1, Zenon DEF Owned
<1>7. CASE g = None
  <2>1. r = n /\ bs = m.boosted
    BY <1>1, <1>2, <1>7, <1>f
  <2>2. Lowers(n) /\ (OnRecord(m) => OnRecord(n))
    BY <1>3, <1>5, <2>1, Zenon DEF Lowers, OnRecord
  <2>3. \A v \in Units : n.landing[v] # None =>
            m.landing[v] # None /\ (v = u => n.landing[v].boost)
    BY <1>3, <1>7, Zenon DEF Lowers
  <2> QED BY <1>3, <1>4, <1>6, <2>1, <2>2, <2>3, Zenon DEF r
<1>8. CASE g # None
  <2>1. g = m.gate /\ u = fit.unit[m.gate] /\ m.gate \in Gates /\ m.gate # None
    BY <1>8, <1>f DEF Owned, Own
  <2>2. r = AdjustGearCurrent(n, n.gate, "sync") /\ "sync" \in Currents /\ n.gate \in Gates
    BY <1>1, <1>5, <1>8, <2>1, Zenon DEF Currents
  <2>3. /\ r \in Machine /\ Owned(r)
        /\ KeepsSync(n, r) /\ KeepsTurn(n, r) /\ r.pending = n.pending /\ r.wrap = n.wrap
        /\ \A d \in Gates : d # Drive(n.gate) => r.current[d] = n.current[d]
        /\ Refused(n, n.gate, "sync") => r = n
        /\ ~Refused(n, n.gate, "sync") => r.current[Drive(n.gate)] = "sync" /\ NoneLanding(r)
    BY <1>3, <1>6, <2>2, AdjustFields, Zenon
  <2>4. KeepsSync(m, r) /\ KeepsTurn(m, r) /\ r.gate = m.gate
    BY <1>4, <2>3, Zenon DEF KeepsSync, KeepsTurn
  <2>5. Drive(m.gate) \in Gates
    BY <2>1, DriveType, Zenon
  <2>6. CASE Refused(n, n.gate, "sync")
    <3>1. r = n /\ (m.wrap # NoWrap \/ m.current[Drive(m.gate)] = "sync")
      BY <1>3, <1>5, <2>3, <2>6, Zenon DEF Refused
    <3>2. \A v \in Units : m.landing[v] # None => v = u /\ m.landing[v].boost
      <4> SUFFICES ASSUME NEW v \in Units, m.landing[v] # None
                   PROVE  v = u /\ m.landing[v].boost
        OBVIOUS
      <4>1. /\ Own(m, v, m.landing[v].gate) /\ m.wrap = NoWrap
            /\ m.current[Drive(m.gate)] # Percent(m.landing[v])
        BY Zenon DEF Owned
      <4> QED BY <2>1, <3>1, <4>1 DEF Own, Percent
    <3>3. Lowers(n) /\ OnRecord(n)
      BY <1>3, <1>5, <3>1, <3>2, Zenon DEF Lowers, OnRecord
    <3> QED BY <1>3, <1>4, <1>6, <3>1, <3>2, <3>3, Zenon DEF r
  <2>7. CASE ~Refused(n, n.gate, "sync")
    <3>1. r.current[Drive(m.gate)] = "sync" /\ NoneLanding(r)
      BY <1>5, <2>3, <2>7, Zenon
    <3>2. Lowers(r) /\ OnRecord(r)
      BY <2>4, <3>1, Zenon DEF Lowers, OnRecord, NoneLanding
    <3>3. \A d \in Gates : \/ r.current[d] = m.current[d]
                           \/ r.current[d] = "sync" /\ m.gate # None /\ d = Drive(m.gate)
      BY <1>3, <1>5, <2>1, <2>3, <3>1, Zenon
    <3> QED BY <1>3, <2>3, <2>4, <3>1, <3>2, <3>3, Zenon DEF NoneLanding, r
  <2> QED BY <2>6, <2>7
<1> QED BY <1>7, <1>8

(* A step that leaves currents and selection alone keeps all this.           *)
LEMMA PowerKept ==
    ASSUME NEW m, NEW r, KeepsPower(m, r), r.gate = m.gate
    PROVE  /\ Owned(m) => Owned(r)
           /\ Lowers(m) => Lowers(r)
           /\ OnRecord(m) => OnRecord(r)
           /\ Wraps(m) => Wraps(r)
           /\ NoneLanding(m) => NoneLanding(r)
<1> USE DEF KeepsPower
<1>1. Owned(m) => Owned(r)
  BY Zenon DEF Owned, Own
<1>2. Lowers(m) => Lowers(r)
  BY Zenon DEF Lowers
<1>3. OnRecord(m) => OnRecord(r)
  BY Zenon DEF OnRecord
<1>4. Wraps(m) => Wraps(r)
  BY Zenon DEF Wraps
<1>5. NoneLanding(m) => NoneLanding(r)
  BY Zenon DEF NoneLanding
<1> QED BY <1>1, <1>2, <1>3, <1>4, <1>5

(* Lowering the selected gate's current keeps the wrapper's.                 *)
Lowered(m, r) ==
    \A d \in Gates : \/ r.current[d] = m.current[d]
                     \/ r.current[d] = "sync" /\ m.gate # None /\ d = Drive(m.gate)

LEMMA WrapsLowered ==
    ASSUME NEW m, NEW r, Wraps(m), Lowered(m, r), r.gate = m.gate, r.wrap = m.wrap
    PROVE  Wraps(r)
<1>1. \A d \in Gates : m.current[d] # "wrap" => r.current[d] # "wrap"
  BY DEF Lowered
<1> QED BY <1>1, Zenon DEF Wraps

-----------------------------------------------------------------------------
(* Rotation distances and events.                                            *)

LEMMA InvalidateRdFields ==
    ASSUME NEW m \in Machine, NEW u \in Units
    PROVE  LET r == InvalidateRd(m, u)
           IN /\ r \in Machine /\ KeepsSync(m, r) /\ KeepsPower(m, r)
              /\ r.rd = m.rd /\ r.monitoring = m.monitoring
              /\ r.scheduled[u] = None /\ r.pendingRd[u] = None
              /\ \A v \in Units : v # u => /\ r.scheduled[v] = m.scheduled[v]
                                           /\ r.pendingRd[v] = m.pendingRd[v]
<1> DEFINE ss == [m.scheduled EXCEPT ![u] = None]
           ps == [m.pendingRd EXCEPT ![u] = None]
           n  == [m EXCEPT !.scheduled = ss, !.pendingRd = ps]
<1>1. InvalidateRd(m, u) = n
  BY Zenon DEF InvalidateRd
<1>2. /\ ss \in [Units -> Rds \cup {None}] /\ ps \in [Units -> Rds \cup {None}]
      /\ ss[u] = None /\ ps[u] = None
      /\ \A v \in Units : v # u => ss[v] = m.scheduled[v] /\ ps[v] = m.pendingRd[v]
  BY MachineFields
<1> HIDE DEF ss, ps
<1>3. n \in Machine /\ n.scheduled = ss /\ n.pendingRd = ps
  BY <1>2, ZenonT(30) DEF Machine
<1>4. KeepsSync(m, n) /\ KeepsPower(m, n) /\ n.rd = m.rd /\ n.monitoring = m.monitoring
  BY ZenonT(30) DEF Machine, KeepsSync, KeepsPower
<1> HIDE DEF n
<1> QED BY <1>1, <1>2, <1>3, <1>4, Zenon

LEMMA RestoreRdFields ==
    ASSUME fit \in Layouts, NEW m \in Machine, m.gate \in Gates
    PROVE  LET r == RestoreRd(m)
           IN /\ r \in Machine /\ KeepsSync(m, r) /\ KeepsPower(m, r)
              /\ r.monitoring = m.monitoring
              /\ r.scheduled = m.scheduled /\ r.pendingRd = m.pendingRd
              /\ r.rd[Drive(m.gate)] = m.gate
              /\ \A d \in Gates : d # Drive(m.gate) => r.rd[d] = m.rd[d]
<1> DEFINE rs == [m.rd EXCEPT ![Drive(m.gate)] = m.gate]
           n  == [m EXCEPT !.rd = rs]
<1>g. Drive(m.gate) \in Gates /\ m.gate # None /\ m.gate \in Rds
  BY DriveType, Zenon DEF Rds
<1>1. RestoreRd(m) = n
  BY <1>g, Zenon DEF RestoreRd
<1>2. /\ rs \in [Gates -> Rds] /\ rs[Drive(m.gate)] = m.gate
      /\ \A d \in Gates : d # Drive(m.gate) => rs[d] = m.rd[d]
  BY <1>g, MachineFields
<1> HIDE DEF rs
<1>3. n \in Machine /\ n.rd = rs
  BY <1>2, ZenonT(30) DEF Machine
<1>4. /\ KeepsSync(m, n) /\ KeepsPower(m, n) /\ n.monitoring = m.monitoring
      /\ n.scheduled = m.scheduled /\ n.pendingRd = m.pendingRd
  BY ZenonT(30) DEF Machine, KeepsSync, KeepsPower
<1> HIDE DEF n
<1> QED BY <1>1, <1>2, <1>3, <1>4, Zenon

(* Sync feedback begins without a rotation distance of its own.              *)
LEMMA HandleSyncedFields ==
    ASSUME NEW m \in Machine, NEW u \in Units, u \notin m.active
    PROVE  LET r == HandleSynced(u, m)
           IN /\ r \in Machine /\ KeepsPower(m, r)
              /\ r.gate = m.gate /\ r.here = m.here /\ r.mode = m.mode
              /\ r.active = m.active \cup {u}
              /\ r.rd = m.rd /\ r.monitoring = m.monitoring
              /\ r.scheduled[u] = None /\ r.pendingRd[u] = None
              /\ \A v \in Units : v # u => /\ r.scheduled[v] = m.scheduled[v]
                                           /\ r.pendingRd[v] = m.pendingRd[v]
<1> DEFINE as == m.active \cup {u}
           n  == [m EXCEPT !.active = as]
<1>1. HandleSynced(u, m) = InvalidateRd(n, u)
  <2> DEFINE lit == [m EXCEPT !.active = @ \cup {u}]
  <2>1. lit = n
    BY Zenon
  <2>2. HandleSynced(u, m) = InvalidateRd(lit, u)
    BY Zenon DEF HandleSynced
  <2> HIDE DEF lit, n
  <2> QED BY <2>1, <2>2, Zenon
<1>2. as \in SUBSET Units
  BY MachineFields
<1> HIDE DEF as
<1>3. /\ n \in Machine /\ n.active = as /\ n.gate = m.gate /\ n.here = m.here /\ n.mode = m.mode
      /\ n.rd = m.rd /\ n.monitoring = m.monitoring
      /\ n.scheduled = m.scheduled /\ n.pendingRd = m.pendingRd
  BY <1>2, ZenonT(30) DEF Machine
<1>4. KeepsPower(m, n)
  BY ZenonT(30) DEF Machine, KeepsPower
<1> HIDE DEF n
<1> DEFINE r == InvalidateRd(n, u)
<1>5. /\ r \in Machine /\ KeepsSync(n, r) /\ KeepsPower(n, r)
      /\ r.rd = n.rd /\ r.monitoring = n.monitoring
      /\ r.scheduled[u] = None /\ r.pendingRd[u] = None
      /\ \A v \in Units : v # u => /\ r.scheduled[v] = n.scheduled[v]
                                   /\ r.pendingRd[v] = n.pendingRd[v]
  BY <1>3, InvalidateRdFields, Zenon
<1> HIDE DEF r
<1>6. KeepsPower(m, r)
  BY <1>4, <1>5, Zenon DEF KeepsPower
<1>7. r.gate = m.gate /\ r.here = m.here /\ r.mode = m.mode /\ r.active = as
  BY <1>3, <1>5, Zenon DEF KeepsSync
<1> QED BY <1>1, <1>3, <1>5, <1>6, <1>7, Zenon DEF r, as

(* It ends with the calibrated rotation distance, and nothing waits to raise *)
(* the current or to lower it.                                               *)
LEMMA HandleUnsyncedFields ==
    ASSUME fit \in Layouts, NEW m \in Machine, Owned(m), Lowers(m), m.gate \in Gates,
           NEW u \in Units, u \in m.active
    PROVE  LET r == HandleUnsynced(u, m)
           IN /\ r \in Machine /\ Owned(r) /\ Lowers(r) /\ Lowered(m, r) /\ r.wrap = m.wrap
              /\ r.gate = m.gate /\ r.here = m.here /\ r.mode = m.mode
              /\ r.active = m.active \ {u} /\ r.monitoring = m.monitoring
              /\ r.rd[Drive(m.gate)] = m.gate
              /\ \A d \in Gates : d # Drive(m.gate) => r.rd[d] = m.rd[d]
              /\ r.scheduled[u] = None /\ r.pendingRd[u] = None
              /\ \A v \in Units : v # u => /\ r.scheduled[v] = m.scheduled[v]
                                           /\ r.pendingRd[v] = m.pendingRd[v]
              /\ \A v \in Units : r.landing[v] # None =>
                    m.landing[v] # None /\ (v = u => r.landing[v].boost)
<1> DEFINE calm == InvalidateTangle(m, u)
           as   == calm.active \ {u}
           ar   == calm.armed \ {u}
           off  == [calm EXCEPT !.active = as, !.armed = ar]
           low  == InvalidateTangle(off, u)
           turn == RestoreRd(low)
           r    == InvalidateRd(turn, u)
<1>1. /\ calm \in Machine /\ Owned(calm) /\ Lowers(calm)
      /\ KeepsSync(m, calm) /\ KeepsTurn(m, calm) /\ calm.wrap = m.wrap
      /\ Lowered(m, calm)
      /\ \A v \in Units : calm.landing[v] # None =>
            m.landing[v] # None /\ (v = u => calm.landing[v].boost)
  BY InvalidateTangleFields, Zenon DEF Lowered
<1>2. HandleUnsynced(u, m) = r
  <2> DEFINE lit == [calm EXCEPT !.active = @ \ {u}, !.armed = @ \ {u}]
  <2>1. lit = off
    BY Zenon
  <2>2. HandleUnsynced(u, m) = InvalidateRd(RestoreRd(InvalidateTangle(lit, u)), u)
    BY Zenon DEF HandleUnsynced
  <2> HIDE DEF lit, off
  <2> QED BY <2>1, <2>2, Zenon
<1> HIDE DEF calm
<1>3. as \in SUBSET Units /\ ar \in SUBSET Units
  BY <1>1, MachineFields
<1> HIDE DEF as, ar
<1>4. /\ off \in Machine /\ off.active = as /\ off.gate = calm.gate /\ off.here = calm.here
      /\ off.mode = calm.mode
  BY <1>1, <1>3, ZenonT(30) DEF Machine
<1>5. KeepsPower(calm, off) /\ KeepsTurn(calm, off)
  BY <1>1, ZenonT(30) DEF Machine, KeepsPower, KeepsTurn
<1> HIDE DEF off
<1>6. Owned(off) /\ Lowers(off)
  BY <1>1, <1>4, <1>5, PowerKept, Zenon
<1>7. /\ low \in Machine /\ Owned(low) /\ Lowers(low)
      /\ KeepsSync(off, low) /\ KeepsTurn(off, low) /\ low.wrap = off.wrap
      /\ Lowered(off, low)
      /\ \A v \in Units : low.landing[v] # None =>
            off.landing[v] # None /\ (v = u => low.landing[v].boost)
  BY <1>4, <1>6, InvalidateTangleFields, Zenon DEF Lowered
<1> HIDE DEF low
<1>8. low.gate = m.gate /\ low.gate \in Gates /\ off.gate = m.gate /\ calm.gate = m.gate
  BY <1>1, <1>4, <1>7, Zenon DEF KeepsSync
<1>9. /\ turn \in Machine /\ KeepsSync(low, turn) /\ KeepsPower(low, turn)
      /\ turn.monitoring = low.monitoring
      /\ turn.scheduled = low.scheduled /\ turn.pendingRd = low.pendingRd
      /\ turn.rd[Drive(low.gate)] = low.gate
      /\ \A d \in Gates : d # Drive(low.gate) => turn.rd[d] = low.rd[d]
  BY <1>7, <1>8, RestoreRdFields, Zenon
<1> HIDE DEF turn
<1>10. /\ r \in Machine /\ KeepsSync(turn, r) /\ KeepsPower(turn, r)
       /\ r.rd = turn.rd /\ r.monitoring = turn.monitoring
       /\ r.scheduled[u] = None /\ r.pendingRd[u] = None
       /\ \A v \in Units : v # u => /\ r.scheduled[v] = turn.scheduled[v]
                                    /\ r.pendingRd[v] = turn.pendingRd[v]
  BY <1>9, InvalidateRdFields, Zenon
<1> HIDE DEF r
<1>11. KeepsPower(low, r) /\ KeepsSync(low, r) /\ r.gate = low.gate
  BY <1>9, <1>10, Zenon DEF KeepsPower, KeepsSync
<1>12. Owned(r) /\ Lowers(r)
  BY <1>7, <1>11, PowerKept, Zenon
<1>13. r.gate = m.gate /\ r.here = m.here /\ r.mode = m.mode /\ r.active = m.active \ {u}
  <2>1. r.gate = m.gate /\ r.here = m.here /\ r.mode = m.mode /\ r.active = as
    BY <1>1, <1>4, <1>7, <1>11, Zenon DEF KeepsSync
  <2>2. calm.active = m.active
    BY <1>1, Zenon DEF KeepsSync
  <2> QED BY <2>1, <2>2, Zenon DEF as
<1>14. \A v \in Units : r.landing[v] # None =>
            m.landing[v] # None /\ (v = u => r.landing[v].boost)
  BY <1>1, <1>5, <1>7, <1>11, Zenon DEF KeepsPower
<1>15. Lowered(m, r) /\ r.wrap = m.wrap
  <2>1. \A d \in Gates : r.current[d] = low.current[d] /\ off.current[d] = calm.current[d]
    BY <1>5, <1>11, Zenon DEF KeepsPower
  <2>2. Lowered(m, r)
    <3> SUFFICES ASSUME NEW d \in Gates
                 PROVE  \/ r.current[d] = m.current[d]
                        \/ r.current[d] = "sync" /\ m.gate # None /\ d = Drive(m.gate)
      BY DEF Lowered
    <3>1. \/ low.current[d] = off.current[d]
          \/ low.current[d] = "sync" /\ m.gate # None /\ d = Drive(m.gate)
      BY <1>7, <1>8, Zenon DEF Lowered
    <3>2. \/ calm.current[d] = m.current[d]
          \/ calm.current[d] = "sync" /\ m.gate # None /\ d = Drive(m.gate)
      BY <1>1, Zenon DEF Lowered
    <3>3. r.current[d] = low.current[d] /\ off.current[d] = calm.current[d]
      BY <2>1
    <3> QED BY <3>1, <3>2, <3>3
  <2>3. r.wrap = m.wrap
    BY <1>1, <1>5, <1>7, <1>11, Zenon DEF KeepsPower
  <2> QED BY <2>2, <2>3
<1>16. /\ low.rd = m.rd /\ low.scheduled = m.scheduled /\ low.pendingRd = m.pendingRd
       /\ low.monitoring = m.monitoring
  BY <1>1, <1>5, <1>7, Zenon DEF KeepsTurn
<1>17. /\ r.monitoring = m.monitoring /\ r.rd[Drive(m.gate)] = m.gate
       /\ \A d \in Gates : d # Drive(m.gate) => r.rd[d] = m.rd[d]
       /\ r.scheduled[u] = None /\ r.pendingRd[u] = None
       /\ \A v \in Units : v # u => /\ r.scheduled[v] = m.scheduled[v]
                                    /\ r.pendingRd[v] = m.pendingRd[v]
  <2>1. r.monitoring = m.monitoring
    BY <1>9, <1>10, <1>16, Zenon
  <2>2. r.rd[Drive(m.gate)] = m.gate
    BY <1>8, <1>9, <1>10, Zenon
  <2>3. \A d \in Gates : d # Drive(m.gate) => r.rd[d] = m.rd[d]
    BY <1>8, <1>9, <1>10, <1>16
  <2>4. turn.scheduled = m.scheduled /\ turn.pendingRd = m.pendingRd
    BY <1>9, <1>16, Zenon
  <2> QED BY <1>10, <2>1, <2>2, <2>3, <2>4, Zenon
<1> QED BY <1>2, <1>10, <1>12, <1>13, <1>14, <1>15, <1>17, Zenon

-----------------------------------------------------------------------------
(* What every method keeps.                                                  *)

Synced(m) == m.gate # None /\ m.mode[Drive(m.gate)] = "follow"

One(m) ==
    /\ \A d \in Gates : m.mode[d] # "unsynced" => m.gate # None /\ d = Drive(m.gate)
    /\ m.active = IF Synced(m) THEN {fit.unit[m.gate]} ELSE {}
    /\ m.gate # None => m.here = fit.unit[m.gate]

(* A change of rotation distance that is not applied yet is the last one     *)
(* scheduled.                                                                *)
Turns(m) ==
    /\ m.gate # None /\ ~Synced(m) => m.rd[Drive(m.gate)] = m.gate
    /\ \A d \in Gates : m.rd[d] = Tuned => Synced(m) /\ d = Drive(m.gate)
    /\ \A u \in m.active : m.monitoring /\ m.scheduled[u] # None /\ m.pendingRd[u] = None
           => m.rd[Drive(m.gate)] = m.scheduled[u]
    /\ \A u \in Units : m.pendingRd[u] # None => m.pendingRd[u] = m.scheduled[u]

(* A change on the bus is one to a gear that follows.                        *)
Power(m) ==
    /\ Owned(m) /\ Lowers(m) /\ Wraps(m)
    /\ Synced(m) => OnRecord(m)
    /\ Synced(m) \/ NoneLanding(m)

Good(m) == m \in Machine /\ One(m) /\ Turns(m) /\ Power(m)

(* Between commands.                                                         *)
Rested(m) ==
    /\ m.wrap = NoWrap
    /\ m.gate # None /\ ~Synced(m) => m.current[Drive(m.gate)] = "full"

(* A method that selects no gate and neither begins nor ends monitoring.     *)
Stays(m, r) ==
    /\ Good(r)
    /\ r.gate = m.gate /\ r.here = m.here /\ r.wrap = m.wrap /\ r.monitoring = m.monitoring

LEMMA SyncKept ==
    ASSUME NEW m, NEW r, KeepsSync(m, r)
    PROVE  /\ r.gate = m.gate /\ (Synced(r) <=> Synced(m))
           /\ One(m) => One(r)
           /\ KeepsTurn(m, r) /\ Turns(m) => Turns(r)
<1>1. (Synced(r) <=> Synced(m)) /\ r.gate = m.gate
  BY Zenon DEF Synced, KeepsSync
<1>2. One(m) => One(r)
  BY <1>1, Zenon DEF One, KeepsSync
<1>3. ASSUME KeepsTurn(m, r), Turns(m) PROVE Turns(r)
  <2>1. /\ r.gate = m.gate /\ r.active = m.active /\ r.rd = m.rd /\ r.monitoring = m.monitoring
        /\ r.scheduled = m.scheduled /\ r.pendingRd = m.pendingRd
    BY <1>3 DEF KeepsSync, KeepsTurn
  <2> QED BY <1>1, <1>3, <2>1 DEF Turns
<1> QED BY <1>1, <1>2, <1>3

LEMMA GoodSame ==
    ASSUME NEW m, Good(m), NEW r \in Machine, KeepsSync(m, r), KeepsTurn(m, r), KeepsPower(m, r)
    PROVE  /\ Stays(m, r) /\ (Synced(r) <=> Synced(m))
           /\ Rested(m) => Rested(r)
<1>1. /\ r.gate = m.gate /\ (Synced(r) <=> Synced(m))
      /\ One(r) /\ Turns(r)
  BY SyncKept, Zenon DEF Good
<1>2. Power(r)
  BY <1>1, PowerKept, Zenon DEF Good, Power
<1>3. Rested(m) => Rested(r)
  BY <1>1, Zenon DEF Rested, KeepsPower
<1> QED BY <1>1, <1>2, <1>3, Zenon DEF Stays, Good, KeepsSync, KeepsTurn, KeepsPower

LEMMA StaysTransitive ==
    ASSUME NEW m, NEW n, NEW r, Stays(m, n), Stays(n, r)
    PROVE  Stays(m, r)
BY Zenon DEF Stays

(* The gate of a machine, if any, and what follows.                          *)
LEMMA GoodFacts ==
    ASSUME fit \in Layouts, NEW m, Good(m)
    PROVE  /\ m \in Machine /\ Owned(m) /\ Lowers(m) /\ Wraps(m) /\ One(m) /\ Turns(m)
           /\ m.gate # None => /\ m.gate \in Gates /\ Drive(m.gate) \in Gates
                               /\ m.here = fit.unit[m.gate] /\ m.here \in Units
           /\ \A u \in m.active : Synced(m) /\ u = fit.unit[m.gate] /\ u = m.here
           /\ Synced(m) => m.active = {fit.unit[m.gate]} /\ m.gate # None
           /\ ~Synced(m) => m.active = {} /\ NoneLanding(m)
<1>1. m \in Machine /\ Owned(m) /\ Lowers(m) /\ Wraps(m) /\ One(m) /\ Turns(m)
  BY Zenon DEF Good, Power
<1>2. m.gate # None => m.gate \in Gates
  BY <1>1, MachineFields
<1>3. m.gate # None => Drive(m.gate) \in Gates /\ fit.unit[m.gate] \in Units
  BY <1>2, DriveType
<1>4. ~Synced(m) => NoneLanding(m)
  BY Zenon DEF Good, Power
<1>5. \A u \in m.active : Synced(m) /\ u = fit.unit[m.gate]
  BY <1>1 DEF One
<1>6. Synced(m) => m.active = {fit.unit[m.gate]} /\ m.gate # None
  BY <1>1, Zenon DEF One, Synced
<1>7. m.gate # None => m.here = fit.unit[m.gate]
  BY <1>1, Zenon DEF One
<1>8. ~Synced(m) => m.active = {}
  BY <1>1, Zenon DEF One
<1> QED BY <1>1, <1>2, <1>3, <1>4, <1>5, <1>6, <1>7, <1>8, Zenon

-----------------------------------------------------------------------------
(* Drives.                                                                   *)

(* Whatever the modes, other drives keep theirs.                             *)
LEMMA ModeSet ==
    ASSUME fit \in Layouts, NEW m \in Machine, m.gate \in Gates, NEW mode \in Modes
    PROVE  LET n == [m EXCEPT !.mode[Drive(m.gate)] = mode]
           IN /\ n \in Machine /\ KeepsTurn(m, n) /\ KeepsPower(m, n)
              /\ n.gate = m.gate /\ n.here = m.here /\ n.active = m.active
              /\ n.mode[Drive(m.gate)] = mode
              /\ \A d \in Gates : d # Drive(m.gate) => n.mode[d] = m.mode[d]
<1> DEFINE ms == [m.mode EXCEPT ![Drive(m.gate)] = mode]
           q  == [m EXCEPT !.mode = ms]
           n  == [m EXCEPT !.mode[Drive(m.gate)] = mode]
<1>1. n = q
  BY Zenon
<1>2. /\ ms \in [Gates -> Modes] /\ ms[Drive(m.gate)] = mode
      /\ \A d \in Gates : d # Drive(m.gate) => ms[d] = m.mode[d]
  BY DriveType, MachineFields
<1> HIDE DEF ms
<1>3. /\ q \in Machine /\ q.mode = ms /\ q.gate = m.gate /\ q.here = m.here
      /\ q.active = m.active
  BY <1>2, ZenonT(30) DEF Machine
<1>4. KeepsTurn(m, q) /\ KeepsPower(m, q)
  BY ZenonT(30) DEF Machine, KeepsTurn, KeepsPower
<1> HIDE DEF q, n
<1> QED BY <1>1, <1>2, <1>3, <1>4, Zenon DEF n

(* A drive that comes to follow has no change of current under way yet; one  *)
(* that no longer does has none that would lower it.                         *)
Switched(m, r, mode) ==
    /\ r \in Machine /\ One(r) /\ Turns(r) /\ Owned(r) /\ Lowers(r) /\ Wraps(r)
    /\ r.gate = m.gate /\ r.here = m.here /\ r.wrap = m.wrap /\ r.monitoring = m.monitoring
    /\ r.mode[Drive(r.gate)] = mode /\ (Synced(r) <=> mode = "follow")
    /\ \A v \in Units : r.landing[v] # None => m.landing[v] # None
    /\ mode = "follow" => OnRecord(r) \/ NoneLanding(r)
    /\ mode # "follow" => \A v \in Units : r.landing[v] # None => r.landing[v].boost

LEMMA SyncModeFields ==
    ASSUME fit \in Layouts, NEW m, Good(m), m.gate \in Gates, NEW mode \in Modes
    PROVE  Switched(m, SyncMode(m, m.gate, mode), mode)
<1> DEFINE g == m.gate
           d == Drive(g)
           u == fit.unit[g]
           n == [m EXCEPT !.mode[d] = mode]
           r == SyncMode(m, g, mode)
<1> SUFFICES Switched(m, r, mode)
  OBVIOUS
<1>g. d \in Gates /\ u \in Units /\ g # None
  BY DriveType, Zenon
<1>m. m \in Machine /\ Owned(m) /\ Lowers(m) /\ Wraps(m) /\ One(m) /\ Turns(m)
  BY Zenon DEF Good, Power
<1>s. Synced(m) <=> m.mode[d] = "follow"
  BY <1>g, Zenon DEF Synced
<1>n. /\ n \in Machine /\ KeepsTurn(m, n) /\ KeepsPower(m, n)
      /\ n.gate = g /\ n.here = m.here /\ n.active = m.active
      /\ n.mode[d] = mode /\ \A e \in Gates : e # d => n.mode[e] = m.mode[e]
  BY <1>m, ModeSet, Zenon
<1>1. r = IF mode = m.mode[d] THEN m
          ELSE IF mode = "follow" THEN HandleSynced(Hearing(n), n)
          ELSE IF m.mode[d] = "follow" THEN HandleUnsynced(Hearing(n), n)
          ELSE n
  BY Zenon DEF SyncMode
<1> HIDE DEF n, r
<1>h. Hearing(n) = u
  BY <1>n, Zenon DEF Hearing
<1>p. /\ Owned(n) /\ Lowers(n) /\ Wraps(n) /\ n.landing = m.landing /\ n.wrap = m.wrap
      /\ n.monitoring = m.monitoring /\ n.rd = m.rd
      /\ n.scheduled = m.scheduled /\ n.pendingRd = m.pendingRd
      /\ NoneLanding(m) => NoneLanding(n)
  BY <1>m, <1>n, PowerKept, Zenon DEF KeepsPower, KeepsTurn
<1>o. /\ \A e \in Gates : e # d => m.mode[e] = "unsynced"
      /\ m.here = u /\ m.active = IF Synced(m) THEN {u} ELSE {}
  BY <1>g, <1>m, Zenon DEF One
<1>q. \A q : /\ q.gate = g /\ q.here = m.here /\ q.mode = n.mode
             /\ q.active = IF mode = "follow" THEN {u} ELSE {}
             => One(q) /\ (Synced(q) <=> mode = "follow")
  <2> SUFFICES ASSUME NEW q, q.gate = g, q.here = m.here, q.mode = n.mode,
                      q.active = IF mode = "follow" THEN {u} ELSE {}
               PROVE  One(q) /\ (Synced(q) <=> mode = "follow")
    OBVIOUS
  <2>1. Synced(q) <=> mode = "follow"
    BY <1>g, <1>n, Zenon DEF Synced
  <2>2. \A e \in Gates : q.mode[e] # "unsynced" => q.gate # None /\ e = Drive(q.gate)
    BY <1>g, <1>n, <1>o, Zenon
  <2>3. q.active = IF Synced(q) THEN {fit.unit[q.gate]} ELSE {}
    BY <2>1, Zenon
  <2>4. q.gate # None => q.here = fit.unit[q.gate]
    BY <1>o, Zenon
  <2> QED BY <2>1, <2>2, <2>3, <2>4, Zenon DEF One
<1>2. CASE mode = m.mode[d]
  <2>1. r = m
    BY <1>1, <1>2, Zenon
  <2>2. Synced(m) <=> mode = "follow"
    BY <1>2, <1>s, Zenon
  <2>3. /\ mode = "follow" => OnRecord(m)
        /\ mode # "follow" => NoneLanding(m)
    BY <2>2, Zenon DEF Good, Power
  <2>4. m.mode[Drive(m.gate)] = mode
    BY <1>2
  <2> QED BY <1>m, <2>1, <2>2, <2>3, <2>4, Zenon DEF Switched, NoneLanding
<1>3. CASE mode # m.mode[d] /\ mode = "follow"
  <2>1. ~Synced(m) /\ NoneLanding(m) /\ m.active = {}
    BY <1>3, <1>s, GoodFacts, Zenon
  <2>2. r = HandleSynced(u, n) /\ u \notin n.active
    BY <1>1, <1>3, <1>h, <1>n, <2>1
  <2>3. /\ r \in Machine /\ KeepsPower(n, r)
        /\ r.gate = n.gate /\ r.here = n.here /\ r.mode = n.mode
        /\ r.active = n.active \cup {u}
        /\ r.rd = n.rd /\ r.monitoring = n.monitoring
        /\ r.scheduled[u] = None /\ r.pendingRd[u] = None
        /\ \A v \in Units : v # u => /\ r.scheduled[v] = n.scheduled[v]
                                     /\ r.pendingRd[v] = n.pendingRd[v]
    <3> DEFINE q == HandleSynced(u, n)
    <3>1. /\ q \in Machine /\ KeepsPower(n, q)
          /\ q.gate = n.gate /\ q.here = n.here /\ q.mode = n.mode
          /\ q.active = n.active \cup {u}
          /\ q.rd = n.rd /\ q.monitoring = n.monitoring
          /\ q.scheduled[u] = None /\ q.pendingRd[u] = None
          /\ \A v \in Units : v # u => /\ q.scheduled[v] = n.scheduled[v]
                                       /\ q.pendingRd[v] = n.pendingRd[v]
      BY <1>g, <1>n, <2>2, HandleSyncedFields, Zenon
    <3>2. r = q
      BY <2>2
    <3> HIDE DEF q
    <3> QED BY <3>1, <3>2
  <2>4. r.active = {u} /\ r.gate = g /\ r.here = m.here
    BY <1>n, <2>1, <2>3
  <2>5. One(r) /\ Synced(r)
    BY <1>3, <1>q, <2>3, <2>4, Zenon
  <2>6. Turns(r)
    <3>1. \A e \in Gates : r.rd[e] # Tuned
      BY <1>m, <1>p, <2>1, <2>3, Zenon DEF Turns
    <3>2. \A v \in Units : r.pendingRd[v] # None => r.pendingRd[v] = r.scheduled[v]
      BY <1>m, <1>p, <2>3 DEF Turns
    <3>3. \A v \in r.active : r.scheduled[v] = None
      BY <2>3, <2>4
    <3> QED BY <2>5, <3>1, <3>2, <3>3, Zenon DEF Turns
  <2>7. Owned(r) /\ Lowers(r) /\ Wraps(r) /\ NoneLanding(r)
    BY <1>p, <2>1, <2>3, PowerKept, Zenon
  <2>8. r.mode[Drive(r.gate)] = mode
    BY <1>n, <2>3, <2>4
  <2> QED BY <1>3, <1>p, <2>3, <2>4, <2>5, <2>6, <2>7, <2>8, Zenon
          DEF Switched, NoneLanding, KeepsPower
<1>4. CASE mode # "follow" /\ m.mode[d] = "follow"
  <2>1. Synced(m) /\ m.active = {u}
    BY <1>4, <1>s, <1>o, Zenon
  <2>2. r = HandleUnsynced(u, n) /\ u \in n.active
    BY <1>1, <1>4, <1>h, <1>n, <2>1
  <2>3. /\ r \in Machine /\ Owned(r) /\ Lowers(r) /\ Lowered(n, r) /\ r.wrap = n.wrap
        /\ r.gate = n.gate /\ r.here = n.here /\ r.mode = n.mode
        /\ r.active = n.active \ {u} /\ r.monitoring = n.monitoring
        /\ r.rd[Drive(n.gate)] = n.gate
        /\ \A e \in Gates : e # Drive(n.gate) => r.rd[e] = n.rd[e]
        /\ r.scheduled[u] = None /\ r.pendingRd[u] = None
        /\ \A v \in Units : v # u => /\ r.scheduled[v] = n.scheduled[v]
                                     /\ r.pendingRd[v] = n.pendingRd[v]
        /\ \A v \in Units : r.landing[v] # None =>
              n.landing[v] # None /\ (v = u => r.landing[v].boost)
    <3> DEFINE q == HandleUnsynced(u, n)
    <3>1. /\ q \in Machine /\ Owned(q) /\ Lowers(q) /\ Lowered(n, q) /\ q.wrap = n.wrap
          /\ q.gate = n.gate /\ q.here = n.here /\ q.mode = n.mode
          /\ q.active = n.active \ {u} /\ q.monitoring = n.monitoring
          /\ q.rd[Drive(n.gate)] = n.gate
          /\ \A e \in Gates : e # Drive(n.gate) => q.rd[e] = n.rd[e]
          /\ q.scheduled[u] = None /\ q.pendingRd[u] = None
          /\ \A v \in Units : v # u => /\ q.scheduled[v] = n.scheduled[v]
                                       /\ q.pendingRd[v] = n.pendingRd[v]
          /\ \A v \in Units : q.landing[v] # None =>
                n.landing[v] # None /\ (v = u => q.landing[v].boost)
      BY <1>g, <1>n, <1>p, <2>2, HandleUnsyncedFields, Zenon
    <3>2. r = q
      BY <2>2
    <3> HIDE DEF q
    <3> QED BY <3>1, <3>2
  <2>4. r.active = {} /\ r.gate = g /\ r.here = m.here
    BY <1>n, <2>1, <2>3
  <2>5. One(r) /\ ~Synced(r)
    BY <1>4, <1>q, <2>3, <2>4, Zenon
  <2>6. Turns(r)
    <3>1. r.rd[d] = g /\ g # Tuned
      BY <1>n, <2>3, DriveType, Zenon
    <3>2. \A e \in Gates : e # d => r.rd[e] # Tuned
      BY <1>m, <1>n, <1>p, <2>3 DEF Turns
    <3>3. \A v \in Units : r.pendingRd[v] # None => r.pendingRd[v] = r.scheduled[v]
      BY <1>m, <1>p, <2>3 DEF Turns
    <3> QED BY <2>4, <3>1, <3>2, <3>3 DEF Turns
  <2>7. Wraps(r)
    BY <1>p, <2>3, WrapsLowered, Zenon
  <2>8. \A v \in Units : r.landing[v] # None => m.landing[v] # None /\ r.landing[v].boost
    <3> SUFFICES ASSUME NEW v \in Units, r.landing[v] # None
                 PROVE  m.landing[v] # None /\ r.landing[v].boost
      OBVIOUS
    <3>1. n.landing[v] # None /\ (v = u => r.landing[v].boost)
      BY <2>3, Zenon
    <3>2. v = u
      <4>1. Own(n, v, n.landing[v].gate)
        BY <1>p, <3>1, Zenon DEF Owned
      <4> QED BY <1>n, <4>1 DEF Own
    <3> QED BY <1>p, <3>1, <3>2, Zenon
  <2>9. r.mode[Drive(r.gate)] = mode
    BY <1>n, <2>3, <2>4
  <2> QED BY <1>4, <1>p, <2>3, <2>4, <2>5, <2>6, <2>7, <2>8, <2>9, Zenon DEF Switched
<1>5. CASE mode # m.mode[d] /\ mode # "follow" /\ m.mode[d] # "follow"
  <2>1. r = n
    BY <1>1, <1>5, Zenon
  <2>2. ~Synced(m) /\ NoneLanding(m) /\ m.active = {}
    BY <1>5, <1>s, GoodFacts, Zenon
  <2>3. One(n) /\ ~Synced(n)
    BY <1>5, <1>n, <1>q, <2>2, Zenon
  <2>4. Turns(n)
    <3>1. \A e \in Gates : n.rd[e] # Tuned
      BY <1>m, <1>p, <2>2, Zenon DEF Turns
    <3>2. n.rd[d] = g /\ n.active = {}
      BY <1>m, <1>n, <1>p, <1>g, <2>2, Zenon DEF Turns
    <3>3. \A v \in Units : n.pendingRd[v] # None => n.pendingRd[v] = n.scheduled[v]
      BY <1>m, <1>p, Zenon DEF Turns
    <3> QED BY <1>n, <2>3, <3>1, <3>2, <3>3 DEF Turns
  <2> QED BY <1>5, <1>n, <1>p, <2>1, <2>2, <2>3, <2>4, Zenon DEF Switched, NoneLanding
<1> QED BY <1>2, <1>3, <1>4, <1>5, Zenon

(* A move begins with a gear as wished, on whose current something is on     *)
(* record, or which has its full current.                                    *)
LEMMA MotorsFields ==
    ASSUME fit \in Layouts, NEW m, Good(m), m.gate \in Gates, NEW mode \in Modes
    PROVE  LET r == Motors(m, mode)
           IN /\ Stays(m, r) /\ (Synced(r) <=> mode = "follow")
              /\ m.wrap = NoWrap => Rested(r)
<1> DEFINE n       == SyncMode(m, m.gate, mode)
           percent == IF mode = "follow" THEN "sync" ELSE "full"
           r       == AdjustGearCurrent(n, n.gate, percent)
           d       == Drive(m.gate)
<1>1. Switched(m, n, mode)
  BY SyncModeFields, Zenon
<1>2. Motors(m, mode) = r
  <2>1. n.gate = m.gate
    BY <1>1, Zenon DEF Switched
  <2> HIDE DEF n
  <2> QED BY <2>1, Zenon DEF Motors, n
<1> HIDE DEF n
<1>3. /\ n \in Machine /\ One(n) /\ Turns(n) /\ Owned(n) /\ Lowers(n) /\ Wraps(n)
      /\ n.gate = m.gate /\ n.here = m.here /\ n.wrap = m.wrap /\ n.monitoring = m.monitoring
      /\ Synced(n) <=> mode = "follow"
      /\ mode = "follow" => OnRecord(n) \/ NoneLanding(n)
      /\ mode # "follow" => \A v \in Units : n.landing[v] # None => n.landing[v].boost
  BY <1>1, Zenon DEF Switched
<1>4. percent \in Currents /\ percent # "wrap"
  BY DEF Currents
<1>5. /\ r \in Machine /\ Owned(r)
      /\ KeepsSync(n, r) /\ KeepsTurn(n, r) /\ r.pending = n.pending /\ r.wrap = n.wrap
      /\ \A e \in Gates : e # Drive(n.gate) => r.current[e] = n.current[e]
      /\ Refused(n, n.gate, percent) => r = n
      /\ ~Refused(n, n.gate, percent) => r.current[Drive(n.gate)] = percent /\ NoneLanding(r)
  BY <1>3, <1>4, AdjustFields, Zenon
<1> HIDE DEF r
<1>6. r.gate = m.gate /\ r.here = m.here /\ r.monitoring = m.monitoring
  BY <1>3, <1>5, Zenon DEF KeepsSync, KeepsTurn
<1>7. (Synced(r) <=> mode = "follow") /\ One(r) /\ Turns(r)
  BY <1>3, <1>5, SyncKept, Zenon
<1>g. d \in Gates /\ m.gate # None
  BY DriveType, Zenon
<1>10. CASE Refused(n, n.gate, percent)
  <2>1. r = n
    BY <1>5, <1>10, Zenon
  <2>2. n.wrap # NoWrap \/ n.current[d] = percent
    BY <1>3, <1>10, Zenon DEF Refused
  <2>3. n.wrap = NoWrap /\ n.current[d] = "full" /\ mode # "follow" => NoneLanding(n)
    <3> SUFFICES ASSUME n.wrap = NoWrap, n.current[d] = "full", mode # "follow",
                        NEW v \in Units, n.landing[v] # None
                 PROVE  FALSE
      BY Zenon DEF NoneLanding
    <3>1. n.landing[v].boost /\ n.current[d] # Percent(n.landing[v])
      BY <1>3, Zenon DEF Owned
    <3> QED BY <3>1 DEF Percent
  <2>4. n.wrap # NoWrap => NoneLanding(n)
    BY <1>3, Zenon DEF Owned, NoneLanding
  <2>5. mode # "follow" => NoneLanding(n)
    BY <2>2, <2>3, <2>4
  <2>6. mode = "follow" => OnRecord(n)
    BY <2>2, <1>3, Zenon DEF OnRecord
  <2>7. Power(r)
    BY <1>3, <2>1, <2>5, <2>6, Zenon DEF Power
  <2>8. m.wrap = NoWrap => Rested(r)
    BY <1>3, <2>1, <2>2, Zenon DEF Rested
  <2> QED BY <1>2, <1>3, <1>5, <1>6, <1>7, <2>7, <2>8, Zenon DEF Stays, Good
<1>11. CASE ~Refused(n, n.gate, percent)
  <2>1. r.current[d] = percent /\ NoneLanding(r) /\ n.wrap = NoWrap
    BY <1>3, <1>5, <1>11, Zenon DEF Refused
  <2>2. Lowers(r)
    BY <2>1, Zenon DEF Lowers, NoneLanding
  <2>3. Wraps(r)
    <3>1. \A e \in Gates : n.current[e] # "wrap" => r.current[e] # "wrap"
      BY <1>3, <1>4, <1>5, <2>1
    <3> QED BY <1>3, <1>5, <2>1, <3>1, Zenon DEF Wraps
  <2>4. mode = "follow" => OnRecord(r)
    BY <1>6, <2>1, Zenon DEF OnRecord
  <2>5. Power(r)
    BY <1>5, <1>7, <2>1, <2>2, <2>3, <2>4, Zenon DEF Power
  <2>6. m.wrap = NoWrap => Rested(r)
    BY <1>3, <1>5, <1>6, <1>7, <2>1, Zenon DEF Rested
  <2> QED BY <1>2, <1>3, <1>5, <1>6, <1>7, <2>5, <2>6, Zenon DEF Stays, Good
<1> QED BY <1>10, <1>11

-----------------------------------------------------------------------------
(* Whether to sync.                                                          *)

(* Fields that no property looks at.                                         *)
LEMMA WishSame ==
    ASSUME NEW m, Good(m), NEW b \in BOOLEAN,
           NEW p \in {"off", "started", "printing", "paused"},
           NEW r \in {[m EXCEPT !.homed = b], [m EXCEPT !.inside = b],
                      [m EXCEPT !.standalone = b], [m EXCEPT !.print = p],
                      [m EXCEPT !.standalone = b, !.print = p]}
    PROVE  /\ Stays(m, r) /\ (Synced(r) <=> Synced(m))
           /\ Rested(m) => Rested(r)
<1>1. m \in Machine
  BY DEF Good
<1>2. \A q \in Machine : KeepsSync(m, q) /\ KeepsTurn(m, q) /\ KeepsPower(m, q) =>
          /\ Stays(m, q) /\ (Synced(q) <=> Synced(m))
          /\ Rested(m) => Rested(q)
  BY GoodSame, Zenon
<1> SUFFICES r \in Machine /\ KeepsSync(m, r) /\ KeepsTurn(m, r) /\ KeepsPower(m, r)
  BY <1>2, Zenon
<1>3. CASE r = [m EXCEPT !.homed = b]
  BY <1>1, <1>3, ZenonT(30) DEF Machine, KeepsSync, KeepsTurn, KeepsPower
<1>4. CASE r = [m EXCEPT !.inside = b]
  BY <1>1, <1>4, ZenonT(30) DEF Machine, KeepsSync, KeepsTurn, KeepsPower
<1>5. CASE r = [m EXCEPT !.standalone = b]
  BY <1>1, <1>5, ZenonT(30) DEF Machine, KeepsSync, KeepsTurn, KeepsPower
<1>6. CASE r = [m EXCEPT !.print = p]
  BY <1>1, <1>6, ZenonT(30) DEF Machine, KeepsSync, KeepsTurn, KeepsPower
<1>7. CASE r = [m EXCEPT !.standalone = b, !.print = p]
  BY <1>1, <1>7, ZenonT(30) DEF Machine, KeepsSync, KeepsTurn, KeepsPower
<1> QED BY <1>3, <1>4, <1>5, <1>6, <1>7

LEMMA SyncToExtruderFields ==
    ASSUME fit \in Layouts, NEW m, Good(m), NEW sync \in BOOLEAN
    PROVE  LET r == SyncGearToExtruder(m, sync)
           IN Stays(m, r) /\ (m.wrap = NoWrap => Rested(r))
<1> DEFINE ready == m.gate # None /\ m.homed
           n     == IF ready THEN m ELSE [m EXCEPT !.standalone = FALSE]
           mode  == IF sync /\ ready THEN "follow" ELSE "unsynced"
           r     == SyncGearToExtruder(m, sync)
<1>1. r = IF m.gate = None THEN n ELSE Motors(n, mode)
  BY Zenon DEF SyncGearToExtruder
<1>2. Stays(m, n)
  <2>1. Stays(m, m)
    BY Zenon DEF Stays
  <2>2. Stays(m, [m EXCEPT !.standalone = FALSE])
    BY WishSame
  <2> QED BY <2>1, <2>2
<1>3. mode \in Modes
  BY DEF Modes
<1> HIDE DEF n, mode, r
<1>4. n.gate = m.gate /\ n.wrap = m.wrap /\ Good(n)
  BY <1>2, Zenon DEF Stays
<1>5. CASE m.gate = None
  BY <1>1, <1>2, <1>4, <1>5, Zenon DEF Rested, r
<1>6. CASE m.gate # None
  <2>1. n.gate \in Gates
    BY <1>4, <1>6, GoodFacts, Zenon
  <2> DEFINE q == Motors(n, mode)
  <2>2. Stays(n, q) /\ (n.wrap = NoWrap => Rested(q))
    BY <1>3, <1>4, <2>1, MotorsFields, Zenon
  <2>3. r = q
    BY <1>1, <1>6, Zenon
  <2> HIDE DEF q
  <2> QED BY <1>2, <1>4, <2>2, <2>3, StaysTransitive, Zenon DEF r
<1> QED BY <1>5, <1>6

(* A command that ends so leaves a gear that does not follow with its full   *)
(* current.                                                                  *)
LEMMA ResetSyncFields ==
    ASSUME fit \in Layouts, NEW m, Good(m), NEW intention, NEW skipCheck \in BOOLEAN,
           NEW buzz \in BOOLEAN
    PROVE  LET r == ResetSync(m, intention, skipCheck, buzz)
           IN Stays(m, r) /\ (m.wrap = NoWrap => Rested(r))
<1> DEFINE sync == WantsSync(m, intention, skipCheck)
           n    == GripFilament(m, sync, buzz)
           r    == SyncGearToExtruder(n, sync)
<1>1. ResetSync(m, intention, skipCheck, buzz) = r
  BY Zenon DEF ResetSync
<1>2. Stays(m, n)
  <2>1. Stays(m, m)
    BY Zenon DEF Stays
  <2>2. CASE sync /\ buzz /\ m.gate # None
    <3> DEFINE q == Motors(m, "unsynced")
    <3>1. m.gate \in Gates /\ "unsynced" \in Modes
      BY <2>2, GoodFacts, Zenon DEF Modes
    <3>2. Stays(m, q)
      BY <3>1, MotorsFields, Zenon
    <3>3. n = q
      BY <2>2, Zenon DEF GripFilament
    <3> HIDE DEF n, q
    <3> QED BY <3>2, <3>3
  <2>3. CASE ~(sync /\ buzz /\ m.gate # None)
    <3>1. n = m
      BY <2>3, Zenon DEF GripFilament
    <3> HIDE DEF n
    <3> QED BY <2>1, <3>1
  <2> QED BY <2>2, <2>3
<1>3. sync \in BOOLEAN
  BY DEF WantsSync
<1> HIDE DEF n, sync
<1>4. Good(n) /\ n.wrap = m.wrap
  BY <1>2, Zenon DEF Stays
<1>5. Stays(n, r) /\ (n.wrap = NoWrap => Rested(r))
  BY <1>3, <1>4, SyncToExtruderFields, Zenon
<1> HIDE DEF r
<1> QED BY <1>1, <1>2, <1>4, <1>5, StaysTransitive, Zenon

-----------------------------------------------------------------------------
(* Monitoring, the print and the selection.                                  *)

(* As Stays, for a method that may begin or end monitoring.                  *)
Remains(m, r) == Good(r) /\ r.gate = m.gate /\ r.here = m.here /\ r.wrap = m.wrap

LEMMA RemainsTransitive ==
    ASSUME NEW m, NEW n, NEW r, Remains(m, n), Remains(n, r)
    PROVE  Remains(m, r)
BY Zenon DEF Remains

LEMMA StaysRemains ==
    ASSUME NEW m, NEW r, Stays(m, r)
    PROVE  Remains(m, r)
BY Zenon DEF Stays, Remains

LEMMA DisableMonitoringFields ==
    ASSUME fit \in Layouts, NEW m, Good(m)
    PROVE  LET r == DisableMonitoring(m)
           IN Remains(m, r) /\ r.monitoring = FALSE
<1> DEFINE u  == m.here
           ar == m.armed \ {u}
           n  == [m EXCEPT !.monitoring = FALSE, !.armed = ar]
           r  == InvalidateTangle(n, u)
<1>1. DisableMonitoring(m) = r
  <2> DEFINE lit == [m EXCEPT !.monitoring = FALSE, !.armed = @ \ {m.here}]
  <2>1. lit = n
    BY Zenon
  <2>2. DisableMonitoring(m) = InvalidateTangle(lit, u)
    BY Zenon DEF DisableMonitoring
  <2> HIDE DEF lit, n
  <2> QED BY <2>1, <2>2, Zenon
<1>2. m \in Machine /\ Owned(m) /\ Lowers(m) /\ Wraps(m) /\ One(m) /\ Turns(m)
  BY GoodFacts, Zenon
<1>3. ar \in SUBSET Units /\ u \in Units
  BY <1>2, MachineFields
<1> HIDE DEF ar
<1>4. /\ n \in Machine /\ n.monitoring = FALSE /\ n.rd = m.rd /\ n.scheduled = m.scheduled
      /\ n.pendingRd = m.pendingRd
  BY <1>2, <1>3, ZenonT(30) DEF Machine
<1>5. KeepsSync(m, n) /\ KeepsPower(m, n)
  BY <1>2, <1>3, ZenonT(30) DEF Machine, KeepsSync, KeepsPower
<1> HIDE DEF n
<1>6. n.gate = m.gate
  BY <1>5, Zenon DEF KeepsSync
<1>7. /\ Owned(n) /\ Lowers(n) /\ Wraps(n)
      /\ OnRecord(m) => OnRecord(n)
      /\ NoneLanding(m) => NoneLanding(n)
  BY <1>2, <1>5, <1>6, PowerKept, Zenon
<1>8. /\ r \in Machine /\ Owned(r) /\ Lowers(r)
      /\ KeepsSync(n, r) /\ KeepsTurn(n, r) /\ r.wrap = n.wrap
      /\ OnRecord(n) => OnRecord(r)
      /\ Lowered(n, r)
      /\ \A v \in Units : r.landing[v] # None =>
            n.landing[v] # None /\ (v = u => r.landing[v].boost)
  BY <1>3, <1>4, <1>7, InvalidateTangleFields, Zenon DEF Lowered
<1> HIDE DEF r
<1>9. r.gate = m.gate /\ r.here = m.here /\ r.mode = m.mode /\ r.active = m.active
  BY <1>5, <1>8, Zenon DEF KeepsSync
<1>10. (Synced(r) <=> Synced(m)) /\ One(r)
  BY <1>2, <1>9, SyncKept, Zenon DEF KeepsSync
<1>12. /\ r.monitoring = FALSE /\ r.rd = m.rd /\ r.scheduled = m.scheduled
       /\ r.pendingRd = m.pendingRd
  BY <1>4, <1>8, Zenon DEF KeepsTurn
<1>13. Turns(r)
  BY <1>2, <1>9, <1>10, <1>12 DEF Turns
<1>14. Wraps(r) /\ r.wrap = m.wrap
  <2>1. n.wrap = m.wrap
    BY <1>5, Zenon DEF KeepsPower
  <2>2. r.gate = n.gate
    BY <1>6, <1>9
  <2> QED BY <1>7, <1>8, <2>1, <2>2, WrapsLowered, Zenon
<1>15. Power(r)
  <2>1. NoneLanding(m) => NoneLanding(r)
    BY <1>7, <1>8, Zenon DEF NoneLanding
  <2> QED BY <1>7, <1>8, <1>10, <1>14, <2>1, Zenon DEF Good, Power
<1> QED BY <1>1, <1>8, <1>9, <1>10, <1>12, <1>13, <1>14, <1>15, Zenon DEF Remains, Good

(* What was scheduled before monitoring began is forgotten.                  *)
LEMMA EnableMonitoringFields ==
    ASSUME fit \in Layouts, NEW m, Good(m)
    PROVE  LET r == EnableMonitoring(m)
           IN /\ Remains(m, r) /\ (Synced(r) <=> Synced(m))
              /\ Rested(m) => Rested(r)
<1> DEFINE u  == m.here
           n  == IF m.monitoring THEN m ELSE InvalidateRd(m, u)
           ar == IF m.gate = None THEN n.armed ELSE n.armed \cup {u}
           r  == [n EXCEPT !.monitoring = TRUE, !.armed = ar]
<1>1. EnableMonitoring(m) = r
  <2> DEFINE lit == [n EXCEPT !.monitoring = TRUE,
                              !.armed = IF m.gate = None THEN @ ELSE @ \cup {m.here}]
  <2>1. lit = r
    BY Zenon
  <2>2. EnableMonitoring(m) = lit
    BY Zenon DEF EnableMonitoring
  <2> HIDE DEF lit, r
  <2> QED BY <2>1, <2>2, Zenon
<1>2. m \in Machine /\ Owned(m) /\ Lowers(m) /\ Wraps(m) /\ One(m) /\ Turns(m)
  BY GoodFacts, Zenon
<1>3. u \in Units
  BY <1>2, MachineFields
<1>4. /\ n \in Machine /\ KeepsSync(m, n) /\ KeepsPower(m, n) /\ n.rd = m.rd
      /\ ~m.monitoring => n.scheduled[u] = None
      /\ m.monitoring => n = m
      /\ \A v \in Units : n.pendingRd[v] # None => n.pendingRd[v] = n.scheduled[v]
  <2>1. CASE m.monitoring
    <3>1. n = m
      BY <2>1
    <3> QED BY <1>2, <2>1, <3>1, Zenon DEF KeepsSync, KeepsPower, Turns
  <2>2. CASE ~m.monitoring
    <3> DEFINE q == InvalidateRd(m, u)
    <3>1. /\ q \in Machine /\ KeepsSync(m, q) /\ KeepsPower(m, q)
          /\ q.rd = m.rd /\ q.monitoring = m.monitoring
          /\ q.scheduled[u] = None /\ q.pendingRd[u] = None
          /\ \A v \in Units : v # u => /\ q.scheduled[v] = m.scheduled[v]
                                       /\ q.pendingRd[v] = m.pendingRd[v]
      BY <1>2, <1>3, InvalidateRdFields, Zenon
    <3>2. n = q
      BY <2>2
    <3> HIDE DEF q, n
    <3>3. \A v \in Units : q.pendingRd[v] # None => q.pendingRd[v] = q.scheduled[v]
      BY <1>2, <3>1 DEF Turns
    <3> QED BY <2>2, <3>1, <3>2, <3>3
  <2> QED BY <2>1, <2>2
<1> HIDE DEF n
<1>5. ar \in SUBSET Units
  BY <1>3, <1>4, MachineFields
<1> HIDE DEF ar
<1>6. /\ r \in Machine /\ r.rd = n.rd /\ r.scheduled = n.scheduled
      /\ r.pendingRd = n.pendingRd
  BY <1>4, <1>5, ZenonT(30) DEF Machine
<1>7. KeepsSync(n, r) /\ KeepsPower(n, r)
  BY <1>4, <1>5, ZenonT(30) DEF Machine, KeepsSync, KeepsPower
<1> HIDE DEF r
<1>8. r.gate = m.gate /\ r.here = m.here /\ r.mode = m.mode /\ r.active = m.active
  BY <1>4, <1>7, Zenon DEF KeepsSync
<1>9. (Synced(r) <=> Synced(m)) /\ One(r)
  BY <1>2, <1>8, SyncKept, Zenon DEF KeepsSync
<1>11. Turns(r)
  <2>1. \A v \in r.active : v = u
    BY <1>8, GoodFacts, Zenon
  <2>2. \A v \in r.active : r.scheduled[v] # None /\ r.pendingRd[v] = None
           => r.rd[Drive(r.gate)] = r.scheduled[v]
    <3>1. CASE m.monitoring
      BY <1>2, <1>4, <1>6, <1>8, <3>1 DEF Turns
    <3>2. CASE ~m.monitoring
      BY <1>4, <1>6, <2>1, <3>2
    <3> QED BY <3>1, <3>2
  <2> QED BY <1>2, <1>4, <1>6, <1>8, <1>9, <2>2, Zenon DEF Turns
<1>12. Power(r) /\ r.wrap = m.wrap /\ r.current = m.current
  <2>1. KeepsPower(m, r)
    BY <1>4, <1>7, Zenon DEF KeepsPower
  <2> QED BY <1>8, <1>9, <2>1, PowerKept, Zenon DEF Good, Power, KeepsPower
<1>13. Rested(m) => Rested(r)
  BY <1>8, <1>9, <1>12, Zenon DEF Rested
<1> QED BY <1>1, <1>6, <1>8, <1>9, <1>11, <1>12, <1>13, Zenon DEF Remains, Good

LEMMA PrintStartFields ==
    ASSUME fit \in Layouts, NEW m, Good(m)
    PROVE  LET r == OnPrintStart(m)
           IN Stays(m, r) /\ (m.wrap = NoWrap => Rested(r))
<1> DEFINE n == [m EXCEPT !.print = "printing"]
           r == ResetSync(n, "ask", FALSE, FALSE)
<1>1. OnPrintStart(m) = r
  BY Zenon DEF OnPrintStart
<1>2. Stays(m, n)
  BY WishSame
<1> HIDE DEF n
<1>3. Good(n) /\ n.wrap = m.wrap
  BY <1>2, Zenon DEF Stays
<1>4. Stays(n, r) /\ (n.wrap = NoWrap => Rested(r))
  BY <1>3, ResetSyncFields, Zenon
<1> HIDE DEF r
<1> QED BY <1>1, <1>2, <1>3, <1>4, StaysTransitive, Zenon

LEMMA FixStartedFields ==
    ASSUME fit \in Layouts, NEW m, Good(m)
    PROVE  LET r == FixStartedState(m)
           IN Stays(m, r) /\ (Rested(m) => Rested(r))
<1>1. CASE m.print = "started"
  <2>1. FixStartedState(m) = OnPrintStart(m)
    BY <1>1, Zenon DEF FixStartedState
  <2>2. Rested(m) => m.wrap = NoWrap
    BY Zenon DEF Rested
  <2> QED BY <2>1, <2>2, PrintStartFields, Zenon
<1>2. CASE m.print # "started"
  <2>1. FixStartedState(m) = m
    BY <1>2, Zenon DEF FixStartedState
  <2> QED BY <2>1, Zenon DEF Stays
<1> QED BY <1>1, <1>2

LEMMA ErrorFields ==
    ASSUME fit \in Layouts, NEW m, Good(m), NEW buzz \in BOOLEAN
    PROVE  LET r == HandleMmuError(m, buzz)
           IN Remains(m, r) /\ (m.wrap = NoWrap => Rested(r))
<1> DEFINE fixed  == FixStartedState(m)
           off    == DisableMonitoring(fixed)
           paused == IF fixed.print = "printing" THEN [off EXCEPT !.print = "paused"] ELSE fixed
           r      == ResetSync(paused, "ask", FALSE, buzz)
<1>1. HandleMmuError(m, buzz) = r
  BY Zenon DEF HandleMmuError
<1>2. Stays(m, fixed)
  BY FixStartedFields, Zenon
<1> HIDE DEF fixed
<1>3. Good(fixed) /\ Remains(m, fixed)
  BY <1>2, StaysRemains, Zenon DEF Stays
<1>4. Remains(fixed, off)
  BY <1>3, DisableMonitoringFields, Zenon
<1> HIDE DEF off
<1>5. Good(off) /\ Remains(m, off)
  BY <1>3, <1>4, RemainsTransitive, Zenon DEF Remains
<1>6. Remains(m, paused)
  <2>1. Stays(off, [off EXCEPT !.print = "paused"])
    BY <1>5, WishSame
  <2>2. Remains(m, [off EXCEPT !.print = "paused"])
    BY <1>5, <2>1, StaysRemains, RemainsTransitive, Zenon
  <2> QED BY <1>3, <2>2
<1> HIDE DEF paused
<1>7. Good(paused) /\ paused.wrap = m.wrap
  BY <1>6, Zenon DEF Remains
<1>8. Stays(paused, r) /\ (paused.wrap = NoWrap => Rested(r))
  BY <1>7, ResetSyncFields, Zenon
<1> HIDE DEF r
<1>9. Remains(m, r)
  BY <1>6, <1>8, StaysRemains, RemainsTransitive, Zenon
<1> QED BY <1>1, <1>7, <1>8, <1>9, Zenon

(* With nothing that follows and nothing under way, a gate is selected and   *)
(* its calibrated rotation distance restored.                                *)
LEMMA SelectionFields ==
    ASSUME fit \in Layouts, NEW m, Good(m), m.wrap = NoWrap, NoneLanding(m), ~Synced(m),
           \A d \in Gates : m.mode[d] = "unsynced",
           NEW g \in Gates \cup {None}
    PROVE  LET moved == [m EXCEPT !.gate = g, !.here = IF g = None THEN @ ELSE fit.unit[g]]
               r     == RestoreRd(HandleGateSelected(moved))
           IN Good(r) /\ r.wrap = NoWrap /\ r.monitoring = m.monitoring
<1> DEFINE moved  == [m EXCEPT !.gate = g, !.here = IF g = None THEN @ ELSE fit.unit[g]]
           h      == IF g = None THEN m.here ELSE fit.unit[g]
           put    == {Drive(m.boosted[u]) : u \in {v \in Units : m.boosted[v] # None}}
           none   == [u \in Units |-> None]
           cs     == [d \in Gates |-> IF d \in put THEN "sync" ELSE m.current[d]]
           n      == [m EXCEPT !.gate = g, !.here = h]
           calm   == [n EXCEPT !.scheduled = none, !.pendingRd = none, !.pending = none,
                               !.boosted = none, !.requested = {}, !.current = cs]
           r      == RestoreRd(calm)
<1>1. m \in Machine /\ Owned(m) /\ Lowers(m) /\ Wraps(m) /\ One(m) /\ Turns(m) /\ m.active = {}
  BY GoodFacts, Zenon
<1>2. h \in Units
  BY <1>1, MachineFields, DriveType
<1>3. moved = n
  BY Zenon
<1> HIDE DEF moved, h
<1>4. /\ n \in Machine /\ n.gate = g /\ n.here = h /\ n.mode = m.mode /\ n.active = m.active
      /\ n.current = m.current /\ n.boosted = m.boosted /\ n.landing = m.landing
      /\ n.wrap = m.wrap /\ n.rd = m.rd /\ n.monitoring = m.monitoring
  BY <1>1, <1>2, ZenonT(30) DEF Machine
<1> HIDE DEF n
<1>5. HandleGateSelected(n) = calm
  <2> DEFINE q(w) == [n EXCEPT !.scheduled = none, !.pendingRd = none, !.pending = none,
                               !.boosted = none, !.requested = {},
                               !.current = [d \in Gates |-> IF d \in w /\ n.wrap = NoWrap
                                                            THEN "sync" ELSE @[d]]]
  <2>1. HandleGateSelected(n)
          = q({Drive(n.boosted[u]) : u \in {v \in Units : n.boosted[v] # None}})
    BY Zenon DEF HandleGateSelected
  <2>2. q(put) = calm
    BY <1>4
  <2> HIDE DEF q, calm
  <2> QED BY <1>4, <2>1, <2>2
<1>6. /\ none \in [Units -> Rds \cup {None}] /\ none \in [Units -> Changes \cup {None}]
      /\ none \in [Units -> Gates \cup {None}] /\ {} \in SUBSET Units
      /\ \A u \in Units : none[u] = None
  OBVIOUS
<1>7. cs \in [Gates -> Currents] /\ \A d \in Gates : m.current[d] # "wrap" => cs[d] # "wrap"
  BY <1>1, MachineFields DEF Currents
<1> HIDE DEF cs, none
<1>8. /\ calm \in Machine /\ calm.gate = g /\ calm.here = h /\ calm.mode = m.mode
      /\ calm.active = {} /\ calm.current = cs /\ calm.boosted = none /\ calm.pending = none
      /\ calm.landing = m.landing /\ calm.wrap = NoWrap /\ calm.rd = m.rd
      /\ calm.monitoring = m.monitoring /\ calm.scheduled = none /\ calm.pendingRd = none
  BY <1>1, <1>4, <1>6, <1>7, ZenonT(60) DEF Machine
<1> HIDE DEF calm
<1>9. /\ r \in Machine /\ KeepsSync(calm, r) /\ KeepsPower(calm, r)
      /\ r.monitoring = m.monitoring /\ r.scheduled = none /\ r.pendingRd = none
      /\ g # None => r.rd[Drive(g)] = g
      /\ \A d \in Gates : r.rd[d] # Tuned
  <2>0. \A d \in Gates : m.rd[d] # Tuned
    BY <1>1, Zenon DEF Turns
  <2>1. CASE g = None
    <3>1. r = calm
      BY <1>8, <2>1, Zenon DEF RestoreRd
    <3> HIDE DEF r
    <3> QED BY <1>8, <2>0, <2>1, <3>1, Zenon DEF KeepsSync, KeepsPower
  <2>2. CASE g # None
    <3>1. calm.gate \in Gates /\ g # Tuned /\ g \in Gates
      BY <1>8, <2>2, DriveType
    <3>2. /\ r \in Machine /\ KeepsSync(calm, r) /\ KeepsPower(calm, r)
          /\ r.monitoring = calm.monitoring
          /\ r.scheduled = calm.scheduled /\ r.pendingRd = calm.pendingRd
          /\ r.rd[Drive(calm.gate)] = calm.gate
          /\ \A d \in Gates : d # Drive(calm.gate) => r.rd[d] = calm.rd[d]
      BY <1>8, <3>1, RestoreRdFields, Zenon
    <3> HIDE DEF r
    <3>3. \A d \in Gates : r.rd[d] # Tuned
      BY <1>8, <2>0, <3>1, <3>2
    <3> QED BY <1>8, <3>2, <3>3, Zenon
  <2> QED BY <2>1, <2>2
<1> HIDE DEF r
<1>10. /\ r.gate = g /\ r.here = h /\ r.mode = m.mode /\ r.active = {} /\ r.current = cs
       /\ r.boosted = none /\ r.pending = none /\ r.landing = m.landing /\ r.wrap = NoWrap
  BY <1>8, <1>9, Zenon DEF KeepsSync, KeepsPower
<1>11. ~Synced(r)
  BY <1>10, DriveType DEF Synced
<1>12. One(r)
  <2>1. \A d \in Gates : r.mode[d] = "unsynced"
    BY <1>10, Zenon
  <2>2. r.gate # None => r.here = fit.unit[r.gate]
    BY <1>10, Zenon DEF h
  <2> QED BY <1>10, <1>11, <2>1, <2>2, Zenon DEF One
<1>13. Turns(r)
  BY <1>6, <1>9, <1>10, Zenon DEF Turns
<1>14. Power(r)
  <2>1. NoneLanding(r)
    BY <1>10, Zenon DEF NoneLanding
  <2>2. Owned(r) /\ Lowers(r)
    BY <1>6, <1>10, <2>1, Zenon DEF Owned, Lowers, NoneLanding
  <2>3. \A d \in Gates : r.current[d] # "wrap"
    BY <1>1, <1>7, <1>10, Zenon DEF Wraps
  <2>4. Wraps(r)
    BY <1>10, <2>3, Zenon DEF Wraps
  <2> QED BY <1>11, <2>1, <2>2, <2>4, Zenon DEF Power
<1>15. RestoreRd(HandleGateSelected(moved)) = r
  BY <1>3, <1>5, Zenon DEF r
<1> QED BY <1>9, <1>10, <1>12, <1>13, <1>14, <1>15, Zenon DEF Good, moved

LEMMA SelectFields ==
    ASSUME fit \in Layouts, NEW m, Good(m), m.wrap = NoWrap, NoneLanding(m),
           NEW g \in Gates \cup {None}
    PROVE  LET r == SetGateSelected(m, g)
           IN Good(r) /\ r.wrap = NoWrap /\ r.monitoring = m.monitoring
<1>1. CASE g = m.gate
  <2>1. SetGateSelected(m, g) = m
    BY <1>1, Zenon DEF SetGateSelected
  <2> QED BY <2>1, Zenon
<1>2. CASE g # m.gate
  <2> DEFINE left  == IF m.gate = None THEN m ELSE SyncMode(m, m.gate, "unsynced")
             moved == [left EXCEPT !.gate = g, !.here = IF g = None THEN @ ELSE fit.unit[g]]
             r     == RestoreRd(HandleGateSelected(moved))
  <2>1. SetGateSelected(m, g) = r
    BY <1>2, Zenon DEF SetGateSelected
  <2>2. /\ Good(left) /\ left.wrap = NoWrap /\ left.monitoring = m.monitoring
        /\ NoneLanding(left) /\ ~Synced(left) /\ \A d \in Gates : left.mode[d] = "unsynced"
    <3>1. CASE m.gate = None
      <4>1. left = m
        BY <3>1
      <4>2. One(m)
        BY Zenon DEF Good
      <4> HIDE DEF left
      <4> QED BY <3>1, <4>1, <4>2, Zenon DEF One, Synced
    <3>2. CASE m.gate # None
      <4> DEFINE n == SyncMode(m, m.gate, "unsynced")
      <4>1. m.gate \in Gates /\ "unsynced" \in Modes /\ "unsynced" # "follow"
        BY <3>2, GoodFacts DEF Modes
      <4>2. Switched(m, n, "unsynced")
        BY <4>1, SyncModeFields, Zenon
      <4>3. left = n
        BY <3>2
      <4> HIDE DEF left, n
      <4>4. /\ n \in Machine /\ One(n) /\ Turns(n) /\ Owned(n) /\ Lowers(n) /\ Wraps(n)
            /\ n.wrap = m.wrap /\ n.monitoring = m.monitoring
            /\ n.mode[Drive(n.gate)] = "unsynced" /\ ~Synced(n)
            /\ \A v \in Units : n.landing[v] # None => m.landing[v] # None
        BY <4>1, <4>2, Zenon DEF Switched
      <4>5. NoneLanding(n)
        BY <4>4, Zenon DEF NoneLanding
      <4>6. \A d \in Gates : n.mode[d] = "unsynced"
        BY <4>4, Zenon DEF One
      <4> QED BY <4>3, <4>4, <4>5, <4>6, Zenon DEF Good, Power
    <3> QED BY <3>1, <3>2
  <2> HIDE DEF left
  <2>3. Good(r) /\ r.wrap = NoWrap /\ r.monitoring = left.monitoring
    BY <2>2, SelectionFields, Zenon
  <2> HIDE DEF r
  <2> QED BY <2>1, <2>2, <2>3, Zenon
<1> QED BY <1>1, <1>2

-----------------------------------------------------------------------------
(* Callbacks.                                                                *)

(* What a callback leaves behind.                                            *)
Safe(m, r) == Good(r) /\ (Rested(m) => Rested(r)) /\ r.monitoring = m.monitoring

(* A rotation distance recommended, to be applied.                           *)
LEMMA Recommended ==
    ASSUME fit \in Layouts, NEW m, Good(m), NEW u \in m.active, NEW rd \in Rds
    PROVE  LET r == [m EXCEPT !.scheduled[u] = rd, !.pendingRd[u] = rd]
           IN Safe(m, r) /\ r.gate = m.gate /\ r.active = m.active
<1> DEFINE ss == [m.scheduled EXCEPT ![u] = rd]
           ps == [m.pendingRd EXCEPT ![u] = rd]
           r  == [m EXCEPT !.scheduled = ss, !.pendingRd = ps]
<1>1. [m EXCEPT !.scheduled[u] = rd, !.pendingRd[u] = rd] = r
  BY Zenon
<1>2. m \in Machine /\ One(m) /\ Turns(m)
  BY GoodFacts, Zenon
<1>3. u \in Units /\ rd # None
  <2>1. u \in Units
    BY <1>2, MachineFields
  <2>2. rd # None
    BY GearSyncAssumption DEF Rds
  <2> QED BY <2>1, <2>2
<1>4. /\ ss \in [Units -> Rds \cup {None}] /\ ps \in [Units -> Rds \cup {None}]
      /\ ss[u] = rd /\ ps[u] = rd
      /\ \A v \in Units : v # u => ss[v] = m.scheduled[v] /\ ps[v] = m.pendingRd[v]
  BY <1>2, <1>3, MachineFields
<1> HIDE DEF ss, ps
<1>5. /\ r \in Machine /\ r.scheduled = ss /\ r.pendingRd = ps /\ r.rd = m.rd
      /\ r.monitoring = m.monitoring
  BY <1>2, <1>4, ZenonT(30) DEF Machine
<1>6. KeepsSync(m, r) /\ KeepsPower(m, r)
  BY <1>2, <1>4, ZenonT(30) DEF Machine, KeepsSync, KeepsPower
<1> HIDE DEF r
<1>7. r.gate = m.gate /\ r.here = m.here /\ r.mode = m.mode /\ r.active = m.active
  BY <1>6, Zenon DEF KeepsSync
<1>8. (Synced(r) <=> Synced(m)) /\ One(r)
  BY <1>2, <1>6, SyncKept, Zenon
<1>10. Turns(r)
  <2>1. \A v \in r.active : r.pendingRd[v] # None \/ v # u
    BY <1>3, <1>4, <1>5
  <2>2. \A v \in r.active : v = u
    BY <1>2, <1>7, GoodFacts
  <2>3. \A v \in Units : r.pendingRd[v] # None => r.pendingRd[v] = r.scheduled[v]
    BY <1>2, <1>4, <1>5 DEF Turns
  <2> QED BY <1>2, <1>5, <1>7, <1>8, <2>1, <2>2, <2>3, Zenon DEF Turns
<1>11. Power(r)
  BY <1>6, <1>7, <1>8, PowerKept, Zenon DEF Good, Power
<1>12. Rested(m) => Rested(r)
  BY <1>6, <1>7, <1>8, Zenon DEF Rested, KeepsPower
<1> QED BY <1>1, <1>5, <1>7, <1>8, <1>10, <1>11, <1>12, Zenon DEF Safe, Good

(* A change of current of the unit's own gate is decided, or given up.       *)
LEMMA Decided ==
    ASSUME fit \in Layouts, NEW m, Good(m), NEW u \in Units,
           NEW c \in Changes \cup {None}, c # None => Own(m, u, c.gate),
           NEW requested \in SUBSET Units,
           NEW r \in {[m EXCEPT !.pending[u] = c],
                      [m EXCEPT !.requested = requested, !.pending[u] = c]}
    PROVE  Safe(m, r) /\ r.gate = m.gate /\ r.active = m.active
<1> DEFINE ps == [m.pending EXCEPT ![u] = c]
<1>1. \/ r = [m EXCEPT !.pending = ps]
      \/ r = [m EXCEPT !.requested = requested, !.pending = ps]
  <2>1. CASE r = [m EXCEPT !.pending[u] = c]
    BY <2>1, Zenon
  <2>2. CASE r = [m EXCEPT !.requested = requested, !.pending[u] = c]
    BY <2>2, Zenon
  <2> QED BY <2>1, <2>2
<1>2. m \in Machine /\ One(m) /\ Turns(m) /\ Owned(m) /\ Lowers(m) /\ Wraps(m)
  BY GoodFacts, Zenon
<1>3. /\ ps \in [Units -> Changes \cup {None}] /\ ps[u] = c
      /\ \A v \in Units : v # u => ps[v] = m.pending[v]
  BY <1>2, MachineFields
<1> HIDE DEF ps
<1>4. /\ r \in Machine /\ r.pending = ps /\ r.current = m.current /\ r.boosted = m.boosted
      /\ r.landing = m.landing /\ r.wrap = m.wrap
  <2>1. CASE r = [m EXCEPT !.pending = ps]
    BY <1>2, <1>3, <2>1, ZenonT(30) DEF Machine
  <2>2. CASE r = [m EXCEPT !.requested = requested, !.pending = ps]
    BY <1>2, <1>3, <2>2, ZenonT(30) DEF Machine
  <2> QED BY <1>1, <2>1, <2>2
<1>5. KeepsSync(m, r) /\ KeepsTurn(m, r)
  <2>1. CASE r = [m EXCEPT !.pending = ps]
    BY <1>2, <1>3, <2>1, ZenonT(30) DEF Machine, KeepsSync, KeepsTurn
  <2>2. CASE r = [m EXCEPT !.requested = requested, !.pending = ps]
    BY <1>2, <1>3, <2>2, ZenonT(30) DEF Machine, KeepsSync, KeepsTurn
  <2> QED BY <1>1, <2>1, <2>2
<1>6. r.gate = m.gate /\ r.here = m.here /\ r.mode = m.mode /\ r.active = m.active
  BY <1>5, Zenon DEF KeepsSync
<1>7. (Synced(r) <=> Synced(m)) /\ One(r) /\ Turns(r)
  BY <1>2, <1>5, SyncKept, Zenon
<1>10. Owned(r)
  <2>1. \A v \in Units : r.pending[v] # None => Own(m, v, r.pending[v].gate)
    BY <1>2, <1>3, <1>4 DEF Owned
  <2>2. \A v, g : Own(m, v, g) <=> Own(r, v, g)
    BY <1>6, Zenon DEF Own
  <2> SUFFICES ASSUME NEW v \in Units
               PROVE  /\ r.boosted[v] # None => Own(r, v, r.boosted[v])
                      /\ r.pending[v] # None => Own(r, v, r.pending[v].gate)
                      /\ r.landing[v] # None =>
                            /\ Own(r, v, r.landing[v].gate) /\ r.wrap = NoWrap
                            /\ r.current[Drive(r.gate)] # Percent(r.landing[v])
    BY Zenon DEF Owned
  <2> QED BY <1>2, <1>4, <1>6, <2>1, <2>2, Zenon DEF Owned
<1>11. Lowers(r) /\ Wraps(r)
  BY <1>2, <1>4, <1>6, Zenon DEF Lowers, Wraps
<1>12. /\ OnRecord(m) => OnRecord(r)
       /\ NoneLanding(m) => NoneLanding(r)
  BY <1>4, <1>6, Zenon DEF OnRecord, NoneLanding
<1>13. Power(r)
  BY <1>7, <1>10, <1>11, <1>12, Zenon DEF Good, Power
<1>14. Rested(m) => Rested(r)
  BY <1>4, <1>6, <1>7, Zenon DEF Rested
<1> QED BY <1>4, <1>5, <1>6, <1>7, <1>13, <1>14, Zenon DEF Safe, Good, KeepsTurn

LEMMA RequestedSame ==
    ASSUME NEW m, Good(m), NEW requested \in SUBSET Units
    PROVE  Safe(m, [m EXCEPT !.requested = requested])
<1> DEFINE r == [m EXCEPT !.requested = requested]
<1>1. m \in Machine
  BY DEF Good
<1>2. r \in Machine
  BY <1>1, ZenonT(30) DEF Machine
<1>3. KeepsSync(m, r) /\ KeepsTurn(m, r) /\ KeepsPower(m, r)
  BY <1>1, ZenonT(30) DEF Machine, KeepsSync, KeepsTurn, KeepsPower
<1> HIDE DEF r
<1>4. Stays(m, r) /\ (Rested(m) => Rested(r))
  BY <1>2, <1>3, GoodSame, Zenon
<1> QED BY <1>4, Zenon DEF Safe, Stays, r

LEMMA SafeTransitive ==
    ASSUME NEW m, NEW n, NEW r, Safe(m, n), Safe(n, r)
    PROVE  Safe(m, r)
BY Zenon DEF Safe

LEMMA AskedFields ==
    ASSUME fit \in Layouts, NEW m, Good(m), NEW u \in m.active, NEW tension
    PROVE  Safe(m, Asked(m, u, tension))
<1>1. m \in Machine /\ Owned(m) /\ Synced(m) /\ u = fit.unit[m.gate]
  BY GoodFacts, Zenon
<1>2. /\ u \in Units /\ m.requested \in SUBSET Units
      /\ m.boosted[u] \in Gates \cup {None} /\ m.gate \in Gates
  <2>1. u \in Units /\ m.requested \in SUBSET Units /\ m.boosted[u] \in Gates \cup {None}
    BY <1>1, MachineFields
  <2>2. m.gate \in Gates
    BY <1>1, GoodFacts, Zenon
  <2> QED BY <2>1, <2>2
<1> DEFINE up    == [gate |-> m.gate, boost |-> TRUE]
           down  == [gate |-> IF m.boosted[u] = None THEN m.gate ELSE m.boosted[u],
                     boost |-> FALSE]
           more  == m.requested \cup {u}
           less  == m.requested \ {u}
           asks  == [m EXCEPT !.requested = more, !.pending[u] = up]
           eases == [m EXCEPT !.requested = less, !.pending[u] = down]
<1>3. \/ Asked(m, u, tension) = m
      \/ Asked(m, u, tension) = asks
      \/ Asked(m, u, tension) = eases
  BY Zenon DEF Asked
<1>4. up \in Changes \cup {None} /\ Own(m, u, up.gate) /\ more \in SUBSET Units
  BY <1>1, <1>2 DEF Changes, Own
<1>5. down \in Changes \cup {None} /\ Own(m, u, down.gate) /\ less \in SUBSET Units
  <2>1. m.boosted[u] # None => m.boosted[u] = m.gate
    BY <1>1, <1>2, Zenon DEF Owned, Own
  <2> QED BY <1>1, <1>2, <2>1 DEF Changes, Own
<1> HIDE DEF up, down, more, less
<1>6. Safe(m, asks) /\ Safe(m, eases)
  BY <1>2, <1>4, <1>5, Decided
<1>7. Safe(m, m)
  BY Zenon DEF Safe
<1> QED BY <1>3, <1>6, <1>7

LEMMA SampleSafe ==
    ASSUME fit \in Layouts, Good(s), NEW u \in Units, NEW tension,
           NEW rd \in Rds \cup {None}, Sample(u, tension, rd)
    PROVE  Safe(s, s')
<1> DEFINE n == IF rd = None THEN s ELSE [s EXCEPT !.scheduled[u] = rd, !.pendingRd[u] = rd]
<1>1. u \in s.active /\ s' = Asked(n, u, tension)
  BY Zenon DEF Sample
<1>2. Safe(s, n) /\ u \in n.active
  <2>1. CASE rd = None
    BY <1>1, <2>1, Zenon DEF Safe
  <2>2. CASE rd # None
    <3>1. rd \in Rds
      BY <2>2
    <3> DEFINE q == [s EXCEPT !.scheduled[u] = rd, !.pendingRd[u] = rd]
    <3>2. Safe(s, q) /\ q.active = s.active
      BY <1>1, <3>1, Recommended, Zenon
    <3>3. n = q
      BY <2>2
    <3> HIDE DEF q, n
    <3> QED BY <1>1, <3>2, <3>3
  <2> QED BY <2>1, <2>2
<1> HIDE DEF n
<1>3. Safe(n, s')
  BY <1>1, <1>2, AskedFields, Zenon DEF Safe
<1> QED BY <1>2, <1>3, SafeTransitive, Zenon

LEMMA RealignedSafe ==
    ASSUME NEW m, Good(m), NEW u \in Units
    PROVE  Safe(m, Realigned(m, u))
<1> DEFINE q == IF m.boosted[u] = None THEN m.requested \ {u} ELSE m.requested \cup {u}
<1>1. Realigned(m, u) = [m EXCEPT !.requested = q]
  BY Zenon DEF Realigned
<1>2. q \in SUBSET Units
  BY MachineFields DEF Good
<1> HIDE DEF q
<1> QED BY <1>1, <1>2, RequestedSame

(* The driver's current is what is asked already.                            *)
LEMMA AlreadySafe ==
    ASSUME fit \in Layouts, NEW m, Good(m), NEW u \in Units, NEW c \in Changes,
           Own(m, u, c.gate), m.current[Drive(m.gate)] = Percent(c)
    PROVE  Safe(m, [m EXCEPT !.pending[u] = None,
                             !.boosted[u] = IF c.boost THEN c.gate ELSE None])
<1> DEFINE b  == IF c.boost THEN c.gate ELSE None
           ps == [m.pending EXCEPT ![u] = None]
           bs == [m.boosted EXCEPT ![u] = b]
           r  == [m EXCEPT !.pending = ps, !.boosted = bs]
<1>1. [m EXCEPT !.pending[u] = None, !.boosted[u] = b] = r
  BY Zenon
<1>2. m \in Machine /\ One(m) /\ Turns(m) /\ Owned(m) /\ Lowers(m) /\ Wraps(m)
  BY GoodFacts, Zenon
<1>3. c.gate \in Gates /\ c.gate = m.gate /\ u = fit.unit[m.gate] /\ m.gate # None
  BY DriveType DEF Changes, Own
<1>4. /\ ps \in [Units -> Changes \cup {None}] /\ ps[u] = None
      /\ bs \in [Units -> Gates \cup {None}] /\ bs[u] = b
      /\ \A v \in Units : v # u => ps[v] = m.pending[v] /\ bs[v] = m.boosted[v]
  BY <1>2, <1>3, MachineFields
<1>b. b # None => b = m.gate
  BY <1>3
<1>5. c.boost <=> b # None
  BY <1>3
<1> HIDE DEF ps, bs, b
<1>6. /\ r \in Machine /\ r.pending = ps /\ r.boosted = bs /\ r.current = m.current
      /\ r.landing = m.landing /\ r.wrap = m.wrap
  BY <1>2, <1>4, ZenonT(30) DEF Machine
<1>7. KeepsSync(m, r) /\ KeepsTurn(m, r)
  BY <1>2, <1>4, ZenonT(30) DEF Machine, KeepsSync, KeepsTurn
<1> HIDE DEF r
<1>8. r.gate = m.gate /\ (Synced(r) <=> Synced(m)) /\ One(r) /\ Turns(r)
  BY <1>2, <1>7, SyncKept, Zenon
<1>12. Owned(r)
  <2>1. \A v, g : Own(m, v, g) <=> Own(r, v, g)
    BY <1>8, Zenon DEF Own
  <2> SUFFICES ASSUME NEW v \in Units
               PROVE  /\ r.boosted[v] # None => Own(r, v, r.boosted[v])
                      /\ r.pending[v] # None => Own(r, v, r.pending[v].gate)
                      /\ r.landing[v] # None =>
                            /\ Own(r, v, r.landing[v].gate) /\ r.wrap = NoWrap
                            /\ r.current[Drive(r.gate)] # Percent(r.landing[v])
    BY Zenon DEF Owned
  <2>2. r.boosted[v] # None => Own(m, v, r.boosted[v])
    BY <1>2, <1>3, <1>4, <1>6, <1>b DEF Owned, Own
  <2>3. r.pending[v] # None => Own(m, v, r.pending[v].gate)
    BY <1>2, <1>4, <1>6 DEF Owned
  <2> QED BY <1>2, <1>6, <1>8, <2>1, <2>2, <2>3, Zenon DEF Owned
<1>13. Lowers(r)
  <2> SUFFICES ASSUME NEW v \in Units, m.landing[v] # None, ~m.landing[v].boost
               PROVE  bs[v] # None
    BY <1>6, Zenon DEF Lowers
  <2>1. m.boosted[v] # None
    BY <1>2, Zenon DEF Lowers
  <2>2. CASE v = u
    <3>1. Percent(m.landing[v]) # Percent(c)
      BY <1>2, Zenon DEF Owned
    <3>2. c.boost
      BY <3>1, Zenon DEF Percent
    <3> QED BY <1>4, <1>5, <2>2, <3>2, Zenon
  <2>3. CASE v # u
    BY <1>4, <2>1, <2>3, Zenon
  <2> QED BY <2>2, <2>3
<1>14. Wraps(r) /\ OnRecord(r)
  <2>1. r.current[Drive(r.gate)] # "sync" => c.boost
    BY <1>6, <1>8 DEF Percent
  <2>2. OnRecord(r)
    BY <1>3, <1>4, <1>5, <1>6, <1>8, <2>1, Zenon DEF OnRecord
  <2>3. Wraps(r)
    BY <1>2, <1>6, <1>8, Zenon DEF Wraps
  <2> QED BY <2>2, <2>3
<1>15. NoneLanding(m) => NoneLanding(r)
  BY <1>6, Zenon DEF NoneLanding
<1>16. Power(r)
  BY <1>8, <1>12, <1>13, <1>14, <1>15, Zenon DEF Good, Power
<1>17. Rested(m) => Rested(r)
  BY <1>6, <1>8, Zenon DEF Rested
<1>18. Safe(m, r)
  BY <1>6, <1>7, <1>8, <1>16, <1>17, Zenon DEF Safe, Good, KeepsTurn
<1> QED BY <1>1, <1>18, Zenon DEF b

(* The change goes to the driver's bus.                                      *)
LEMMA OnBusSafe ==
    ASSUME fit \in Layouts, NEW m, Good(m), NEW u \in m.active, NEW c \in Changes,
           Own(m, u, c.gate), ~Refused(m, m.gate, Percent(c))
    PROVE  Safe(m, [m EXCEPT !.pending[u] = None, !.landing[u] = c])
<1> DEFINE ps == [m.pending EXCEPT ![u] = None]
           ls == [m.landing EXCEPT ![u] = c]
           r  == [m EXCEPT !.pending = ps, !.landing = ls]
<1>1. [m EXCEPT !.pending[u] = None, !.landing[u] = c] = r
  BY Zenon
<1>2. m \in Machine /\ One(m) /\ Turns(m) /\ Owned(m) /\ Lowers(m) /\ Wraps(m) /\ Synced(m)
  BY GoodFacts, Zenon
<1>3. u \in Units /\ u = fit.unit[m.gate] /\ m.gate # None
  <2>1. u \in Units
    BY <1>2, MachineFields
  <2> QED BY <2>1, GoodFacts, Zenon
<1>4. /\ ps \in [Units -> Changes \cup {None}] /\ ps[u] = None
      /\ ls \in [Units -> Changes \cup {None}] /\ ls[u] = c
      /\ \A v \in Units : v # u => ps[v] = m.pending[v] /\ ls[v] = m.landing[v]
  BY <1>2, <1>3, MachineFields
<1> HIDE DEF ps, ls
<1>5. /\ r \in Machine /\ r.pending = ps /\ r.landing = ls /\ r.current = m.current
      /\ r.boosted = m.boosted /\ r.wrap = m.wrap
  BY <1>2, <1>4, ZenonT(30) DEF Machine
<1>6. KeepsSync(m, r) /\ KeepsTurn(m, r)
  BY <1>2, <1>4, ZenonT(30) DEF Machine, KeepsSync, KeepsTurn
<1> HIDE DEF r
<1>7. /\ r.gate = m.gate /\ One(r) /\ Turns(r) /\ Synced(r)
  BY <1>2, <1>6, SyncKept, Zenon
<1>8. m.wrap = NoWrap /\ m.current[Drive(m.gate)] # Percent(c)
  BY Zenon DEF Refused
<1>9. OnRecord(m)
  BY <1>2, Zenon DEF Good, Power
<1>10. Owned(r)
  <2>1. \A v, g : Own(m, v, g) <=> Own(r, v, g)
    BY <1>7, Zenon DEF Own
  <2> SUFFICES ASSUME NEW v \in Units
               PROVE  /\ r.boosted[v] # None => Own(r, v, r.boosted[v])
                      /\ r.pending[v] # None => Own(r, v, r.pending[v].gate)
                      /\ r.landing[v] # None =>
                            /\ Own(r, v, r.landing[v].gate) /\ r.wrap = NoWrap
                            /\ r.current[Drive(r.gate)] # Percent(r.landing[v])
    BY Zenon DEF Owned
  <2>2. r.pending[v] # None => Own(m, v, r.pending[v].gate)
    BY <1>2, <1>4, <1>5 DEF Owned
  <2>3. CASE v = u
    BY <1>2, <1>4, <1>5, <1>7, <1>8, <2>1, <2>2, <2>3, Zenon DEF Owned
  <2>4. CASE v # u
    BY <1>2, <1>4, <1>5, <1>7, <2>1, <2>2, <2>4, Zenon DEF Owned
  <2> QED BY <2>3, <2>4
<1>11. Lowers(r)
  <2> SUFFICES ASSUME NEW v \in Units, ls[v] # None, ~ls[v].boost
               PROVE  m.boosted[v] # None
    BY <1>5, Zenon DEF Lowers
  <2>1. CASE v = u
    <3>1. Percent(c) = "sync"
      BY <1>4, <2>1, Zenon DEF Percent
    <3> QED BY <1>3, <1>8, <1>9, <2>1, <3>1, Zenon DEF OnRecord
  <2>2. CASE v # u
    BY <1>2, <1>4, <2>2, Zenon DEF Lowers
  <2> QED BY <2>1, <2>2
<1>12. Wraps(r) /\ OnRecord(r)
  BY <1>2, <1>5, <1>7, <1>9, Zenon DEF Wraps, OnRecord
<1>13. Power(r)
  BY <1>7, <1>10, <1>11, <1>12, Zenon DEF Power
<1>14. Safe(m, r)
  BY <1>5, <1>6, <1>7, <1>13, Zenon DEF Safe, Good, Rested, KeepsTurn
<1> QED BY <1>1, <1>14, Zenon

LEMMA TangleStartsSafe ==
    ASSUME fit \in Layouts, Good(s), NEW u \in Units, TangleStarts(u)
    PROVE  Safe(s, s')
<1> DEFINE c     == s.pending[u]
           taken == [s EXCEPT !.pending[u] = None]
<1>1. s \in Machine /\ c # None /\ Owned(s)
  BY GoodFacts, Zenon DEF TangleStarts
<1>2. c \in Changes /\ Own(s, u, c.gate)
  <2>1. c \in Changes
    BY <1>1, MachineFields
  <2> QED BY <1>1, <2>1, Zenon DEF Owned
<1>3. Safe(s, taken)
  BY <1>1, <1>2, MachineFields, Decided
<1>4. c.gate = s.gate
  BY <1>2, Zenon DEF Own
<1>5. CASE s' = Realigned(taken, u)
  <2> HIDE DEF taken
  <2>1. Safe(taken, s')
    BY <1>3, <1>5, RealignedSafe, Zenon DEF Safe
  <2> QED BY <1>3, <2>1, SafeTransitive, Zenon
<1>6. CASE /\ s.current[Drive(c.gate)] = Percent(c)
           /\ s' = [taken EXCEPT !.boosted[u] = IF c.boost THEN c.gate ELSE None]
  <2> DEFINE r == [s EXCEPT !.pending[u] = None,
                            !.boosted[u] = IF c.boost THEN c.gate ELSE None]
  <2>1. Safe(s, r)
    BY <1>2, <1>4, <1>6, AlreadySafe, Zenon
  <2>2. s' = r
    BY <1>6, Zenon
  <2> HIDE DEF r
  <2> QED BY <2>1, <2>2
<1>7. CASE /\ u \in s.active /\ ~Refused(s, c.gate, Percent(c))
           /\ s' = [taken EXCEPT !.landing[u] = c]
  <2> DEFINE r == [s EXCEPT !.pending[u] = None, !.landing[u] = c]
  <2>1. Safe(s, r)
    BY <1>2, <1>4, <1>7, OnBusSafe, Zenon
  <2>2. s' = r
    BY <1>7, Zenon
  <2> HIDE DEF r
  <2> QED BY <2>1, <2>2
<1> QED BY <1>5, <1>6, <1>7, Zenon DEF TangleStarts

LEMMA TangleLandsSafe ==
    ASSUME fit \in Layouts, Good(s), NEW u \in Units, TangleLands(u)
    PROVE  Safe(s, s')
<1> DEFINE c == s.landing[u]
           r == Land(s, u)
<1>1. /\ s \in Machine /\ One(s) /\ Turns(s) /\ Owned(s) /\ Lowers(s) /\ Wraps(s)
      /\ c # None /\ s' = r
  BY GoodFacts, Zenon DEF TangleLands
<1>2. /\ r \in Machine
      /\ r.landing = [s.landing EXCEPT ![u] = None]
      /\ r.current = [s.current EXCEPT ![Drive(c.gate)] = Percent(c)]
      /\ r.boosted = [s.boosted EXCEPT ![u] = IF c.boost THEN c.gate ELSE None]
      /\ KeepsSync(s, r) /\ KeepsTurn(s, r) /\ r.pending = s.pending /\ r.wrap = s.wrap
  BY <1>1, LandFields, Zenon
<1> HIDE DEF r
<1>3. Synced(s) /\ s.wrap = NoWrap /\ c.gate = s.gate /\ u = fit.unit[s.gate]
  BY <1>1, Zenon DEF Good, Power, NoneLanding, Owned, Own
<1>4. s.gate # None /\ s.gate \in Gates /\ Drive(s.gate) \in Gates
  BY <1>3, GoodFacts, Zenon
<1>5. r.gate = s.gate /\ One(r) /\ Turns(r) /\ Synced(r)
  BY <1>1, <1>2, <1>3, SyncKept, Zenon
<1>6. /\ r.current[Drive(s.gate)] = Percent(c)
      /\ \A d \in Gates : d # Drive(s.gate) => r.current[d] = s.current[d]
      /\ r.boosted[u] = IF c.boost THEN s.gate ELSE None
      /\ \A v \in Units : v # u => r.boosted[v] = s.boosted[v] /\ r.landing[v] = s.landing[v]
      /\ r.landing[u] = None
  BY <1>1, <1>2, <1>3, <1>4, MachineFields
<1>7. NoneLanding(r)
  <2> SUFFICES ASSUME NEW v \in Units, v # u PROVE s.landing[v] = None
    BY <1>6 DEF NoneLanding
  <2> QED BY <1>1, <1>3, Zenon DEF Owned, Own
<1>8. Owned(r)
  <2>1. \A v, g : Own(s, v, g) <=> Own(r, v, g)
    BY <1>5, Zenon DEF Own
  <2> SUFFICES ASSUME NEW v \in Units
               PROVE  /\ r.boosted[v] # None => Own(r, v, r.boosted[v])
                      /\ r.pending[v] # None => Own(r, v, r.pending[v].gate)
    BY <1>7, Zenon DEF Owned, NoneLanding
  <2>2. r.pending[v] # None => Own(s, v, r.pending[v].gate)
    BY <1>1, <1>2, Zenon DEF Owned
  <2>3. r.boosted[v] # None => Own(s, v, r.boosted[v])
    BY <1>1, <1>3, <1>6 DEF Owned, Own
  <2> QED BY <2>1, <2>2, <2>3, Zenon
<1>9. Lowers(r)
  BY <1>7, Zenon DEF Lowers, NoneLanding
<1>10. Wraps(r)
  <2>1. \A d \in Gates : s.current[d] # "wrap" => r.current[d] # "wrap"
    BY <1>6 DEF Percent
  <2> QED BY <1>1, <1>2, <1>3, <2>1, Zenon DEF Wraps
<1>11. OnRecord(r)
  BY <1>3, <1>4, <1>5, <1>6 DEF OnRecord, Percent
<1>12. Safe(s, r)
  BY <1>2, <1>5, <1>8, <1>9, <1>10, <1>11, Zenon DEF Safe, Good, Power, Rested, KeepsTurn
<1> QED BY <1>1, <1>12

LEMMA RdAppliedSafe ==
    ASSUME fit \in Layouts, Good(s), NEW u \in Units, RdApplied(u)
    PROVE  Safe(s, s')
<1> DEFINE x  == s.pendingRd[u]
           ps == [s.pendingRd EXCEPT ![u] = None]
           rs == IF u \in s.active THEN [s.rd EXCEPT ![Drive(s.gate)] = x] ELSE s.rd
           r  == [s EXCEPT !.pendingRd = ps, !.rd = rs]
<1>1. s \in Machine /\ One(s) /\ Turns(s) /\ x # None
  BY GoodFacts, Zenon DEF RdApplied
<1>2. u \in s.active => /\ Synced(s) /\ s.gate # None /\ fit.unit[s.gate] = u
                        /\ s.gate \in Gates /\ Drive(s.gate) \in Gates
  BY GoodFacts, Zenon
<1>3. x \in Rds /\ x = s.scheduled[u]
  BY <1>1, MachineFields DEF Turns
<1>4. /\ ps \in [Units -> Rds \cup {None}] /\ ps[u] = None
      /\ \A v \in Units : v # u => ps[v] = s.pendingRd[v]
      /\ rs \in [Gates -> Rds]
      /\ u \in s.active => rs[Drive(s.gate)] = x
      /\ \A d \in Gates : u \notin s.active \/ d # Drive(s.gate) => rs[d] = s.rd[d]
      /\ u \notin s.active => rs = s.rd
  BY <1>1, <1>2, <1>3, MachineFields
<1> HIDE DEF ps, rs
<1>5. /\ r \in Machine /\ r.pendingRd = ps /\ r.rd = rs /\ r.scheduled = s.scheduled
      /\ r.monitoring = s.monitoring
  BY <1>1, <1>4, ZenonT(30) DEF Machine
<1>6. KeepsSync(s, r) /\ KeepsPower(s, r)
  BY <1>1, <1>4, ZenonT(30) DEF Machine, KeepsSync, KeepsPower
<1>7. s' = r
  <2>1. CASE u \in s.active
    BY <1>2, <2>1, Zenon DEF RdApplied, ps, rs
  <2>2. CASE u \notin s.active
    <3>1. s' = [s EXCEPT !.pendingRd = ps]
      BY <2>2, Zenon DEF RdApplied, ps
    <3>2. [s EXCEPT !.pendingRd = ps] = r
      BY <1>1, <1>4, <2>2 DEF Machine
    <3> QED BY <3>1, <3>2, Zenon
  <2> QED BY <2>1, <2>2
<1> HIDE DEF r
<1>8. r.gate = s.gate /\ One(r) /\ (Synced(r) <=> Synced(s)) /\ r.active = s.active
  BY <1>1, <1>6, SyncKept, Zenon DEF KeepsSync
<1>9. Turns(r)
  <2>1. \A v \in r.active : r.monitoring /\ r.scheduled[v] # None /\ r.pendingRd[v] = None
            => r.rd[Drive(r.gate)] = r.scheduled[v]
    <3> SUFFICES ASSUME NEW v \in s.active, s.monitoring, s.scheduled[v] # None, ps[v] = None
                 PROVE  rs[Drive(s.gate)] = s.scheduled[v]
      BY <1>5, <1>8, Zenon
    <3>1. v = fit.unit[s.gate] /\ v \in Units
      BY <1>1, MachineFields, GoodFacts
    <3>2. CASE u \in s.active
      BY <1>2, <1>3, <1>4, <3>1, <3>2
    <3>3. CASE u \notin s.active
      <4>1. rs = s.rd /\ s.pendingRd[v] = None
        BY <1>4, <3>1, <3>3
      <4>2. s.rd[Drive(s.gate)] = s.scheduled[v]
        BY <1>1, <4>1, Zenon DEF Turns
      <4> QED BY <4>1, <4>2
    <3> QED BY <3>2, <3>3
  <2>2. \A v \in Units : r.pendingRd[v] # None => r.pendingRd[v] = r.scheduled[v]
    BY <1>1, <1>4, <1>5 DEF Turns
  <2>3. \A d \in Gates : r.rd[d] = Tuned => Synced(r) /\ d = Drive(r.gate)
    BY <1>1, <1>2, <1>4, <1>5, <1>8, Zenon DEF Turns
  <2>4. r.gate # None /\ ~Synced(r) => r.rd[Drive(r.gate)] = r.gate
    BY <1>1, <1>2, <1>4, <1>5, <1>8, Zenon DEF Turns
  <2> QED BY <2>1, <2>2, <2>3, <2>4, Zenon DEF Turns
<1>10. Power(r)
  BY <1>6, <1>8, PowerKept, Zenon DEF Good, Power
<1>11. Rested(s) => Rested(r)
  BY <1>6, <1>8, Zenon DEF Rested, KeepsPower
<1>12. Safe(s, r)
  BY <1>5, <1>8, <1>9, <1>10, <1>11, Zenon DEF Safe, Good
<1> QED BY <1>7, <1>12

-----------------------------------------------------------------------------
(* A wrapper's current.                                                      *)

(* A record of its begin or end.                                             *)
LEMMA WrapSet ==
    ASSUME NEW m \in Machine, NEW w \in [gate : Gates \cup {None}, before : Currents]
    PROVE  LET r == [m EXCEPT !.wrap = w]
           IN /\ r \in Machine /\ r.wrap = w /\ KeepsSync(m, r) /\ KeepsTurn(m, r)
              /\ r.current = m.current /\ r.boosted = m.boosted /\ r.pending = m.pending
              /\ r.landing = m.landing
<1> DEFINE r == [m EXCEPT !.wrap = w]
<1>1. /\ r \in Machine /\ r.wrap = w
      /\ r.current = m.current /\ r.boosted = m.boosted /\ r.pending = m.pending
      /\ r.landing = m.landing
  BY ZenonT(30) DEF Machine
<1>2. KeepsSync(m, r) /\ KeepsTurn(m, r)
  BY ZenonT(30) DEF Machine, KeepsSync, KeepsTurn
<1> QED BY <1>1, <1>2, Zenon

(* With no change of current under way, whose time it is does not matter.    *)
LEMMA OwnedWrap ==
    ASSUME NEW m, NEW r, Owned(m), NoneLanding(m), r.gate = m.gate, r.boosted = m.boosted,
           r.pending = m.pending, r.landing = m.landing
    PROVE  Owned(r) /\ Lowers(r) /\ NoneLanding(r)
<1>1. \A v, g : Own(m, v, g) <=> Own(r, v, g)
  BY Zenon DEF Own
<1>2. NoneLanding(r) /\ Lowers(r)
  BY Zenon DEF NoneLanding, Lowers
<1>3. Owned(r)
  BY <1>1, <1>2, Zenon DEF Owned, NoneLanding
<1> QED BY <1>2, <1>3

LEMMA WrapBeginsGood ==
    ASSUME fit \in Layouts, Good(s), WrapBegins
    PROVE  Good(s') /\ s'.monitoring = s.monitoring
<1> DEFINE d == Drive(s.gate)
           w == [gate |-> s.gate, before |-> s.current[d]]
           n == AdjustGearCurrent(s, s.gate, "wrap")
           r == [n EXCEPT !.wrap = w]
<1>1. /\ s \in Machine /\ One(s) /\ Turns(s) /\ Owned(s) /\ Wraps(s)
      /\ s.wrap = NoWrap /\ s.gate # None /\ s.gate \in Gates /\ d \in Gates
  BY GoodFacts, Zenon DEF WrapBegins, Calm
<1>2. s.current[d] # "wrap" /\ \A e \in Gates : s.current[e] # "wrap"
  BY <1>1, Zenon DEF Wraps
<1>3. w \in [gate : Gates \cup {None}, before : Currents] /\ w # NoWrap
  BY <1>1, MachineFields DEF NoWrap
<1>4. /\ n \in Machine /\ Owned(n)
      /\ KeepsSync(s, n) /\ KeepsTurn(s, n) /\ n.pending = s.pending /\ n.wrap = s.wrap
      /\ \A e \in Gates : e # Drive(s.gate) => n.current[e] = s.current[e]
      /\ ~Refused(s, s.gate, "wrap") =>
            n.current[Drive(s.gate)] = "wrap" /\ NoneLanding(n)
  BY <1>1, AdjustFields, Zenon DEF Currents
<1>5. NoneLanding(n)
  BY <1>1, <1>2, <1>4, Zenon DEF Refused
<1>6. s' = r
  BY Zenon DEF WrapBegins
<1>w. w.gate = s.gate /\ w.before = s.current[d]
  OBVIOUS
<1> HIDE DEF n, w
<1>7. /\ r \in Machine /\ r.wrap = w /\ KeepsSync(n, r) /\ KeepsTurn(n, r)
      /\ r.current = n.current /\ r.boosted = n.boosted /\ r.pending = n.pending
      /\ r.landing = n.landing
  BY <1>3, <1>4, WrapSet, Zenon
<1> HIDE DEF r
<1>8. KeepsSync(s, r) /\ KeepsTurn(s, r)
  BY <1>4, <1>7, Zenon DEF KeepsSync, KeepsTurn
<1>9. r.gate = s.gate /\ One(r) /\ Turns(r)
  BY <1>1, <1>8, SyncKept, Zenon
<1>10. Owned(r) /\ Lowers(r) /\ NoneLanding(r)
  <2>1. r.gate = n.gate
    BY <1>7, Zenon DEF KeepsSync
  <2> QED BY <1>4, <1>5, <1>7, <2>1, OwnedWrap, Zenon
<1>11. Wraps(r) /\ OnRecord(r)
  <2>1. r.wrap # NoWrap /\ r.gate # None
    BY <1>1, <1>3, <1>7, <1>9, Zenon
  <2>2. r.wrap.gate = r.gate /\ r.wrap.before # "wrap"
    BY <1>2, <1>7, <1>9, <1>w
  <2>3. \A e \in Gates : e # Drive(r.gate) => r.current[e] # "wrap"
    BY <1>2, <1>4, <1>7, <1>9
  <2> QED BY <2>1, <2>2, <2>3, Zenon DEF Wraps, OnRecord
<1> QED BY <1>6, <1>7, <1>8, <1>9, <1>10, <1>11, Zenon DEF Good, Power, KeepsTurn

LEMMA WrapEndsGood ==
    ASSUME fit \in Layouts, Good(s), WrapEnds
    PROVE  Good(s') /\ s'.monitoring = s.monitoring
<1> DEFINE d == Drive(s.gate)
           b == s.wrap.before
           n == [s EXCEPT !.wrap = NoWrap]
           r == AdjustGearCurrent(n, n.gate, b)
<1>1. /\ s \in Machine /\ One(s) /\ Turns(s) /\ Owned(s) /\ Wraps(s)
      /\ s.wrap # NoWrap /\ ~Synced(s) /\ NoneLanding(s)
  <2>1. s.wrap # NoWrap /\ ~Synced(s)
    BY Zenon DEF WrapEnds, Calm, Follows, Synced
  <2> QED BY <2>1, GoodFacts, Zenon
<1>2. s.gate # None /\ s.wrap.gate = s.gate /\ b # "wrap" /\ s.gate \in Gates /\ b \in Currents
  <2>1. s.gate # None /\ s.wrap.gate = s.gate /\ b # "wrap"
    BY <1>1, Zenon DEF Wraps
  <2> QED BY <1>1, <2>1, MachineFields
<1>3. NoWrap \in [gate : Gates \cup {None}, before : Currents]
  BY DEF NoWrap, Currents
<1>4. /\ n \in Machine /\ n.wrap = NoWrap /\ KeepsSync(s, n) /\ KeepsTurn(s, n)
      /\ n.current = s.current /\ n.boosted = s.boosted /\ n.pending = s.pending
      /\ n.landing = s.landing
  BY <1>1, <1>3, WrapSet, Zenon
<1>5. n.gate = s.gate
  BY <1>4, Zenon DEF KeepsSync
<1>6. s' = r
  BY <1>2, <1>5, Zenon DEF WrapEnds
<1> HIDE DEF n, b
<1>7. Owned(n) /\ Lowers(n) /\ NoneLanding(n)
  BY <1>1, <1>4, <1>5, OwnedWrap, Zenon
<1>8. /\ r \in Machine /\ Owned(r)
      /\ KeepsSync(n, r) /\ KeepsTurn(n, r) /\ r.pending = n.pending /\ r.wrap = n.wrap
      /\ \A e \in Gates : e # Drive(n.gate) => r.current[e] = n.current[e]
      /\ Refused(n, n.gate, b) => r = n
      /\ ~Refused(n, n.gate, b) => r.current[Drive(n.gate)] = b /\ NoneLanding(r)
  BY <1>2, <1>4, <1>5, <1>7, AdjustFields, Zenon
<1> HIDE DEF r
<1>9. KeepsSync(s, r) /\ KeepsTurn(s, r)
  BY <1>4, <1>8, Zenon DEF KeepsSync, KeepsTurn
<1>10. r.gate = s.gate /\ One(r) /\ Turns(r) /\ ~Synced(r)
  BY <1>1, <1>9, SyncKept, Zenon
<1>11. NoneLanding(r) /\ r.current[d] = b
  BY <1>4, <1>5, <1>7, <1>8, Zenon DEF Refused
<1>12. Wraps(r)
  <2>1. \A e \in Gates : e # d => r.current[e] # "wrap"
    BY <1>1, <1>4, <1>5, <1>8, Zenon DEF Wraps
  <2> QED BY <1>2, <1>4, <1>8, <1>11, <2>1, Zenon DEF Wraps
<1>13. Lowers(r)
  BY <1>11, Zenon DEF Lowers, NoneLanding
<1> QED BY <1>6, <1>8, <1>9, <1>10, <1>11, <1>12, <1>13, Zenon DEF Good, Power, KeepsTurn

-----------------------------------------------------------------------------
(* Commands.                                                                 *)

(* What holds between steps: the machine is Good, at rest when no command    *)
(* runs, and monitoring off under one that suspends it.                      *)
Inv ==
    /\ fit \in Layouts /\ op \in {"none", "watched", "suspended", "quiet"}
    /\ Good(s)
    /\ op = "none" => Rested(s)
    /\ op \in {"suspended", "quiet"} => ~s.monitoring

LEMMA InitInv == Init => Inv
<1> SUFFICES ASSUME Init PROVE Inv
  OBVIOUS
<1>1. fit \in Layouts /\ op = "none"
  BY DEF Init
<1>2. PICK u \in Units :
         s = [ gate |-> None, here |-> u, homed |-> TRUE, inside |-> FALSE,
               standalone |-> FALSE, print |-> "off", monitoring |-> FALSE, wrap |-> NoWrap,
               mode |-> [g \in Gates |-> "unsynced"], current |-> [g \in Gates |-> "full"],
               rd |-> [g \in Gates |-> g], active |-> {}, armed |-> {}, requested |-> {},
               boosted |-> [v \in Units |-> None], pending |-> [v \in Units |-> None],
               landing |-> [v \in Units |-> None], scheduled |-> [v \in Units |-> None],
               pendingRd |-> [v \in Units |-> None] ]
  BY DEF Init
<1>3. /\ s.gate = None /\ s.here = u /\ s.homed = TRUE /\ s.inside = FALSE
      /\ s.standalone = FALSE /\ s.print = "off" /\ s.monitoring = FALSE /\ s.wrap = NoWrap
      /\ s.mode = [g \in Gates |-> "unsynced"] /\ s.current = [g \in Gates |-> "full"]
      /\ s.rd = [g \in Gates |-> g] /\ s.active = {} /\ s.armed = {} /\ s.requested = {}
      /\ s.boosted = [v \in Units |-> None] /\ s.pending = [v \in Units |-> None]
      /\ s.landing = [v \in Units |-> None] /\ s.scheduled = [v \in Units |-> None]
      /\ s.pendingRd = [v \in Units |-> None]
  BY <1>2, Zenon
<1>4. /\ s.mode \in [Gates -> Modes] /\ s.current \in [Gates -> Currents]
      /\ s.rd \in [Gates -> Rds] /\ s.boosted \in [Units -> Gates \cup {None}]
      /\ s.pending \in [Units -> Changes \cup {None}]
      /\ s.landing \in [Units -> Changes \cup {None}]
      /\ s.scheduled \in [Units -> Rds \cup {None}]
      /\ s.pendingRd \in [Units -> Rds \cup {None}]
      /\ s.wrap \in [gate : Gates \cup {None}, before : Currents]
      /\ s.print \in {"off", "started", "printing", "paused"}
  BY <1>3 DEF Modes, Currents, Rds, NoWrap
<1>5. s \in Machine
  BY <1>2, <1>3, <1>4, ZenonT(30) DEF Machine
<1>6. ~Synced(s) /\ Rested(s)
  BY <1>3, Zenon DEF Synced, Rested
<1>7. One(s)
  BY <1>3, <1>6 DEF One
<1>8. Turns(s)
  <2>1. \A d \in Gates : s.rd[d] # Tuned
    BY <1>3, GearSyncAssumption
  <2> QED BY <1>3, <2>1 DEF Turns
<1>9. NoneLanding(s) /\ Owned(s) /\ Lowers(s)
  BY <1>3 DEF NoneLanding, Owned, Lowers
<1>10. Wraps(s)
  BY <1>3 DEF Wraps
<1> QED BY <1>1, <1>3, <1>5, <1>6, <1>7, <1>8, <1>9, <1>10, Zenon DEF Inv, Good, Power

LEMMA InvFacts ==
    ASSUME Inv
    PROVE  /\ fit \in Layouts /\ Good(s) /\ s \in Machine
           /\ op = "none" => Rested(s) /\ s.wrap = NoWrap
BY Zenon DEF Inv, Good, Rested

(* The layout never changes.                                                 *)
LEMMA SameLayout ==
    ASSUME fit' = fit, Good(s')
    PROVE  Good(s)' /\ (Rested(s') => Rested(s)')
<1>1. One(s)'
  BY DEF Good, One, Synced, Drive
<1>2. Turns(s)'
  BY DEF Good, Turns, Synced, Drive
<1>3. Owned(s)' /\ Lowers(s)' /\ Wraps(s)'
  BY DEF Good, Power, Owned, Own, Percent, Lowers, Wraps, NoWrap, Drive
<1>4. Synced(s') <=> Synced(s)'
  BY DEF Synced, Drive
<1>5. OnRecord(s') => OnRecord(s)'
  BY DEF OnRecord, Drive
<1>6. NoneLanding(s') => NoneLanding(s)'
  BY DEF NoneLanding
<1>7. Power(s)'
  BY <1>3, <1>4, <1>5, <1>6, Zenon DEF Good, Power
<1>8. Rested(s') => Rested(s)'
  BY <1>4 DEF Rested, Drive, NoWrap
<1>9. (s \in Machine)'
  BY DEF Good, Machine, Currents, Modes, Rds, Changes
<1> QED BY <1>1, <1>2, <1>7, <1>8, <1>9, Zenon DEF Good

LEMMA InvKept ==
    ASSUME Inv, fit' = fit, op' \in {"none", "watched", "suspended", "quiet"}, Good(s'),
           op' = "none" => Rested(s'),
           op' \in {"suspended", "quiet"} => ~s'.monitoring
    PROVE  Inv'
<1>1. Good(s)' /\ (Rested(s') => Rested(s)')
  BY SameLayout, Zenon
<1> QED BY <1>1, Zenon DEF Inv

(* A callback changes neither the layout nor what the command is.            *)
LEMMA SafeInv ==
    ASSUME Inv, Safe(s, s'), fit' = fit, op' = op
    PROVE  Inv'
BY InvKept, Zenon DEF Inv, Safe

LEMMA CallbackInv == Inv /\ Callbacks => Inv'
<1> SUFFICES ASSUME Inv, NEW u \in Units,
                    \/ \E tension \in {"high", "eased", "between"}, rd \in Rds \cup {None} :
                          Sample(u, tension, rd)
                    \/ TangleStarts(u)
                    \/ TangleLands(u)
                    \/ RdApplied(u)
             PROVE  Inv'
  BY DEF Callbacks
<1>1. fit \in Layouts /\ Good(s)
  BY InvFacts
<1>2. ASSUME NEW tension, NEW rd \in Rds \cup {None}, Sample(u, tension, rd)
      PROVE  Inv'
  <2>1. fit' = fit /\ op' = op
    BY <1>2, Zenon DEF Sample
  <2> QED BY <1>1, <1>2, <2>1, SampleSafe, SafeInv
<1>3. ASSUME TangleStarts(u) PROVE Inv'
  <2>1. fit' = fit /\ op' = op
    BY <1>3, Zenon DEF TangleStarts
  <2> QED BY <1>1, <1>3, <2>1, TangleStartsSafe, SafeInv
<1>4. ASSUME TangleLands(u) PROVE Inv'
  <2>1. fit' = fit /\ op' = op
    BY <1>4, Zenon DEF TangleLands
  <2> QED BY <1>1, <1>4, <2>1, TangleLandsSafe, SafeInv
<1>5. ASSUME RdApplied(u) PROVE Inv'
  <2>1. fit' = fit /\ op' = op
    BY <1>5, Zenon DEF RdApplied
  <2> QED BY <1>1, <1>5, <2>1, RdAppliedSafe, SafeInv
<1> QED BY <1>2, <1>3, <1>4, <1>5

LEMMA BeginInv ==
    ASSUME Inv, NEW suspends \in BOOLEAN, Begin(suspends)
    PROVE  Inv'
<1> DEFINE fixed == FixStartedState(s)
           off   == DisableMonitoring(fixed)
<1>1. fit \in Layouts /\ Good(s)
  BY InvFacts
<1>2. /\ fit' = fit /\ s' = IF suspends THEN off ELSE fixed
      /\ op' \in IF suspends THEN {"suspended", "quiet"} ELSE {"watched"}
  <2>1. fit' = fit /\ s' = IF suspends THEN off ELSE fixed
    BY Zenon DEF Begin
  <2>2. op' \in IF suspends THEN {"suspended", "quiet"} ELSE {"watched"}
    BY DEF Begin
  <2> QED BY <2>1, <2>2
<1>3. Stays(s, fixed)
  BY <1>1, FixStartedFields, Zenon
<1> HIDE DEF fixed
<1>4. Good(fixed)
  BY <1>3, Zenon DEF Stays
<1>5. Good(off) /\ ~off.monitoring
  BY <1>1, <1>4, DisableMonitoringFields, Zenon DEF Remains
<1> HIDE DEF off
<1>6. CASE suspends
  BY <1>2, <1>5, <1>6, InvKept
<1>7. CASE ~suspends
  BY <1>2, <1>4, <1>7, InvKept
<1> QED BY <1>6, <1>7

(* While a command runs, all that is asked is a Good machine, and monitoring *)
(* as it is.                                                                 *)
LEMMA RunningInv ==
    ASSUME Inv, Running, Good(s'), s'.monitoring = s.monitoring
    PROVE  Inv'
<1>1. fit' = fit /\ op' = op /\ op # "none"
  BY Zenon DEF Running
<1> QED BY <1>1, InvKept, Zenon DEF Inv

LEMMA MoveInv ==
    ASSUME Inv, NEW mode \in Modes, NEW inside \in BOOLEAN, Move(mode, inside)
    PROVE  Inv'
<1> DEFINE n == Motors(s, mode)
<1>1. fit \in Layouts /\ Good(s)
  BY InvFacts
<1>2. Running /\ s.gate # None /\ s' = [n EXCEPT !.inside = inside]
  BY Zenon DEF Move
<1>3. s.gate \in Gates
  BY <1>1, <1>2, GoodFacts, Zenon
<1>4. Good(n) /\ n.monitoring = s.monitoring
  BY <1>1, <1>3, MotorsFields, Zenon DEF Stays
<1> HIDE DEF n
<1>5. Good(s') /\ s'.monitoring = s.monitoring
  <2>1. Stays(n, s')
    BY <1>2, <1>4, WishSame
  <2> QED BY <1>4, <2>1, Zenon DEF Stays
<1> QED BY <1>2, <1>5, RunningInv, Zenon

LEMMA ResetInv ==
    ASSUME Inv, NEW intention, NEW buzz \in BOOLEAN, Reset(intention, buzz)
    PROVE  Inv'
<1>1. fit \in Layouts /\ Good(s)
  BY InvFacts
<1>2. Running /\ s' = ResetSync(s, intention, FALSE, buzz)
  BY Zenon DEF Reset
<1>3. Stays(s, ResetSync(s, intention, FALSE, buzz))
  BY <1>1, ResetSyncFields, Zenon
<1>4. Good(s') /\ s'.monitoring = s.monitoring
  BY <1>2, <1>3, Zenon DEF Stays
<1> QED BY <1>2, <1>4, RunningInv, Zenon

LEMMA SelectInv ==
    ASSUME Inv, NEW g \in Gates \cup {None}, Select(g)
    PROVE  Inv'
<1> DEFINE n == SetGateSelected(s, g)
<1>1. fit \in Layouts /\ Good(s)
  BY InvFacts
<1>2. Running /\ s.wrap = NoWrap /\ NoneLanding(s) /\ s' = [n EXCEPT !.homed = TRUE]
  BY Zenon DEF Select, Calm, Landed, NoneLanding
<1>3. Good(n) /\ n.monitoring = s.monitoring
  BY <1>1, <1>2, SelectFields, Zenon
<1> HIDE DEF n
<1>4. Good(s') /\ s'.monitoring = s.monitoring
  <2>1. Stays(n, s')
    BY <1>2, <1>3, WishSame
  <2> QED BY <1>3, <2>1, Zenon DEF Stays
<1> QED BY <1>2, <1>4, RunningInv, Zenon

(* With monitoring off, the calibrated rotation distance may be restored.    *)
LEMMA SequenceInv ==
    ASSUME Inv, Sequence
    PROVE  Inv'
<1> DEFINE r == RestoreRd(s)
<1>1. fit \in Layouts /\ Good(s) /\ s \in Machine /\ One(s) /\ Turns(s)
  BY InvFacts, GoodFacts, Zenon
<1>2. Running /\ s' = r /\ op \in {"suspended", "quiet"}
  BY DEF Sequence, Running, Inv
<1>3. ~s.monitoring
  BY <1>2, Zenon DEF Inv
<1>4. CASE s.gate = None
  <2>1. r = s
    BY <1>4, Zenon DEF RestoreRd
  <2> HIDE DEF r
  <2> QED BY <1>1, <1>2, <2>1, RunningInv
<1>5. CASE s.gate # None
  <2>1. s.gate \in Gates /\ s.gate # Tuned
    BY <1>1, <1>5, GoodFacts, DriveType
  <2>2. /\ r \in Machine /\ KeepsSync(s, r) /\ KeepsPower(s, r)
        /\ r.monitoring = s.monitoring
        /\ r.scheduled = s.scheduled /\ r.pendingRd = s.pendingRd
        /\ r.rd[Drive(s.gate)] = s.gate
        /\ \A d \in Gates : d # Drive(s.gate) => r.rd[d] = s.rd[d]
    BY <1>1, <2>1, RestoreRdFields, Zenon
  <2> HIDE DEF r
  <2>3. r.gate = s.gate /\ One(r) /\ (Synced(r) <=> Synced(s)) /\ r.active = s.active
    BY <1>1, <2>2, SyncKept, Zenon DEF KeepsSync
  <2>4. Turns(r)
    <3>1. \A d \in Gates : r.rd[d] = Tuned => s.rd[d] = Tuned
      BY <2>1, <2>2
    <3> QED BY <1>1, <1>3, <2>2, <2>3, <3>1, Zenon DEF Turns
  <2>5. Power(r)
    BY <1>1, <2>2, <2>3, PowerKept, Zenon DEF Good, Power
  <2>6. Good(r)
    BY <2>2, <2>3, <2>4, <2>5, Zenon DEF Good
  <2> QED BY <1>2, <2>2, <2>6, RunningInv, Zenon
<1> QED BY <1>4, <1>5

LEMMA WrapInv ==
    ASSUME Inv, WrapBegins \/ WrapEnds
    PROVE  Inv'
<1>1. Running
  BY Zenon DEF WrapBegins, WrapEnds
<1>2. Good(s') /\ s'.monitoring = s.monitoring
  BY InvFacts, WrapBeginsGood, WrapEndsGood, Zenon
<1> QED BY <1>1, <1>2, RunningInv, Zenon

(* Between commands the machine is at rest.                                  *)
LEMMA RestInv ==
    ASSUME Inv, fit' = fit, op' = "none", Good(s'), Rested(s')
    PROVE  Inv'
BY InvKept

(* The wrappers' last step.                                                  *)
LEMMA UnwrappedFields ==
    ASSUME Inv, NEW buzz \in BOOLEAN, s.wrap = NoWrap
    PROVE  LET r == Unwrapped(buzz) IN Good(r) /\ Rested(r)
<1> DEFINE on == EnableMonitoring(s)
           n  == IF op = "suspended" THEN on ELSE s
           r  == ResetSync(n, "ask", FALSE, buzz)
<1>1. fit \in Layouts /\ Good(s)
  BY InvFacts
<1>2. Unwrapped(buzz) = r
  BY Zenon DEF Unwrapped
<1>3. Good(on) /\ on.wrap = s.wrap
  BY <1>1, EnableMonitoringFields, Zenon DEF Remains
<1> HIDE DEF on
<1>4. Good(n) /\ n.wrap = NoWrap
  BY <1>1, <1>3
<1> HIDE DEF n
<1>5. Stays(n, r) /\ Rested(r)
  BY <1>1, <1>4, ResetSyncFields, Zenon
<1> HIDE DEF r
<1> QED BY <1>2, <1>5, Zenon DEF Stays

LEMMA EndsInv ==
    ASSUME Inv, NEW buzz \in BOOLEAN, Ends(buzz)
    PROVE  Inv'
<1>1. s.wrap = NoWrap /\ op' = "none" /\ s' = Unwrapped(buzz) /\ fit' = fit
  BY Zenon DEF Ends, Calm
<1>2. Good(s') /\ Rested(s')
  BY <1>1, UnwrappedFields, Zenon
<1> QED BY <1>1, <1>2, RestInv

LEMMA FailsInv ==
    ASSUME Inv, NEW buzz \in BOOLEAN, NEW inside \in BOOLEAN, Fails(buzz, inside)
    PROVE  Inv'
<1> DEFINE n == Unwrapped(buzz)
           q == [n EXCEPT !.inside = inside]
           r == HandleMmuError(q, buzz)
<1>1. s.wrap = NoWrap /\ op' = "none" /\ s' = r /\ fit' = fit
  BY Zenon DEF Fails, Calm
<1>2. Good(n) /\ Rested(n)
  BY <1>1, UnwrappedFields, Zenon
<1> HIDE DEF n
<1>3. Stays(n, q) /\ Rested(q)
  BY <1>2, WishSame
<1> HIDE DEF q
<1>4. Good(q) /\ q.wrap = NoWrap
  BY <1>3, Zenon DEF Stays, Rested
<1>5. Remains(q, r) /\ Rested(r)
  BY <1>4, InvFacts, ErrorFields, Zenon
<1> HIDE DEF r
<1> QED BY <1>1, <1>5, RestInv, Zenon DEF Remains

LEMMA CommandInv == Inv /\ Command => Inv'
<1> SUFFICES ASSUME Inv, NEW buzz \in BOOLEAN,
                    \/ \E suspends \in BOOLEAN : Begin(suspends)
                    \/ \E mode \in Modes, inside \in BOOLEAN : Move(mode, inside)
                    \/ \E intention \in {"yes", "no", "ask"} : Reset(intention, buzz)
                    \/ \E g \in Gates \cup {None} : Select(g)
                    \/ Sequence
                    \/ WrapBegins
                    \/ WrapEnds
                    \/ Ends(buzz)
                    \/ \E inside \in BOOLEAN : Fails(buzz, inside)
             PROVE  Inv'
  BY DEF Command
<1> QED BY BeginInv, MoveInv, ResetInv, SelectInv, SequenceInv, WrapInv, EndsInv, FailsInv, Zenon

-----------------------------------------------------------------------------
(* The print, and commands of their own.                                     *)

(* One step of a command that leaves the machine at rest.                    *)
LEMMA AloneInv ==
    ASSUME Inv, Alone, Good(s'), Rested(s')
    PROVE  Inv'
<1>1. fit' = fit /\ op' = "none"
  BY Zenon DEF Alone
<1> QED BY <1>1, RestInv

(* It does if its last step is to reset synchronisation.                     *)
LEMMA LastReset ==
    ASSUME fit \in Layouts, NEW m, Good(m), m.wrap = NoWrap, NEW intention,
           NEW skipCheck \in BOOLEAN, NEW buzz \in BOOLEAN
    PROVE  LET r == ResetSync(m, intention, skipCheck, buzz)
           IN Good(r) /\ Rested(r) /\ r.monitoring = m.monitoring
BY ResetSyncFields, Zenon DEF Stays

LEMMA PrintStartsInv == ASSUME Inv, PrintStarts PROVE Inv'
<1> DEFINE n == EnableMonitoring(s)
<1>1. fit \in Layouts /\ Good(s) /\ Alone /\ s' = [n EXCEPT !.print = "started"]
  BY InvFacts, Zenon DEF PrintStarts
<1>2. Rested(s)
  BY <1>1, InvFacts, Zenon DEF Alone
<1>3. Good(n) /\ Rested(n)
  BY <1>1, <1>2, EnableMonitoringFields, Zenon DEF Remains
<1> HIDE DEF n
<1>4. Stays(n, s') /\ Rested(s')
  BY <1>1, <1>3, WishSame
<1> QED BY <1>1, <1>4, AloneInv, Zenon DEF Stays

LEMMA PrintGoesInv == ASSUME Inv, PrintGoes PROVE Inv'
<1>1. fit \in Layouts /\ Good(s) /\ Alone /\ s' = OnPrintStart(s)
  BY InvFacts, Zenon DEF PrintGoes
<1>2. s.wrap = NoWrap
  BY <1>1, InvFacts, Zenon DEF Alone
<1>3. Good(s') /\ Rested(s')
  BY <1>1, <1>2, PrintStartFields, Zenon DEF Stays
<1> QED BY <1>1, <1>3, AloneInv

LEMMA PrintEndsInv == ASSUME Inv, PrintEnds PROVE Inv'
<1> DEFINE n == DisableMonitoring(s)
           q == [n EXCEPT !.standalone = FALSE, !.print = "off"]
<1>1. fit \in Layouts /\ Good(s) /\ Alone /\ s' = ResetSync(q, "ask", FALSE, FALSE)
  BY InvFacts, Zenon DEF PrintEnds
<1>2. s.wrap = NoWrap
  BY <1>1, InvFacts, Zenon DEF Alone
<1>3. Good(n) /\ n.wrap = NoWrap
  BY <1>1, <1>2, DisableMonitoringFields, Zenon DEF Remains
<1> HIDE DEF n
<1>4. Good(q) /\ q.wrap = NoWrap
  <2>1. Stays(n, q)
    BY <1>3, WishSame
  <2> QED BY <1>3, <2>1, Zenon DEF Stays
<1> HIDE DEF q
<1>5. Good(s') /\ Rested(s')
  BY <1>1, <1>4, LastReset, Zenon
<1> QED BY <1>1, <1>5, AloneInv

LEMMA PauseInv == ASSUME Inv, NEW buzz \in BOOLEAN, Pause(buzz) PROVE Inv'
<1>1. fit \in Layouts /\ Good(s) /\ Alone /\ s' = HandleMmuError(s, buzz)
  BY InvFacts, Zenon DEF Pause
<1>2. s.wrap = NoWrap
  BY <1>1, InvFacts, Zenon DEF Alone
<1>3. Good(s') /\ Rested(s')
  BY <1>1, <1>2, ErrorFields, Zenon DEF Remains
<1> QED BY <1>1, <1>3, AloneInv

LEMMA ResumeInv == ASSUME Inv, Resume PROVE Inv'
<1> DEFINE n == EnableMonitoring(s)
           q == [n EXCEPT !.print = "printing"]
<1>1. /\ fit \in Layouts /\ Good(s) /\ fit' = fit /\ op' = "watched"
      /\ s' = ResetSync(q, "ask", FALSE, FALSE)
  BY InvFacts, Zenon DEF Resume
<1>2. s.wrap = NoWrap
  BY InvFacts, Zenon DEF Resume
<1>3. Good(n) /\ n.wrap = NoWrap
  BY <1>1, <1>2, EnableMonitoringFields, Zenon DEF Remains
<1> HIDE DEF n
<1>4. Good(q) /\ q.wrap = NoWrap
  <2>1. Stays(n, q)
    BY <1>3, WishSame
  <2> QED BY <1>3, <2>1, Zenon DEF Stays
<1> HIDE DEF q
<1>5. Good(s')
  BY <1>1, <1>4, LastReset, Zenon
<1> QED BY <1>1, <1>5, InvKept

LEMMA SyncGearMotorInv ==
    ASSUME Inv, NEW sync \in BOOLEAN, NEW buzz \in BOOLEAN, SyncGearMotor(sync, buzz)
    PROVE  Inv'
<1> DEFINE alone == IF s.print \in {"printing", "paused"} THEN s.standalone ELSE sync
           n     == [s EXCEPT !.standalone = alone]
           want  == IF sync THEN "yes" ELSE "no"
<1>1. fit \in Layouts /\ Good(s) /\ Alone /\ s' = ResetSync(n, want, TRUE, buzz)
  <2> DEFINE lit == [s EXCEPT !.standalone = IF s.print \in {"printing", "paused"} THEN @
                                             ELSE sync]
  <2>1. lit = n
    BY Zenon
  <2>2. Alone /\ s' = ResetSync(lit, want, TRUE, buzz)
    BY Zenon DEF SyncGearMotor
  <2> HIDE DEF lit, n
  <2> QED BY <2>1, <2>2, InvFacts, Zenon
<1>2. s.wrap = NoWrap /\ alone \in BOOLEAN
  <2>1. s.wrap = NoWrap
    BY <1>1, InvFacts, Zenon DEF Alone
  <2>2. s.standalone \in BOOLEAN
    BY InvFacts, MachineFields, Zenon
  <2> QED BY <2>1, <2>2
<1> HIDE DEF alone, want
<1>3. Good(n) /\ n.wrap = NoWrap
  <2>1. Stays(s, n)
    BY <1>1, <1>2, WishSame
  <2> QED BY <1>2, <2>1, Zenon DEF Stays
<1> HIDE DEF n
<1>4. Good(s') /\ Rested(s')
  BY <1>1, <1>3, LastReset, Zenon
<1> QED BY <1>1, <1>4, AloneInv

LEMMA RecoverInv ==
    ASSUME Inv, NEW g \in Gates \cup {None}, NEW inside \in BOOLEAN, NEW buzz \in BOOLEAN,
           MmuRecover(g, inside, buzz)
    PROVE  Inv'
<1> DEFINE n == SetGateSelected(s, g)
           q == [n EXCEPT !.inside = inside]
<1>1. /\ fit \in Layouts /\ Good(s) /\ Alone /\ NoneLanding(s)
      /\ s' = ResetSync(q, "ask", FALSE, buzz)
  BY InvFacts, Zenon DEF MmuRecover, Landed, NoneLanding
<1>2. s.wrap = NoWrap
  BY <1>1, InvFacts, Zenon DEF Alone
<1>3. Good(n) /\ n.wrap = NoWrap
  BY <1>1, <1>2, SelectFields, Zenon
<1> HIDE DEF n
<1>4. Good(q) /\ q.wrap = NoWrap
  <2>1. Stays(n, q)
    BY <1>3, WishSame
  <2> QED BY <1>3, <2>1, Zenon DEF Stays
<1> HIDE DEF q
<1>5. Good(s') /\ Rested(s')
  BY <1>1, <1>4, LastReset, Zenon
<1> QED BY <1>1, <1>5, AloneInv

LEMMA MotorsOffInv == ASSUME Inv, NEW u \in Units, MotorsOff(u) PROVE Inv'
<1> DEFINE off == ResetSync(s, "no", FALSE, FALSE)
<1>1. /\ fit \in Layouts /\ Good(s) /\ Alone
      /\ s' = off \/ s' = [off EXCEPT !.homed = FALSE]
  BY InvFacts, Zenon DEF MotorsOff
<1>2. s.wrap = NoWrap
  BY <1>1, InvFacts, Zenon DEF Alone
<1>3. Good(off) /\ Rested(off)
  BY <1>1, <1>2, LastReset, Zenon
<1> HIDE DEF off
<1>4. Good(s') /\ Rested(s')
  BY <1>1, <1>3, WishSame DEF Stays
<1> QED BY <1>1, <1>4, AloneInv

LEMMA FeedbackResetInv == ASSUME Inv, NEW u \in Units, FeedbackReset(u) PROVE Inv'
<1> DEFINE r == InvalidateRd(s, u)
<1>1. fit \in Layouts /\ Good(s) /\ Alone /\ s' = r /\ s \in Machine /\ One(s) /\ Turns(s)
  BY InvFacts, GoodFacts, Zenon DEF FeedbackReset
<1>2. Rested(s)
  BY <1>1, InvFacts, Zenon DEF Alone
<1>3. /\ r \in Machine /\ KeepsSync(s, r) /\ KeepsPower(s, r)
      /\ r.rd = s.rd /\ r.monitoring = s.monitoring
      /\ r.scheduled[u] = None /\ r.pendingRd[u] = None
      /\ \A v \in Units : v # u => /\ r.scheduled[v] = s.scheduled[v]
                                   /\ r.pendingRd[v] = s.pendingRd[v]
  BY <1>1, InvalidateRdFields, Zenon
<1> HIDE DEF r
<1>4. r.gate = s.gate /\ One(r) /\ (Synced(r) <=> Synced(s)) /\ r.active = s.active
  BY <1>1, <1>3, SyncKept, Zenon DEF KeepsSync
<1>5. Turns(r)
  <2>1. \A v \in r.active : v \in Units
    BY <1>3, MachineFields
  <2>2. \A v \in r.active : r.monitoring /\ r.scheduled[v] # None /\ r.pendingRd[v] = None
            => r.rd[Drive(r.gate)] = r.scheduled[v]
    BY <1>1, <1>3, <1>4, <2>1 DEF Turns
  <2>3. \A v \in Units : r.pendingRd[v] # None => r.pendingRd[v] = r.scheduled[v]
    BY <1>1, <1>3 DEF Turns
  <2> QED BY <1>1, <1>3, <1>4, <2>2, <2>3, Zenon DEF Turns
<1>6. Power(r) /\ Rested(r)
  <2>1. Power(r)
    BY <1>1, <1>3, <1>4, PowerKept, Zenon DEF Good, Power
  <2> QED BY <1>2, <1>3, <1>4, <2>1, Zenon DEF Rested, KeepsPower
<1>7. Good(r)
  BY <1>3, <1>4, <1>5, <1>6, Zenon DEF Good
<1> QED BY <1>1, <1>6, <1>7, AloneInv

LEMMA OthersInv == Inv /\ Others => Inv'
<1> SUFFICES ASSUME Inv, Others PROVE Inv'
  OBVIOUS
<1> QED BY PrintStartsInv, PrintGoesInv, PrintEndsInv, PauseInv, ResumeInv, SyncGearMotorInv,
           RecoverInv, MotorsOffInv, FeedbackResetInv, Zenon DEF Others

LEMMA NextInv == Inv /\ [Next]_vars => Inv'
<1>1. Inv /\ Next => Inv'
  BY CallbackInv, CommandInv, OthersInv, Zenon DEF Next
<1>2. ASSUME Inv, UNCHANGED vars PROVE Inv'
  <2>1. fit' = fit /\ op' = op /\ s' = s
    BY <1>2 DEF vars
  <2>2. Good(s') /\ (op = "none" => Rested(s'))
    BY <1>2, <2>1 DEF Inv
  <2> QED BY <1>2, <2>1, <2>2, InvKept DEF Inv
<1> QED BY <1>1, <1>2

-----------------------------------------------------------------------------
LEMMA SpecInv == Spec => []Inv
<1> QED BY InitInv, NextInv, PTL DEF Spec

(* The machine's fields have their types, whatever the layout.               *)
THEOREM TypeCorrect == Spec => []TypeOK
<1>1. Inv => TypeOK
  BY InvFacts, Zenon DEF Inv, TypeOK
<1> QED BY <1>1, SpecInv, PTL

(* Only the gear of the selected gate ever follows the extruder, and sync    *)
(* feedback works on its unit alone: selection is changed (set_gate_selected)*)
(* when the drive left no longer follows.                                    *)
THEOREM OneFollowerCorrect == Spec => []OneFollower
<1>1. Inv => OneFollower
  <2> SUFFICES ASSUME Inv PROVE OneFollower
    OBVIOUS
  <2>1. One(s) /\ (Follows <=> Synced(s))
    BY InvFacts, GoodFacts, Zenon DEF Follows, Synced
  <2>2. \A u \in Units : u \in s.active <=> Follows /\ fit.unit[s.gate] = u
    BY <2>1 DEF One
  <2> QED BY <2>1, <2>2, Zenon DEF OneFollower, One
<1> QED BY <1>1, SpecInv, PTL

(* A gear that follows has more than the sync current only from a boost on   *)
(* record, in any interleaving of the deferred changes with commands, and a  *)
(* gear a command leaves unsynced has its full current.                      *)
THEOREM BoostsCorrect == Spec => []NoForgottenBoost
<1>1. Inv => NoForgottenBoost
  <2> SUFFICES ASSUME Inv PROVE NoForgottenBoost
    OBVIOUS
  <2>1. /\ Follows <=> Synced(s)
        /\ op = "none" => Rested(s)
        /\ Synced(s) => OnRecord(s)
        /\ Owned(s)
    BY InvFacts, Zenon DEF Follows, Synced, Good, Power
  <2>2. ASSUME Follows, Calm, s.current[Drive(s.gate)] # "sync"
        PROVE  \E u \in Units : s.boosted[u] # None /\ Drive(s.boosted[u]) = Drive(s.gate)
    <3> DEFINE u == fit.unit[s.gate]
    <3>1. s.gate # None /\ s.gate \in Gates /\ u \in Units
      BY <2>2, InvFacts, GoodFacts, DriveType, Zenon DEF Follows
    <3>2. s.boosted[u] # None
      BY <2>1, <2>2, <3>1, Zenon DEF OnRecord, Calm
    <3>3. s.boosted[u] = s.gate
      BY <2>1, <3>1, <3>2, Zenon DEF Owned, Own
    <3> QED BY <3>1, <3>2, <3>3, Zenon
  <2>3. s.gate # None /\ ~Follows /\ op = "none" => s.current[Drive(s.gate)] = "full"
    BY <2>1, Zenon DEF Rested
  <2> QED BY <2>2, <2>3, Zenon DEF NoForgottenBoost
<1> QED BY <1>1, SpecInv, PTL

(* No rotation distance the sync controller came to outlives it: a gear that *)
(* does not follow turns by its gate's calibrated one, and while monitoring  *)
(* is on one that follows turns by what was scheduled last, once applied.    *)
THEOREM RotationCorrect == Spec => []RotationKnown
<1>1. Inv => RotationKnown
  <2> SUFFICES ASSUME Inv PROVE RotationKnown
    OBVIOUS
  <2>1. Turns(s) /\ (Follows <=> Synced(s))
    BY InvFacts, GoodFacts, Zenon DEF Follows, Synced
  <2> QED BY <2>1, Zenon DEF RotationKnown, Turns
<1> QED BY <1>1, SpecInv, PTL

-----------------------------------------------------------------------------
(* FilamentPath.  What the sensors tell of the tip is kept, stage by       *)
(* stage, as an inductive invariant that relates the recorded position to  *)
(* where the tip can be.                                                   *)

USE FilamentPathAssumption
USE DEF Gone, Parked, Gate, Tube, End, Entry, Grip, Toolhead, Nozzle, Zones,
        UNKNOWN, UNLOADED, HOMED_GATE, START_BOWDEN, IN_BOWDEN, END_BOWDEN,
        HOMED_ENTRY, HOMED_EXTRUDER, EXTRUDER_ENTRY, HOMED_TS, IN_EXTRUDER, LOADED,
        GATE_UNKNOWN, GATE_EMPTY, GATE_AVAILABLE, GATE_AVAILABLE_FROM_BUFFER

(* An unloaded gate that is not empty, at every stage.                     *)
BehindGate ==
    pos = UNLOADED /\ status # GATE_EMPTY =>
        /\ layout.retract => ~gs(tip)
        /\ layout.bowden => ~es(tip)

(* With an entry sensor, filament the extruder holds is known to be past   *)
(* its gear, but for the window the toolhead sensor does not see.          *)
InWindow == layout.ts /\ tip = Grip
HeldIsKnown == layout.es /\ tip >= Grip /\ pos < EXTRUDER_ENTRY => InWindow

(* What a stage can count on.                                              *)
Loading ==
    /\ stage \in {"loadGate", "loadBowden", "homeExtruder"} => pos < EXTRUDER_ENTRY
    /\ stage = "loadExtruder" /\ layout.es /\ ~layout.ts => tip >= Entry
    /\ stage = "toNozzle" /\ layout.es => tip >= Entry
    /\ stage = "toNozzle" /\ layout.ts => tip >= Toolhead
Unloading ==
    /\ stage = "leaveExtruder" => ~layout.es
    /\ stage = "park" => ~layout.bowden /\ tip < Entry

PathInv == PathTypeOK /\ BehindGate /\ HeldIsKnown /\ GripRespected /\ Loading /\ Unloading

-----------------------------------------------------------------------------
(* Moves. *)

LEMMA LayoutFacts ==
  ASSUME layout \in Fits
  PROVE  /\ layout.es \in BOOLEAN /\ layout.ts \in BOOLEAN /\ layout.enc \in BOOLEAN
         /\ layout.retract \in BOOLEAN /\ layout.bowden \in BOOLEAN /\ layout.force \in BOOLEAN
         /\ ~layout.bowden => layout.es
  BY DEF FitType

LEMMA GearMoves ==
  ASSUME tip \in Zones, NEW z \in Zones, NEW x \in GearTo(z)
  PROVE  /\ x \in Zones
         /\ tip >= Grip => x = tip
         /\ tip < Grip => x <= Entry
         /\ z <= tip => x <= tip
  BY DEF GearTo

LEMMA SyncedMoves ==
  ASSUME tip \in Zones, NEW z \in Zones, NEW x \in SyncedTo(z)
  PROVE  /\ x \in Zones
         /\ z <= tip => x <= tip
         /\ z >= tip => x >= tip
  BY DEF SyncedTo

LEMMA ParkMoves ==
  ASSUME layout \in Fits, NEW z \in Zones, ~gs(z), NEW x \in ParkedFrom(z)
  PROVE  /\ x \in Zones /\ x <= Entry
         /\ layout.retract => ~gs(x)
         /\ layout.bowden => ~es(x)
  BY LayoutFacts DEF ParkedFrom, gs, es, GateAt

LEMMA GateZone == GateAt \in {Gate, Entry} /\ GateAt - 1 \in Zones /\ GateAt \in Zones
  BY DEF GateAt

(* Every move ends on the path.                                            *)
LEMMA ReachZones ==
  ASSUME tip \in Zones, layout \in Fits, stage \in Stages
  PROVE  Reach \subseteq Zones
  <1> USE GateZone, GearMoves, SyncedMoves
  <1>1. CASE stage = "loadGate"
    <2> DEFINE z == IF gs(tip) /\ layout.retract THEN GateAt - 1 ELSE GateAt
    <2>1. z \in Zones OBVIOUS
    <2>2. Reach = GearTo(z) BY <1>1 DEF Reach
    <2> QED BY <2>1, <2>2
  <1>2. CASE stage = "loadBowden"
    <2> DEFINE z == IF job.full THEN Entry ELSE Tube
    <2>1. z \in Zones OBVIOUS
    <2>2. Reach = GearTo(z) BY <1>2 DEF Reach
    <2> QED BY <2>1, <2>2
  <1>3. CASE stage = "homeExtruder"
    <2>1. Reach = GearTo(Entry) BY <1>3 DEF Reach
    <2> QED BY <2>1
  <1>4. CASE stage = "loadExtruder"
    <2>1. Reach \subseteq SyncedTo(Toolhead) \cup {tip} BY <1>4 DEF Reach
    <2> QED BY <2>1
  <1>5. CASE stage = "toNozzle"
    <2>1. Reach = SyncedTo(Nozzle) BY <1>5 DEF Reach
    <2> QED BY <2>1
  <1>6. CASE stage = "formTip"
    <2>1. Reach \subseteq (Entry .. tip) \cup {tip} BY <1>6 DEF Reach
    <2> QED BY <2>1
  <1>7. CASE stage = "unloadExtruder"
    <2>1. Reach \subseteq SyncedTo(End) \cup SyncedTo(Grip) \cup {tip} BY <1>7 DEF Reach
    <2> QED BY <2>1
  <1>8. CASE stage = "leaveExtruder"
    <2> DEFINE z == IF tip < End THEN tip ELSE End
    <2>1. z \in Zones OBVIOUS
    <2>2. Reach = SyncedTo(z) \cup ExtruderTo(Entry) BY <1>8 DEF Reach
    <2>3. ExtruderTo(Entry) \subseteq Zones BY DEF ExtruderTo
    <2> QED BY <2>1, <2>2, <2>3
  <1>9. CASE stage = "fastUnload"
    <2>1. FastUnloadTo \in Zones BY DEF FastUnloadTo
    <2>2. Reach = GearTo(FastUnloadTo) BY <1>9 DEF Reach
    <2> QED BY <2>1, <2>2
  <1>10. CASE stage = "unloadGate"
    <2>1. Reach \subseteq GearTo(GateAt - 1) \cup {tip} BY <1>10 DEF Reach
    <2> QED BY <2>1
  <1>11. CASE stage = "park"
    <2>1. Reach = ParkedFrom(tip) BY <1>11 DEF Reach
    <2>2. ParkedFrom(tip) \subseteq Zones BY DEF ParkedFrom, GateAt
    <2> QED BY <2>1, <2>2
  <1>12. CASE stage = "eject"
    <2>1. Reach = GearTo(Gone) BY <1>12 DEF Reach
    <2> QED BY <2>1
  <1>13. CASE stage \in {"idle", "failed"}
    <2>1. Reach = {tip} BY <1>13 DEF Reach
    <2> QED BY <2>1
  <1> QED
    BY <1>1, <1>2, <1>3, <1>4, <1>5, <1>6, <1>7, <1>8, <1>9, <1>10, <1>11, <1>12,
       <1>13 DEF Stages

(* A job keeps its type.                                                   *)
LEMMA NoJobType == NoJob \in Job
  BY DEF NoJob, Job

LEMMA JobStart ==
  ASSUME job \in Job, NEW p \in UNKNOWN .. LOADED
  PROVE  [job EXCEPT !.start = p] \in Job
  BY DEF Job

LEMMA JobKind ==
  ASSUME NEW k \in {"load", "unload", "check", "eject"},
         NEW full \in BOOLEAN, NEW skip \in BOOLEAN, NEW forms \in BOOLEAN, NEW runout \in BOOLEAN
  PROVE  [kind |-> k, full |-> full, skip |-> skip, tip |-> forms, runout |-> runout,
          start |-> UNKNOWN] \in Job
  BY DEF Job

-----------------------------------------------------------------------------
(* Every stage preserves the invariant. *)

LEMMA InitPathInv == ASSUME PathInit PROVE PathInv
  <1>1. tip \in Zones /\ tip <= Entry
        /\ (layout.retract => tip <= Parked) /\ (layout.bowden => tip <= Gate)
    BY DEF PathInit, AtRest, GateAt
  <1>2. calibrated \in BOOLEAN BY LayoutFacts, Zenon DEF PathInit
  <1>3. PathTypeOK BY <1>1, <1>2, NoJobType DEF PathInit, PathTypeOK, Stages
  <1>4. BehindGate BY <1>1 DEF BehindGate, PathInit, gs, es, GateAt
  <1>5. HeldIsKnown /\ GripRespected BY <1>1 DEF HeldIsKnown, GripRespected, PathInit
  <1>6. Loading /\ Unloading BY DEF Loading, Unloading, PathInit
  <1> QED BY <1>3, <1>4, <1>5, <1>6 DEF PathInv

LEMMA HomeToGateKeeps == ASSUME PathInv, HomeToGate PROVE PathInv'
  <1> DEFINE z == IF gs(tip) /\ layout.retract THEN GateAt - 1 ELSE GateAt
  <1>1. Reach = GearTo(z) /\ z \in Zones BY GateZone DEF HomeToGate, Reach
  <1>2. tip' \in Zones /\ (tip >= Grip => tip' = tip) /\ (tip < Grip => tip' <= Entry)
    BY <1>1, GearMoves DEF HomeToGate, Moved, PathInv, PathTypeOK
  <1>3. PathTypeOK'
    BY <1>2, NoJobType DEF PathInv, PathTypeOK, HomeToGate, Stages, Set, Go, Fail, Finish,
       Known, LoadStage, AfterBowden, AtLeast
  <1>4. BehindGate' BY DEF HomeToGate, BehindGate, Set, Fail, Finish, Known
  <1>5. HeldIsKnown'
    BY <1>2 DEF PathInv, PathTypeOK, Loading, HeldIsKnown, InWindow, HomeToGate, Known
  <1>6. GripRespected' /\ Unloading' /\ Loading'
    BY <1>2, LayoutFacts DEF PathInv, PathTypeOK, Loading, HeldIsKnown, InWindow, HomeToGate,
       Set, Go, Fail, Finish, Known, LoadStage, AfterBowden, MustHome, GripRespected, Unloading,
       gs, es, GateAt
  <1> QED BY <1>3, <1>4, <1>5, <1>6 DEF PathInv

LEMMA LoadBowdenKeeps == ASSUME PathInv, LoadBowden PROVE PathInv'
  <1> DEFINE z == IF job.full THEN Entry ELSE Tube
  <1>1. Reach = GearTo(z) /\ z \in Zones BY DEF LoadBowden, Reach
  <1>2. tip' \in Zones /\ (tip >= Grip => tip' = tip) /\ (tip < Grip => tip' <= Entry)
    BY <1>1, GearMoves DEF LoadBowden, Moved, PathInv, PathTypeOK
  <1>3. PathTypeOK'
    BY <1>2, NoJobType DEF PathInv, PathTypeOK, LoadBowden, Stages, Set, Go, Fail, Finish,
       Known, LoadStage, AfterBowden
  <1>4. BehindGate' /\ HeldIsKnown'
    BY <1>2 DEF LoadBowden, BehindGate, Set, Known, PathInv, PathTypeOK, Loading, HeldIsKnown,
       InWindow
  <1>5. GripRespected' /\ Unloading' /\ Loading'
    BY LayoutFacts DEF PathInv, PathTypeOK, LoadBowden, Set, Go, Fail, Finish, Known, LoadStage,
       AfterBowden, MustHome, GripRespected, Unloading, Loading
  <1> QED BY <1>3, <1>4, <1>5 DEF PathInv

LEMMA HomeToExtruderKeeps == ASSUME PathInv, HomeToExtruder PROVE PathInv'
  <1>1. Reach = GearTo(Entry) BY DEF HomeToExtruder, Reach
  <1>2. tip' \in Zones /\ (tip >= Grip => tip' = tip) /\ (tip < Grip => tip' <= Entry)
    BY <1>1, GearMoves DEF HomeToExtruder, Moved, PathInv, PathTypeOK
  <1>3. PathTypeOK'
    <2>1. calibrated' \in BOOLEAN BY Zenon DEF PathInv, PathTypeOK, HomeToExtruder
    <2>2. job' \in Job /\ stage' \in Stages
      BY NoJobType DEF PathInv, PathTypeOK, HomeToExtruder, Stages, Go, Fail, Finish, LoadStage
    <2>3. pos' \in UNLOADED .. LOADED /\ layout' \in Fits /\ status' \in GATE_UNKNOWN .. GATE_AVAILABLE_FROM_BUFFER
      BY DEF PathInv, PathTypeOK, HomeToExtruder, Set
    <2> QED BY <1>2, <2>1, <2>2, <2>3 DEF PathTypeOK
  <1>4. BehindGate' /\ HeldIsKnown'
    BY <1>2 DEF HomeToExtruder, BehindGate, Set, PathInv, PathTypeOK, Loading, HeldIsKnown,
       InWindow
  <1>5. GripRespected' /\ Unloading' /\ Loading'
    BY DEF PathInv, PathTypeOK, HomeToExtruder, Set, Go, Fail, Finish, LoadStage, GripRespected,
       Unloading, Loading, es
  <1> QED BY <1>3, <1>4, <1>5 DEF PathInv

LEMMA LoadExtruderKeeps == ASSUME PathInv, LoadExtruder PROVE PathInv'
  <1>1. tip' \in Zones BY ReachZones DEF LoadExtruder, Moved, PathInv, PathTypeOK
  <1>2. ~layout.ts => tip' = tip BY DEF LoadExtruder, Moved, Reach
  <1>3. PathTypeOK'
    BY <1>1 DEF PathInv, PathTypeOK, LoadExtruder, Stages, Set, Go, Fail, Known
  <1>4. BehindGate' /\ HeldIsKnown'
    BY <1>1, <1>2 DEF LoadExtruder, BehindGate, Set, Known, PathInv, PathTypeOK, HeldIsKnown,
       InWindow, gs, es, ts, GateAt
  <1>5. GripRespected' /\ Unloading' /\ Loading'
    BY <1>1, <1>2 DEF PathInv, PathTypeOK, LoadExtruder, Set, Go, Fail, Known, GripRespected,
       Unloading, Loading, es, ts
  <1> QED BY <1>3, <1>4, <1>5 DEF PathInv

LEMMA ToNozzleKeeps == ASSUME PathInv, ToNozzle PROVE PathInv'
  <1>1. Reach = SyncedTo(Nozzle) BY DEF ToNozzle, Reach
  <1>2. tip' \in Zones /\ tip' >= tip
    BY <1>1, SyncedMoves DEF ToNozzle, Moved, PathInv, PathTypeOK
  <1>3. PathTypeOK'
    <2>1. calibrated' \in BOOLEAN BY Zenon DEF PathInv, PathTypeOK, ToNozzle
    <2>2. job' \in Job /\ stage' \in Stages
      BY NoJobType DEF PathInv, PathTypeOK, ToNozzle, Stages, Fail, Finish
    <2>3. pos' \in UNLOADED .. LOADED /\ layout' \in Fits /\ status' \in GATE_UNKNOWN .. GATE_AVAILABLE_FROM_BUFFER
      BY DEF PathInv, PathTypeOK, ToNozzle, Set
    <2> QED BY <1>2, <2>1, <2>2, <2>3 DEF PathTypeOK
  <1>4. BehindGate' /\ HeldIsKnown'
    BY <1>2 DEF ToNozzle, BehindGate, Set, PathInv, PathTypeOK, HeldIsKnown, InWindow, gs, es,
       GateAt
  <1>5. GripRespected' /\ Unloading' /\ Loading'
    BY DEF ToNozzle, Fail, Finish, GripRespected, Unloading, Loading
  <1> QED BY <1>3, <1>4, <1>5 DEF PathInv

LEMMA RetreatStages ==
  ASSUME NEW p, NEW d
  PROVE  /\ Retreat(p, d) \in {"fastUnload", "park", "unloadGate"}
         /\ Retreat(p, d) = "park" => ~layout.bowden /\ d
         /\ Retreat(p, d) = "fastUnload" => layout.bowden
  BY DEF Retreat

LEMMA FormTipKeeps == ASSUME PathInv, FormTip PROVE PathInv'
  <1>1. tip' \in Zones /\ (tip < Grip => tip' = tip) /\ (tip' > Entry => tip' <= tip)
        /\ (tip < tip' => FALSE)
    BY DEF FormTip, Moved, Reach, PathInv, PathTypeOK
  <1>2. pos' \in UNLOADED .. LOADED
    BY DEF FormTip, PathInv, PathTypeOK, Set, TipState
  <1>3. job' \in Job BY <1>2, JobStart DEF FormTip, PathInv, PathTypeOK
  <1>4. stage' \in {"unloadExtruder", "fastUnload", "unloadGate"}
    BY RetreatStages DEF FormTip
  <1>5. PathTypeOK' BY <1>1, <1>2, <1>3, <1>4 DEF FormTip, PathInv, PathTypeOK, Known, Stages
  <1>6. BehindGate'
    BY <1>1, <1>2 DEF FormTip, PathInv, PathTypeOK, BehindGate, Known, Set, TipState, gs, es,
       GateAt
  <1>7. HeldIsKnown'
    BY <1>1, LayoutFacts DEF FormTip, PathInv, PathTypeOK, HeldIsKnown, InWindow, Known, Set,
       TipState, FormsTip, ts
  <1>8. GripRespected'
    <2>1. pos' >= EXTRUDER_ENTRY => stage' = "unloadExtruder" BY DEF FormTip
    <2> QED BY <1>5, <1>7, <2>1 DEF HeldIsKnown, InWindow, GripRespected, PathTypeOK
  <1>9. Loading' /\ Unloading' BY <1>4 DEF Loading, Unloading
  <1> QED BY <1>5, <1>6, <1>7, <1>8, <1>9 DEF PathInv

LEMMA FormTipFailsKeeps == ASSUME PathInv, FormTipFails PROVE PathInv'
  <1>1. tip' \in Zones /\ tip' <= tip
    BY DEF FormTipFails, Moved, Reach, PathInv, PathTypeOK
  <1>2. PathTypeOK' BY <1>1 DEF FormTipFails, PathInv, PathTypeOK, Fail, Known, Stages
  <1>3. BehindGate'
    BY <1>1 DEF FormTipFails, PathInv, PathTypeOK, BehindGate, Known, gs, es, GateAt
  <1>4. HeldIsKnown' 
    BY <1>1 DEF FormTipFails, PathInv, PathTypeOK, HeldIsKnown, InWindow, Known
  <1>5. GripRespected' /\ Loading' /\ Unloading'
    BY DEF FormTipFails, Fail, GripRespected, Loading, Unloading
  <1> QED BY <1>2, <1>3, <1>4, <1>5 DEF PathInv

LEMMA UnloadExtruderKeeps == ASSUME PathInv, UnloadExtruder PROVE PathInv'
  <1>1. tip' \in Zones BY ReachZones DEF UnloadExtruder, Moved, PathInv, PathTypeOK
  <1>2. tip' <= tip
    <2>1. es(tip) => End <= tip BY DEF es, PathInv, PathTypeOK
    <2>2. ts(tip) => Grip <= tip BY DEF ts, PathInv, PathTypeOK
    <2> QED BY <2>1, <2>2, SyncedMoves DEF UnloadExtruder, Moved, Reach, PathInv, PathTypeOK
  <1>3. stage' \in {"failed", "leaveExtruder", "fastUnload", "park", "unloadGate"}
    BY RetreatStages DEF UnloadExtruder, Fail, Go
  <1>4. PathTypeOK'
    BY <1>1, <1>3 DEF UnloadExtruder, PathInv, PathTypeOK, Known, Set, Fail, Go, Stages
  <1>5. BehindGate'
    BY <1>1, <1>2 DEF UnloadExtruder, PathInv, PathTypeOK, BehindGate, Known, Set, gs, es,
       GateAt
  <1>6. HeldIsKnown' /\ GripRespected'
    BY <1>1, <1>2, <1>3 DEF UnloadExtruder, PathInv, PathTypeOK, HeldIsKnown, GripRespected,
       InWindow, Known, Set, Fail, Go, es
  <1>7. Loading' BY <1>3 DEF Loading
  <1>8. Unloading'
    <2>1. stage' = "leaveExtruder" => ~layout'.es
      BY RetreatStages DEF UnloadExtruder, Known, Fail, Go
    <2>2. stage' = "park" => ~layout'.bowden /\ tip' < Entry
      BY <1>1, LayoutFacts, RetreatStages DEF UnloadExtruder, Known, Fail, Go, PathInv,
         PathTypeOK, es
    <2> QED BY <2>1, <2>2 DEF Unloading
  <1> QED BY <1>4, <1>5, <1>6, <1>7, <1>8 DEF PathInv

LEMMA LeaveExtruderKeeps == ASSUME PathInv, LeaveExtruder PROVE PathInv'
  <1>1. tip' \in Zones /\ tip' <= tip
    <2> DEFINE z == IF tip < End THEN tip ELSE End
    <2>1. z \in Zones /\ z <= tip BY DEF PathInv, PathTypeOK
    <2>2. tip' \in SyncedTo(z) \cup ExtruderTo(Entry) BY DEF LeaveExtruder
    <2>3. tip' \in ExtruderTo(Entry) => tip' \in Zones /\ tip' <= tip
      BY DEF ExtruderTo, PathInv, PathTypeOK
    <2> HIDE DEF z
    <2> QED BY <2>1, <2>2, <2>3, SyncedMoves DEF PathInv, PathTypeOK
  <1>2. stage' \in {"fastUnload", "unloadGate"} BY RetreatStages DEF LeaveExtruder, Go
  <1>3. pos' \in {END_BOWDEN, HOMED_EXTRUDER} /\ job' = job /\ status' = status /\ layout' = layout
        /\ calibrated' = calibrated
    BY DEF LeaveExtruder, Set, Go, Known
  <1>4. PathTypeOK' BY <1>1, <1>2, <1>3 DEF PathInv, PathTypeOK, Stages
  <1>5. BehindGate' BY <1>3 DEF BehindGate
  <1>6. ~layout'.es BY <1>3 DEF PathInv, Unloading, LeaveExtruder
  <1>7. HeldIsKnown' /\ GripRespected' BY <1>6 DEF HeldIsKnown, GripRespected
  <1>8. Loading' /\ Unloading' BY <1>2 DEF Loading, Unloading
  <1> QED BY <1>4, <1>5, <1>7, <1>8 DEF PathInv

LEMMA FastUnloadKeeps == ASSUME PathInv, FastUnload PROVE PathInv'
  <1>1. FastUnloadTo \in Zones BY DEF FastUnloadTo
  <1>2. Reach = GearTo(FastUnloadTo) BY DEF FastUnload, Reach
  <1>3. tip' \in Zones /\ (tip >= Grip => tip' = tip) /\ (tip < Grip => tip' <= Entry)
    BY <1>1, <1>2, GearMoves DEF FastUnload, Moved, PathInv, PathTypeOK
  <1>4. PathTypeOK' BY <1>3 DEF FastUnload, PathInv, PathTypeOK, Set, Go, Known, Stages
  <1>5. BehindGate' BY DEF FastUnload, Set, BehindGate
  <1>6. HeldIsKnown' /\ GripRespected'
    BY <1>3 DEF FastUnload, PathInv, PathTypeOK, Set, Go, Known, HeldIsKnown, GripRespected,
       InWindow
  <1>7. Loading' /\ Unloading' BY DEF FastUnload, Go, Loading, Unloading
  <1> QED BY <1>4, <1>5, <1>6, <1>7 DEF PathInv

(* Ending an unload, the tip parked.                                       *)
LEMMA UnloadedKeeps ==
  ASSUME PathInv, Unloaded, Known, NEW z \in Zones, ~gs(z), tip' \in ParkedFrom(z)
  PROVE  PathInv'
  <1>1. tip' \in Zones /\ tip' <= Entry
        /\ (layout.retract => ~gs(tip')) /\ (layout.bowden => ~es(tip'))
    BY ParkMoves DEF PathInv, PathTypeOK
  <1>2. stage' \in {"idle", "eject"} /\ pos' = UNLOADED /\ layout' = layout
    BY DEF Unloaded, Go, Finish, Set, Known
  <1>3. PathTypeOK'
    <2>1. job' \in Job BY NoJobType DEF Unloaded, Go, Finish, PathInv, PathTypeOK
    <2>2. status' \in GATE_UNKNOWN .. GATE_AVAILABLE_FROM_BUFFER
      BY DEF Unloaded, PathInv, PathTypeOK, AtLeast
    <2> QED BY <1>1, <1>2, <2>1, <2>2 DEF PathInv, PathTypeOK, Known, Stages
  <1>4. BehindGate' BY <1>1, <1>2 DEF BehindGate, gs, es, GateAt
  <1>5. HeldIsKnown' /\ GripRespected' BY <1>1 DEF HeldIsKnown, GripRespected
  <1>6. Loading' /\ Unloading' BY <1>2 DEF Loading, Unloading
  <1> QED BY <1>3, <1>4, <1>5, <1>6 DEF PathInv

LEMMA UnloadGateKeeps == ASSUME PathInv, UnloadGate PROVE PathInv'
  <1>1. Reach \subseteq Zones BY ReachZones DEF PathInv, PathTypeOK
  <1>2. CASE Unloaded /\ \E z \in Reach : ~gs(z) /\ tip' \in ParkedFrom(z)
    BY <1>1, <1>2, UnloadedKeeps DEF UnloadGate
  <1>3. CASE /\ Moved /\ gs(tip')
             /\ IF job.kind = "check"
                THEN /\ status' = GATE_EMPTY /\ Set(UNLOADED)
                     /\ \/ Fail
                        \/ Finish
                ELSE Fail /\ UNCHANGED <<pos, status>>
    <2>1. Reach = IF gs(tip) THEN GearTo(GateAt - 1) ELSE {tip} BY DEF UnloadGate, Reach
    <2>2. gs(tip) => GateAt - 1 <= tip BY GateZone DEF gs, PathInv, PathTypeOK
    <2>3. tip' \in Zones /\ tip' <= tip /\ (tip >= Grip => tip' = tip)
      BY <1>3, <2>1, <2>2, GearMoves, GateZone DEF Moved, PathInv, PathTypeOK
    <2>4. stage' \in {"idle", "failed"} BY <1>3 DEF Fail, Finish
    <2>5. PathTypeOK'
      BY <1>3, <2>3, NoJobType DEF UnloadGate, PathInv, PathTypeOK, Known, Set, Fail, Finish,
         Stages
    <2>6. BehindGate'
      BY <1>3, <2>3 DEF UnloadGate, PathInv, PathTypeOK, BehindGate, Known, gs, es, GateAt
    <2>7. HeldIsKnown' /\ GripRespected'
      BY <1>3, <2>3, <2>4 DEF UnloadGate, PathInv, PathTypeOK, Known, Set, HeldIsKnown,
         GripRespected, InWindow
    <2>8. Loading' /\ Unloading' BY <2>4 DEF Loading, Unloading
    <2> QED BY <2>5, <2>6, <2>7, <2>8 DEF PathInv
  <1> QED BY <1>2, <1>3 DEF UnloadGate

LEMMA ParkAtGateKeeps == ASSUME PathInv, ParkAtGate PROVE PathInv'
  <1>1. Reach = ParkedFrom(tip) BY DEF ParkAtGate, Reach
  <1>2. ~gs(tip) BY DEF PathInv, PathTypeOK, Unloading, ParkAtGate, gs, GateAt
  <1> QED BY <1>1, <1>2, UnloadedKeeps DEF ParkAtGate, Moved, PathInv, PathTypeOK

LEMMA EjectFromGateKeeps == ASSUME PathInv, EjectFromGate PROVE PathInv'
  <1>1. tip' \in Zones /\ tip' <= tip /\ (tip >= Grip => tip' = tip)
    <2>1. CASE tip' \in (IF tip >= Grip THEN {tip} ELSE Gone .. (IF gs(tip) THEN GateAt - 1 ELSE tip))
      BY <2>1, GateZone DEF PathInv, PathTypeOK, gs
    <2>2. CASE Moved
      <3>1. Reach = GearTo(Gone) BY DEF EjectFromGate, Reach
      <3> QED BY <2>2, <3>1, GearMoves DEF Moved, PathInv, PathTypeOK
    <2> QED BY <2>1, <2>2 DEF EjectFromGate
  <1>2. stage' \in {"idle", "failed"} BY DEF EjectFromGate, Fail, Finish
  <1>3. PathTypeOK'
    BY <1>1, NoJobType DEF EjectFromGate, PathInv, PathTypeOK, Known, Fail, Finish, Stages
  <1>4. BehindGate'
    BY <1>1 DEF EjectFromGate, PathInv, PathTypeOK, BehindGate, Known, gs, es, GateAt
  <1>5. HeldIsKnown' /\ GripRespected'
    BY <1>1, <1>2 DEF EjectFromGate, PathInv, PathTypeOK, Known, HeldIsKnown, GripRespected,
       InWindow
  <1>6. Loading' /\ Unloading' BY <1>2 DEF Loading, Unloading
  <1> QED BY <1>3, <1>4, <1>5, <1>6 DEF PathInv

-----------------------------------------------------------------------------
(* Commands, recovery and restarts. *)

(* A command begins at rest, from an unloaded gate but for Unload.         *)
LEMMA StartKeeps ==
  ASSUME PathInv, NEW k \in {"load", "unload", "check", "eject"},
         NEW z \in {"loadGate", "formTip", "eject"},
         NEW full \in BOOLEAN, NEW skip \in BOOLEAN, NEW forms \in BOOLEAN, NEW runout \in BOOLEAN,
         stage' = z, UNCHANGED tip, Known, UNCHANGED <<pos, status>>,
         z # "formTip" => pos = UNLOADED,
         job' = [kind |-> k, full |-> full, skip |-> skip, tip |-> forms, runout |-> runout,
                 start |-> UNKNOWN]
  PROVE  PathInv'
  <1>1. PathTypeOK' BY JobKind DEF PathInv, PathTypeOK, Known, Stages
  <1>2. BehindGate' BY DEF PathInv, BehindGate, Known, gs, es, GateAt
  <1>3. HeldIsKnown' BY DEF PathInv, HeldIsKnown, InWindow, Known
  <1>4. GripRespected' BY DEF PathInv, HeldIsKnown, InWindow, GripRespected, Known
  <1>5. Loading' /\ Unloading' BY DEF Loading, Unloading
  <1> QED BY <1>1, <1>2, <1>3, <1>4, <1>5 DEF PathInv

LEMMA CommandsKeep ==
  ASSUME PathInv,
         \/ \E full, skip \in BOOLEAN : Load(full, skip)
         \/ \E full, forms, runout \in BOOLEAN : Unload(full, forms, runout)
         \/ CheckGate
         \/ Eject
  PROVE  PathInv'
  <1>1. ASSUME NEW full \in BOOLEAN, NEW skip \in BOOLEAN, Load(full, skip) PROVE PathInv'
    <2>1. job' = [kind |-> "load", full |-> full, skip |-> skip, tip |-> FALSE, runout |-> FALSE,
                  start |-> UNKNOWN]
      BY <1>1 DEF Load, Start, NoJob
    <2> QED BY <1>1, <2>1, StartKeeps DEF Load, Start
  <1>2. ASSUME NEW full \in BOOLEAN, NEW forms \in BOOLEAN, NEW runout \in BOOLEAN,
               Unload(full, forms, runout)
        PROVE PathInv'
    <2>1. job' = [kind |-> "unload", full |-> full, skip |-> FALSE, tip |-> forms, runout |-> runout,
                  start |-> UNKNOWN]
      BY <1>2 DEF Unload, Start, NoJob
    <2> QED BY <1>2, <2>1, StartKeeps DEF Unload, Start
  <1>3. CASE CheckGate
    <2>1. job' = [kind |-> "check", full |-> TRUE, skip |-> FALSE, tip |-> FALSE, runout |-> FALSE,
                  start |-> UNKNOWN]
      BY <1>3 DEF CheckGate, Start, NoJob
    <2> QED BY <1>3, <2>1, StartKeeps DEF CheckGate, Start
  <1>4. CASE Eject
    <2>1. job' = [kind |-> "eject", full |-> TRUE, skip |-> FALSE, tip |-> FALSE, runout |-> FALSE,
                  start |-> UNKNOWN]
      BY <1>4 DEF Eject, Start, NoJob
    <2> QED BY <1>4, <2>1, StartKeeps DEF Eject, Start
  <1> QED BY <1>1, <1>2, <1>3, <1>4

(* What recovery makes of a tip at z.                                      *)
LEMMA RecoveredSafe ==
  ASSUME PathTypeOK, NEW z \in Zones, NEW p, NEW strict \in BOOLEAN, NEW heat \in BOOLEAN
  PROVE  /\ Recovered(z, p, strict, heat) \in UNLOADED .. LOADED
         /\ Recovered(z, p, strict, heat) = UNLOADED =>
               /\ layout.retract => ~gs(z)
               /\ ~es(z)
         /\ heat /\ z >= Grip /\ (layout.es \/ layout.enc) => Recovered(z, p, strict, heat) >= IN_EXTRUDER
  BY LayoutFacts DEF PathTypeOK, Recovered, LooksLoaded, Detected, AnySensor, InExtruder, gs,
     es, ts, GateAt

LEMMA StatusTypes ==
  ASSUME PathTypeOK, NEW z \in Zones, NEW p \in UNLOADED .. LOADED
  PROVE  StatusAfter(z, p) \in GATE_UNKNOWN .. GATE_AVAILABLE_FROM_BUFFER
  BY DEF PathTypeOK, StatusAfter, AtLeast

LEMMA RecoverKeeps ==
  ASSUME PathInv, NEW strict \in BOOLEAN, RecoverFilamentPos(strict),
         stage' \in {"idle", stage}, stage \in {"idle", "failed"}, UNCHANGED tip, Known, job' \in {job, NoJob}
  PROVE  PathInv'
  <1> DEFINE p == Recovered(tip, pos, strict, TRUE)
  <1>1. pos' = p /\ status' = StatusAfter(tip, p) BY DEF RecoverFilamentPos
  <1>2. /\ p \in UNLOADED .. LOADED
        /\ p = UNLOADED => (layout.retract => ~gs(tip)) /\ ~es(tip)
        /\ tip >= Grip /\ (layout.es \/ layout.enc) => p >= IN_EXTRUDER
    BY RecoveredSafe DEF PathInv, PathTypeOK
  <1> HIDE DEF p
  <1>3. PathTypeOK'
    BY <1>1, <1>2, StatusTypes, NoJobType DEF PathInv, PathTypeOK, Known, Stages
  <1>4. BehindGate' BY <1>1, <1>2 DEF BehindGate, Known, gs, es, GateAt
  <1>5. HeldIsKnown' BY <1>1, <1>2 DEF HeldIsKnown, Known
  <1>6. GripRespected' /\ Loading' /\ Unloading' BY DEF GripRespected, Loading, Unloading
  <1> QED BY <1>3, <1>4, <1>5, <1>6 DEF PathInv

LEMMA HandleErrorKeeps == ASSUME PathInv, HandleError PROVE PathInv'
  <1>1. stage' = "idle" /\ job' = NoJob /\ tip' = tip /\ Known /\ stage = "failed"
    BY DEF HandleError, Finish
  <1>2. CASE RecoverFilamentPos(FALSE) BY <1>1, <1>2, RecoverKeeps
  <1>3. CASE UNCHANGED <<pos, status>>
    <2>1. PathTypeOK' BY <1>1, <1>3, NoJobType DEF PathInv, PathTypeOK, Known, Stages
    <2>2. BehindGate' /\ HeldIsKnown'
      BY <1>1, <1>3 DEF PathInv, BehindGate, HeldIsKnown, InWindow, Known, gs, es, GateAt
    <2>3. GripRespected' /\ Loading' /\ Unloading' BY <1>1 DEF GripRespected, Loading, Unloading
    <2> QED BY <2>1, <2>2, <2>3 DEF PathInv
  <1> QED BY <1>2, <1>3 DEF HandleError

(* What the boot check makes of it.                                        *)
LEMMA BootSafe ==
  ASSUME PathTypeOK, NEW z \in Zones, NEW p \in {UNKNOWN, UNLOADED, LOADED}
  PROVE  /\ BootPos(z, p) \in UNLOADED .. LOADED
         /\ BootPos(z, p) = UNLOADED => (layout.retract => ~gs(z)) /\ ~es(z)
         /\ layout.es /\ z >= Grip /\ BootPos(z, p) < EXTRUDER_ENTRY => layout.ts /\ z = Grip
         /\ BootPos(z, p) = LOADED /\ (layout.es \/ layout.ts) => z >= (IF layout.es THEN Entry ELSE Toolhead)
  <1>1. CASE (layout.es \/ layout.ts) /\ (layout.es => es(z)) /\ (layout.ts => ts(z))
    <2>1. BootPos(z, p) = LOADED BY <1>1 DEF BootPos
    <2>2. z >= (IF layout.es THEN Entry ELSE Toolhead)
      BY <1>1, LayoutFacts DEF es, ts, PathTypeOK
    <2> QED BY <2>1, <2>2
  <1>2. CASE ~((layout.es \/ layout.ts) /\ (layout.es => es(z)) /\ (layout.ts => ts(z)))
    <2>1. CASE \/ p = LOADED /\ ~es(z) /\ ~ts(z)
               \/ p = UNLOADED /\ AnySensor(z)
               \/ p = UNKNOWN
      <3>1. BootPos(z, p) = Recovered(z, p, FALSE, FALSE) BY <1>2, <2>1 DEF BootPos
      <3>2. Recovered(z, p, FALSE, FALSE) = LOADED /\ (layout.es \/ layout.ts)
            => z >= (IF layout.es THEN Entry ELSE Toolhead)
        BY LayoutFacts DEF PathTypeOK, Recovered, LooksLoaded, es, ts
      <3>3. layout.es /\ z >= Grip => layout.ts /\ z = Grip
        BY <1>2, LayoutFacts DEF PathTypeOK, es, ts
      <3> QED BY <3>1, <3>2, <3>3, RecoveredSafe
    <2>2. CASE ~(\/ p = LOADED /\ ~es(z) /\ ~ts(z)
                 \/ p = UNLOADED /\ AnySensor(z)
                 \/ p = UNKNOWN)
      <3>1. BootPos(z, p) = p /\ p # UNKNOWN BY <1>2, <2>2 DEF BootPos
      <3>2. p = UNLOADED => (layout.retract => ~gs(z)) /\ ~es(z)
        BY <2>2, LayoutFacts DEF PathTypeOK, AnySensor, gs, es, GateAt
      <3>3. p = LOADED /\ (layout.es \/ layout.ts) => z >= (IF layout.es THEN Entry ELSE Toolhead)
        BY <2>2, LayoutFacts DEF PathTypeOK, es, ts
      <3>4. layout.es /\ z >= Grip => layout.ts /\ z = Grip
        BY <1>2, LayoutFacts DEF PathTypeOK, es, ts
      <3> QED BY <3>1, <3>2, <3>3, <3>4
    <2> QED BY <2>1, <2>2
  <1> QED BY <1>1, <1>2

LEMMA RestartKeeps == ASSUME PathInv, Restart PROVE PathInv'
  <1>1. tip' \in Zones BY ReachZones DEF Restart, Moved, PathInv, PathTypeOK
  <1>2. Saved \in {UNKNOWN, UNLOADED, LOADED} BY DEF Saved
  <1>3. pos' = BootPos(tip', Saved) /\ stage' = "idle" /\ job' = NoJob /\ Known
    BY DEF Restart, Set, Finish
  <1>4. /\ pos' \in UNLOADED .. LOADED
        /\ pos' = UNLOADED => (layout.retract => ~gs(tip')) /\ ~es(tip')
        /\ layout.es /\ tip' >= Grip /\ pos' < EXTRUDER_ENTRY => layout.ts /\ tip' = Grip
    BY <1>1, <1>2, <1>3, BootSafe DEF PathInv
  <1>5. PathTypeOK'
    BY <1>1, <1>3, <1>4, StatusTypes, NoJobType DEF Restart, PathInv, PathTypeOK, Known, Stages
  <1>6. BehindGate' BY <1>3, <1>4 DEF BehindGate, Known, gs, es, GateAt
  <1>7. HeldIsKnown' BY <1>3, <1>4 DEF HeldIsKnown, InWindow, Known
  <1>8. GripRespected' /\ Loading' /\ Unloading' BY <1>3 DEF GripRespected, Loading, Unloading
  <1> QED BY <1>5, <1>6, <1>7, <1>8 DEF PathInv

LEMMA SpoolKeeps == ASSUME PathInv, SpoolOut \/ SpoolIn PROVE PathInv'
  <1>1. tip' \in Zones /\ tip' <= Entry
        /\ (layout.retract => ~gs(tip')) /\ (layout.bowden => ~es(tip'))
    BY DEF SpoolOut, SpoolIn, AtRest, gs, es, GateAt
  <1>2. PathTypeOK' BY <1>1 DEF SpoolOut, SpoolIn, PathInv, PathTypeOK, Known
  <1>3. BehindGate' BY <1>1 DEF SpoolOut, SpoolIn, Known, BehindGate, gs, es, GateAt
  <1>4. HeldIsKnown' /\ GripRespected' BY <1>1 DEF HeldIsKnown, GripRespected
  <1>5. Loading' /\ Unloading' BY DEF SpoolOut, SpoolIn, Loading, Unloading
  <1> QED BY <1>2, <1>3, <1>4, <1>5 DEF PathInv

-----------------------------------------------------------------------------
(* The invariant. *)

LEMMA NextKeeps == ASSUME PathInv, PathNext PROVE PathInv'
  <1>1. CASE \E strict \in BOOLEAN : Recover(strict)
    BY <1>1, RecoverKeeps DEF Recover
  <1> QED
    BY <1>1, CommandsKeep, HomeToGateKeeps, LoadBowdenKeeps, HomeToExtruderKeeps,
       LoadExtruderKeeps, ToNozzleKeeps, FormTipKeeps, FormTipFailsKeeps, UnloadExtruderKeeps,
       LeaveExtruderKeeps, FastUnloadKeeps, UnloadGateKeeps, ParkAtGateKeeps,
       EjectFromGateKeeps, HandleErrorKeeps, RestartKeeps, SpoolKeeps DEF PathNext

LEMMA StutterKeeps == ASSUME PathInv, UNCHANGED pathVars PROVE PathInv'
  BY DEF pathVars, PathInv, PathTypeOK, BehindGate, HeldIsKnown, InWindow, GripRespected,
     Loading, Unloading, gs, es, GateAt

LEMMA PathAlways == PathSpec => []PathInv
  <1>1. PathInit => PathInv BY InitPathInv
  <1>2. PathInv /\ [PathNext]_pathVars => PathInv' BY NextKeeps, StutterKeeps
  <1> QED BY <1>1, <1>2, PTL DEF PathSpec

(* Every variable keeps its type: filament_pos is never UNKNOWN.           *)
THEOREM PathTypeCorrect == PathSpec => []PathTypeOK
  <1>1. PathInv => PathTypeOK BY DEF PathInv
  <1> QED BY <1>1, PathAlways, PTL

(* An unloaded gate that is not empty has its filament behind the sensor.  *)
THEOREM ParkingCorrect == PathSpec => []ParkedWhenUnloaded
  <1>1. PathInv => ParkedWhenUnloaded BY DEF PathInv, BehindGate, ParkedWhenUnloaded
  <1> QED BY <1>1, PathAlways, PTL

(* The gear never pulls on filament the extruder holds, but in the window. *)
THEOREM GripCorrect == PathSpec => []GripRespected
  <1>1. PathInv => GripRespected BY DEF PathInv
  <1> QED BY <1>1, PathAlways, PTL

(* Filament declared loaded was seen at the extruder.                      *)
THEOREM LoadedCorrect == PathSpec => LoadedSeen
  <1> DEFINE Seen == pos' = LOADED /\ (pos # LOADED \/ Restart) /\ (layout.es \/ layout.ts)
                     => tip' >= (IF layout.es THEN Entry ELSE Toolhead)
  <1>1. ASSUME PathInv, PathNext PROVE Seen
    <2>1. CASE Restart
      <3>1. tip' \in Zones BY <1>1, <2>1, ReachZones DEF Restart, Moved, PathInv, PathTypeOK
      <3>2. Saved \in {UNKNOWN, UNLOADED, LOADED} BY DEF Saved
      <3>3. pos' = BootPos(tip', Saved) BY <2>1 DEF Restart, Set
      <3> QED BY <1>1, <3>1, <3>2, <3>3, BootSafe DEF PathInv
    <2>2. CASE ToNozzle
      <3>1. Reach = SyncedTo(Nozzle) BY <2>2 DEF ToNozzle, Reach
      <3>2. tip' \in Zones /\ tip' >= tip
        BY <1>1, <2>2, <3>1, SyncedMoves DEF ToNozzle, Moved, PathInv, PathTypeOK
      <3> QED BY <1>1, <2>2, <3>2, LayoutFacts DEF PathInv, PathTypeOK, Loading, ToNozzle
    <2>3. ASSUME NEW strict \in BOOLEAN, RecoverFilamentPos(strict), UNCHANGED tip, pos # LOADED
          PROVE  Seen
      BY <1>1, <2>3, LayoutFacts DEF RecoverFilamentPos, Recovered, PathInv, PathTypeOK, ts,
         Detected, es
    <2>4. ASSUME UNCHANGED pos PROVE Restart \/ Seen BY <2>4
    <2>5. CASE \/ \E full, skip \in BOOLEAN : Load(full, skip)
               \/ \E full, forms, runout \in BOOLEAN : Unload(full, forms, runout)
               \/ CheckGate \/ Eject \/ FormTipFails \/ EjectFromGate \/ SpoolOut \/ SpoolIn
      BY <2>1, <2>4, <2>5 DEF Load, Unload, CheckGate, Eject, FormTipFails, EjectFromGate,
         SpoolOut, SpoolIn
    <2>6. CASE \/ HomeToGate \/ LoadBowden \/ HomeToExtruder \/ LoadExtruder \/ FormTip
               \/ UnloadExtruder \/ LeaveExtruder \/ FastUnload \/ UnloadGate \/ ParkAtGate
      <3>1. pos' = LOADED => pos = LOADED
        BY <2>6, <1>1 DEF HomeToGate, LoadBowden, HomeToExtruder, LoadExtruder, FormTip,
           UnloadExtruder, LeaveExtruder, FastUnload, UnloadGate, ParkAtGate, Unloaded, Set,
           TipState
      <3> QED BY <2>1, <3>1
    <2>7. CASE (\E strict \in BOOLEAN : Recover(strict)) \/ HandleError
      BY <2>1, <2>3, <2>4, <2>7 DEF Recover, HandleError
    <2> QED BY <1>1, <2>1, <2>2, <2>5, <2>6, <2>7 DEF PathNext
  <1>2. PathInv /\ [PathNext]_pathVars => [Seen]_pathVars BY <1>1
  <1> QED BY <1>2, PathAlways, PTL DEF PathSpec, LoadedSeen

(* Heated recovery never takes filament out of the extruder it is in, nor  *)
(* filament past the gate sensor for parked.                               *)
THEOREM RecoveryCorrect == PathSpec => RecoversSafely
  <1> DEFINE Justified == Recovering /\ UNCHANGED tip /\ stage' = "idle" =>
                       /\ tip >= Grip /\ (layout.es \/ layout.enc) => pos' >= IN_EXTRUDER
                       /\ gs(tip) /\ layout.retract => pos' # UNLOADED
  <1>1. ASSUME PathTypeOK PROVE Justified
    BY <1>1, RecoveredSafe DEF Recovering, RecoverFilamentPos, PathTypeOK
  <1>2. PathTypeOK /\ [PathNext]_pathVars => [Justified]_pathVars BY <1>1
  <1> QED
    BY <1>2, PathTypeCorrect, PTL DEF PathSpec,
       RecoversSafely
=============================================================================
