------------------------------- MODULE PciSurvey -------------------------------
(* OSMGAPciSurveyRun: does anything else decode the aperture the driver wants? *)
(*                                                                             *)
(* The walk starts at bus 0, follows each bridge's secondary bus, and judges   *)
(* one base register at a time.  It only reads: the extent of a neighbour is   *)
(* never known to it.  Here configuration space carries that extent as "size", *)
(* which no step reads, so that the properties can say what the verdict means  *)
(* for the addresses.  Addresses count megabytes; unsigned long has Top of     *)
(* them.                                                                       *)
EXTENDS Naturals, Sequences

CONSTANTS
    Topologies,   \* what configuration space may hold
    MaxBus, MaxDevice, MaxFunction,
    Ours,         \* <<bus, device, function>> of the card
    Fb, Want,     \* the range asked about
    Top           \* the first address an unsigned long cannot hold

Buses  == 0 .. MaxBus
Places == Buses \X (0 .. MaxDevice) \X (0 .. MaxFunction)
Addr   == 0 .. Top - 1

\* A base register as the walk reads it.  "upper" is the second dword of a pair.
BaseRegisters == [form : {"io", "m32", "m64", "reserved", "upper"}, base : Addr, size : Nat]
Roms          == [enabled : BOOLEAN, base : Addr, size : Nat]
Windows       == [form : {"plain", "wide", "unknown"}, upper : BOOLEAN, base : Addr, limit : Addr]
PciFunctions  == [header : {"device", "bridge", "other"}, multi : BOOLEAN,
                  bars : Seq(BaseRegisters), rom : Roms,
                  secondary : Buses, subordinate : Buses, memory : Windows, prefetch : Windows]

ASSUME SpaceAssumption ==
    /\ {MaxBus, MaxDevice, MaxFunction} \subseteq Nat
    /\ Ours \in Places
    /\ Top \in Nat \ {0} /\ Fb \in Addr \ {0} /\ Want \in Nat

VARIABLES
    space,        \* configuration space: a function from the places present
    todo, done,   \* buses
    place,        \* the function under examination
    reg,          \* its next base register
    stage,        \* "bus", "function", "bars", "rom", "end"
    verdict

walk == <<todo, done, place, reg, stage>>
surveyVars == <<space, walk, verdict>>

Verdicts == {"clear", "bar_inside", "window_overlaps", "parent_too_small",
             "unknown_header", "malformed"}

SurveyTypeOK ==
    /\ space \in Topologies
    /\ todo \subseteq Buses /\ done \subseteq Buses
    /\ place \in Buses \X (0 .. MaxDevice + 1) \X (0 .. MaxFunction)
    /\ reg \in Nat \ {0}
    /\ stage \in {"bus", "function", "bars", "rom", "end"}
    /\ verdict \in Verdicts

-------------------------------------------------------------------------------
\* Judging one claim.  The first reason to refuse is the one that stays.
Refused(v, why) == IF v = "clear" THEN why ELSE v

InRange(a) == a >= Fb /\ a < Fb + Want

ClaimBase(v, base) ==
    IF base # 0 /\ InRange(base) THEN Refused(v, "bar_inside") ELSE v

CarriesUs(base, end) == base <= Fb /\ end > Fb

\* base >= end is a disabled window.
ClaimWindow(v, base, end, isAncestor) ==
    IF base >= end THEN v
    ELSE IF isAncestor
      THEN IF CarriesUs(base, end) /\ end < Fb + Want
             THEN Refused(v, "parent_too_small") ELSE v
      ELSE IF end > Fb /\ base < Fb + Want THEN Refused(v, "window_overlaps") ELSE v

\* The two forwarding windows of a bridge: limits are inclusive, and the sum
\* that makes one exclusive is an unsigned long.
EndOf(w) == IF w.limit = Top - 1 THEN 0 ELSE w.limit + 1

OneWindow(v, w, isAncestor) ==
    IF w.base # 0 /\ w.base <= w.limit
      THEN ClaimWindow(v, w.base, EndOf(w), isAncestor) ELSE v

BridgeWindows(v, f, isAncestor) ==
    LET first == OneWindow(v, f.memory, isAncestor)
    IN  CASE f.prefetch.form = "wide" /\ f.prefetch.upper -> first
          [] f.prefetch.form = "unknown" -> Refused(first, "malformed")
          [] OTHER -> OneWindow(first, f.prefetch, isAncestor)

IsAncestor(f) == f.secondary <= Ours[1] /\ Ours[1] <= f.subordinate

-------------------------------------------------------------------------------
\* OSMGASurveyBegin
SurveyInit ==
    /\ space \in Topologies
    /\ todo = {0} /\ done = {}
    /\ place = <<0, 0, 0>> /\ reg = 1 /\ stage = "bus"
    /\ verdict = IF Want = 0 \/ Fb + Want > Top - 1 THEN "malformed" ELSE "clear"

\* The lowest bus not walked yet.
NextBus ==
    /\ stage = "bus"
    /\ \E bus \in todo \ done :
          /\ \A b \in todo \ done : bus <= b
          /\ place' = <<bus, 0, 0>>
          /\ done' = done \cup {bus}
    /\ stage' = "function"
    /\ UNCHANGED <<space, todo, reg, verdict>>

Finish ==
    /\ stage = "bus" /\ todo \subseteq done
    /\ stage' = "end"
    /\ UNCHANGED <<space, todo, done, place, reg, verdict>>

\* Function 0 says whether the others are there to be asked.
Multi == <<place[1], place[2], 0>> \in DOMAIN space /\ space[<<place[1], place[2], 0>>].multi

Advance ==
    IF place[3] < MaxFunction /\ Multi
      THEN place' = <<place[1], place[2], place[3] + 1>> /\ stage' = "function"
      ELSE /\ place' = <<place[1], place[2] + 1, 0>>
           /\ stage' = IF place[2] < MaxDevice THEN "function" ELSE "bus"

Absent ==
    /\ stage = "function" /\ place \notin DOMAIN space
    /\ Advance
    /\ UNCHANGED <<space, todo, done, reg, verdict>>

UnknownHeader ==
    /\ stage = "function" /\ place \in DOMAIN space /\ space[place].header = "other"
    /\ verdict' = Refused(verdict, "unknown_header")
    /\ Advance
    /\ UNCHANGED <<space, todo, done, reg>>

Device ==
    /\ stage = "function" /\ place \in DOMAIN space /\ space[place].header = "device"
    /\ stage' = "bars" /\ reg' = 1
    /\ UNCHANGED <<space, todo, done, place, verdict>>

BridgeUnfollowed ==                                 \* mutant: secondary not queued
    /\ stage = "function" /\ place \in DOMAIN space /\ space[place].header = "bridge"
    /\ verdict' = BridgeWindows(verdict, space[place], IsAncestor(space[place]))
    /\ stage' = "bars" /\ reg' = 1
    /\ UNCHANGED <<space, todo, done, place>>

Bridge ==
    /\ stage = "function" /\ place \in DOMAIN space /\ space[place].header = "bridge"
    /\ todo' = todo \cup ({space[place].secondary} \ {0})
    /\ verdict' = BridgeWindows(verdict, space[place], IsAncestor(space[place]))
    /\ stage' = "bars" /\ reg' = 1
    /\ UNCHANGED <<space, done, place>>

-------------------------------------------------------------------------------
Bars == space[place].bars

Judge(base) ==
    verdict' = IF place = Ours THEN verdict ELSE ClaimBase(verdict, base)

Consume(n) ==
    /\ reg' = reg + n
    /\ UNCHANGED <<space, todo, done, place, stage>>

AtBar(forms) ==
    stage = "bars" /\ reg <= Len(Bars) /\ Bars[reg].form \in forms

BarPorts == AtBar({"io"}) /\ UNCHANGED verdict /\ Consume(1)

BarReserved ==
    /\ AtBar({"reserved"})
    /\ verdict' = Refused(verdict, "malformed")
    /\ Consume(1)

\* A pair misread as single would take its upper half for a base.
BarSingle == AtBar({"m32", "upper"}) /\ Judge(Bars[reg].base) /\ Consume(1)

BarPairAsSingle ==                                  \* mutant: one dword consumed
    /\ AtBar({"m64"}) /\ reg < Len(Bars)
    /\ IF Bars[reg + 1].base = 0 THEN Judge(Bars[reg].base) ELSE UNCHANGED verdict
    /\ Consume(1)

BarPair ==
    /\ AtBar({"m64"}) /\ reg < Len(Bars)
    /\ IF Bars[reg + 1].base = 0 THEN Judge(Bars[reg].base) ELSE UNCHANGED verdict
    /\ Consume(2)

BarHalfPair ==
    /\ AtBar({"m64"}) /\ reg = Len(Bars)
    /\ verdict' = Refused(verdict, "malformed")
    /\ stage' = "rom"
    /\ UNCHANGED <<space, todo, done, place, reg>>

BarsEnd ==
    /\ stage = "bars" /\ reg > Len(Bars)
    /\ stage' = "rom"
    /\ UNCHANGED <<space, todo, done, place, reg, verdict>>

Rom ==
    /\ stage = "rom"
    /\ IF space[place].rom.enabled THEN Judge(space[place].rom.base) ELSE UNCHANGED verdict
    /\ Advance
    /\ UNCHANGED <<space, todo, done, reg>>

Bar == BarPorts \/ BarReserved \/ BarSingle \/ BarPair \/ BarHalfPair \/ BarsEnd

SurveyNext ==
    \/ NextBus \/ Finish
    \/ Absent \/ UnknownHeader \/ Device \/ Bridge
    \/ Bar \/ Rom

SurveySpec == SurveyInit /\ [][SurveyNext]_surveyVars

-------------------------------------------------------------------------------
\* What the hardware does, whatever the walk reads of it.
Below4G(f, i) ==
    \/ f.bars[i].form = "m32"
    \/ f.bars[i].form = "m64" /\ i < Len(f.bars) /\ f.bars[i + 1].base = 0

Covers(d, a) == d.base # 0 /\ d.base <= a /\ a < d.base + d.size

Decodes(f, a) ==
    \/ \E i \in 1 .. Len(f.bars) : Below4G(f, i) /\ Covers(f.bars[i], a)
    \/ f.rom.enabled /\ Covers(f.rom, a)

\* Its windows, the prefetchable one only if it is below four gigabytes.
WindowsOf(f) ==
    {f.memory} \cup IF f.prefetch.form = "wide" /\ f.prefetch.upper THEN {} ELSE {f.prefetch}

Forwards(w, a) == w.base # 0 /\ w.base <= a /\ a <= w.limit

\* Buses a bridge leads to from bus 0.
Follows(B) ==
    \A p \in DOMAIN space :
        p[1] \in B /\ space[p].header = "bridge" /\ space[p].secondary # 0
          => space[p].secondary \in B

Reachable(bus) == \A B \in SUBSET Buses : 0 \in B /\ Follows(B) => bus \in B

Others  == {p \in DOMAIN space : Reachable(p[1]) /\ p # Ours}
Bridges == {p \in DOMAIN space : Reachable(p[1]) /\ space[p].header = "bridge"}
Wanted   == {a \in Addr : InRange(a)}

\* What configuration space and the machine are taken to be: function 0 stands
\* for the others, upper halves follow pairs, every decoder has a size, nobody
\* else decodes Fb itself (the picture is shown from there), and a bridge
\* without bus numbers forwards nothing.
Sane(t) ==
    /\ DOMAIN t \subseteq Places
    /\ \A p \in DOMAIN t :
          /\ t[p] \in PciFunctions
          /\ p[3] # 0 => <<p[1], p[2], 0>> \in DOMAIN t /\ t[<<p[1], p[2], 0>>].multi
          /\ \A i \in 1 .. Len(t[p].bars) :
                /\ t[p].bars[i].form = "upper" <=> i > 1 /\ t[p].bars[i - 1].form = "m64"
                /\ t[p].bars[i].size > 0
          /\ t[p].rom.size > 0
          /\ p # Ours => ~Decodes(t[p], Fb)
          /\ t[p].header = "bridge" /\ t[p].secondary = 0
                => \A w \in WindowsOf(t[p]) : w.base = 0

ASSUME TopologiesAssumption == \A t \in Topologies : Sane(t)

\* No bridge but the card's own ends a window at four gigabytes.
NoForeignWindowAtTheTop ==
    \A t \in Topologies : \A p \in DOMAIN t :
        t[p].header = "bridge" /\ ~IsAncestor(t[p])
          => \A w \in WindowsOf(t[p]) : w.limit < Top - 1

-------------------------------------------------------------------------------
\* Every address of the range is the card's own: decoded by nobody else that the
\* buses lead to, forwarded elsewhere by no bridge, and forwarded to the card by each
\* bridge above it.
RangeIsOurs ==
    \A a \in Wanted :
      /\ \A p \in Others : space[p].header # "other" /\ ~Decodes(space[p], a)
      /\ \A p \in Bridges : \A w \in WindowsOf(space[p]) :
            IF IsAncestor(space[p]) THEN Forwards(w, Fb) => Forwards(w, a)
                                    ELSE ~Forwards(w, a)

\* A clear verdict means what the gate takes it for, although only bases were read,
\* and a base below the range was not looked at any further.
ClearMeansOurs == stage = "end" /\ verdict = "clear" => RangeIsOurs

\* A refusal names something that is there: a machine without a conflict is
\* never kept from its 32 megabytes.
RefusalIsJustified ==
    stage = "end" =>
      CASE verdict = "clear" -> TRUE
        [] verdict = "bar_inside" ->
             \E p \in Others, a \in Wanted : Decodes(space[p], a)
        [] verdict = "window_overlaps" ->
             \E p \in Bridges, a \in Wanted :
               ~IsAncestor(space[p]) /\ \E w \in WindowsOf(space[p]) : Forwards(w, a)
        [] verdict = "parent_too_small" ->
             \E p \in Bridges, a \in Wanted : \E w \in WindowsOf(space[p]) :
               Forwards(w, Fb) /\ ~Forwards(w, a)
        [] verdict = "unknown_header" ->
             \E p \in DOMAIN space : Reachable(p[1]) /\ space[p].header = "other"
        [] verdict = "malformed" ->
             \/ Want = 0 \/ Fb + Want > Top - 1
             \/ \E p \in DOMAIN space : Reachable(p[1])
                   /\ \/ space[p].header = "bridge" /\ space[p].prefetch.form = "unknown"
                      \/ \E i \in 1 .. Len(space[p].bars) :
                           \/ space[p].bars[i].form = "reserved"
                           \/ space[p].bars[i].form = "m64" /\ i = Len(space[p].bars)
===============================================================================
