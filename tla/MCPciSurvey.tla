------------------------------ MODULE MCPciSurvey ------------------------------
(* Instances of PciSurvey for model checking: the card is function 1:0.0       *)
(* behind bridge 0:0.0 and uses megabytes 8 to 11 of 16.                       *)
EXTENDS PciSurvey, TLC

Reg(form, base, size) == [form |-> form, base |-> base, size |-> size]
Unset == Reg("m32", 0, 1)
Off   == [enabled |-> FALSE, base |-> 9, size |-> 1]
On    == [enabled |-> TRUE, base |-> 11, size |-> 1]
Window(form, upper, base, limit) == [form |-> form, upper |-> upper, base |-> base, limit |-> limit]
Shut  == Window("plain", FALSE, 0, 0)

Function(header, multi, bars, rom, secondary, subordinate, memory, prefetch) ==
    [header |-> header, multi |-> multi, bars |-> bars, rom |-> rom, secondary |-> secondary,
     subordinate |-> subordinate, memory |-> memory, prefetch |-> prefetch]
OrdinaryDevice(bars, rom) == Function("device", TRUE, bars, rom, 0, 0, Shut, Shut)
OrdinaryBridge(sec, sub, memory, prefetch) ==
    Function("bridge", FALSE, <<Unset>>, Off, sec, sub, memory, prefetch)

Card == OrdinaryDevice(<<Reg("m64", 8, 4), Reg("upper", 0, 1), Reg("m32", 4, 1)>>, Off)

\* Below, at both ends of the range, inside it and above it.
Registers == {<<Reg("m32", b, 1)>> : b \in {7, 8, 9, 11, 12}}
        \cup {<<Reg("m32", 4, 4)>>, <<Reg("io", 9, 1)>>, <<Reg("reserved", 4, 1)>>,
              <<Reg("m64", 4, 1)>>,
              <<Reg("m64", 4, 1), Reg("upper", 9, 1)>>, <<Reg("m64", 9, 1), Reg("upper", 1, 1)>>,
              <<Reg("m64", 9, 1), Reg("upper", 0, 1)>>,
              <<Unset, Reg("m32", 10, 1)>>}
Neighbours == {OrdinaryDevice(bars, rom) : bars \in Registers \ {<<Reg("m32", 8, 1)>>}, rom \in {Off, On}}
         \cup {[OrdinaryDevice(<<Unset>>, Off) EXCEPT !.header = "other"]}

Parents == {OrdinaryBridge(1, 1, memory, Window("plain", FALSE, base, limit)) :
              memory \in {Shut, Window("plain", FALSE, 10, 11)},
              base \in {7, 8, 10}, limit \in {9, 10, 11, 15}}
Parent  == OrdinaryBridge(1, 2, Shut, Window("plain", FALSE, 8, 11))

ForeignWindows == {Window("plain", FALSE, b, l) : b \in {5, 9, 11, 12}, l \in {4, 7, 8, 11, 14}}
             \cup {Window("wide", up, 9, 10) : up \in BOOLEAN} \cup {Window("unknown", FALSE, 5, 5)}
Strangers == {OrdinaryBridge(sec, sec, memory, prefetch) :
                sec \in {2}, memory \in {Shut, Window("plain", FALSE, 7, 8)}, prefetch \in ForeignWindows}
        \cup {OrdinaryBridge(0, 0, Shut, Shut), OrdinaryBridge(2, 0, Shut, Shut)}

At(parent)    == (<<0, 0, 0>> :> parent) @@ (<<1, 0, 0>> :> Card)
Silent        == OrdinaryDevice(<<Unset>>, Off)
AloneUnder    == {At(parent) : parent \in Parents}
WithNeighbour == {(p :> n) @@ At(Parent) : p \in {<<0, 1, 0>>, <<1, 1, 0>>}, n \in Neighbours}
            \cup {(<<0, 1, 0>> :> Silent) @@ (<<0, 1, 1>> :> n) @@ At(Parent) : n \in Neighbours}
WithStranger  == {(<<0, 1, 0>> :> s) @@ (<<2, 0, 0>> :> n) @@ At([Parent EXCEPT !.subordinate = 1]) :
                    s \in Strangers, n \in {Silent, OrdinaryDevice(<<Reg("m32", 9, 1)>>, Off)}}
\* A bridge on bus 2 that leads back to bus 1.
WithLoop      == {(<<1, 1, 0>> :> OrdinaryBridge(2, 2, Shut, Shut)) @@
                  (<<2, 0, 0>> :> OrdinaryBridge(1, 1, Shut, Shut)) @@ (<<2, 1, 0>> :> n) @@ At(Parent) :
                    n \in Neighbours}
Machines == AloneUnder \cup WithNeighbour \cup WithStranger \cup WithLoop

\* A foreign bridge that forwards everything from inside the range to the top.
TopWindow == OrdinaryBridge(2, 2, Shut, Window("plain", FALSE, 10, 15))
MachinesWithTopWindow ==
    {(<<0, 1, 0>> :> TopWindow) @@ At([Parent EXCEPT !.subordinate = 1])}
                      \cup {At(parent) : parent \in Parents}

Card100 == <<1, 0, 0>>
================================================================================
