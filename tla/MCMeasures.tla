----------------------------- MODULE MCMeasures -----------------------------
(***************************************************************************)
(* What the machines of texts, compression and measures are run with.  The *)
(* machine under way has its choices; every other one stays at one initial *)
(* state.                                                                  *)
(***************************************************************************)
EXTENDS Json, Deflate, Measures, PublicAddress

MeasureMachines == {"json", "deflate", "interfaces", "disks", "address"}

-----------------------------------------------------------------------------
\* Deflate: all short texts of two bytes, runs at the longest match, literals
\* on both sides of the code lengths' steps.
SeqsUpTo(S, n) == UNION {[1 .. k -> S] : k \in 0 .. n}
Times(byte, n) == [i \in 1 .. n |-> byte]

SomeInputs ==
    SeqsUpTo({97, 200}, 5)
      \cup {Times(97, 300), Times(97, 301), <<0, 143, 144, 255, 0, 143, 144, 255, 1>>,
            [i \in 1 .. 40 |-> i % 9],
            <<97, 97, 97, 98, 97, 97, 97, 99, 97, 97, 97, 98, 97, 97, 97, 99>>}

\* What a server deflated: stored, fixed and dynamic blocks, and damaged ones.
LiteralOf(byte) == [len |-> 0, value |-> byte]
BackRef(n, back) == [len |-> n, value |-> back]
BlockOf(type, data, tokens) ==
    [type |-> type, data |-> data, tokens |-> tokens, damage |-> 0, cl |-> <<>>, runs |-> <<>>,
     hlit |-> 257, hdist |-> 1]
CodeLens == [i \in 1 .. 19 |-> IF i \in {3, 4, 19} THEN 2 ELSE IF i \in {17, 18} THEN 3 ELSE 0]
LenRuns ==
    <<<<18, 97>>, <<3, 1>>, <<3, 1>>, <<18, 138>>, <<17, 10>>, <<17, 9>>, <<2, 1>>, <<16, 4>>>>
CodedBlock(tokens, damaged, runs, lens) ==
    [BlockOf(2, <<>>, tokens) EXCEPT !.damage = damaged, !.cl = lens, !.runs = runs,
                                     !.hlit = 259, !.hdist = 2]
StreamOf(blocks, ending, spoilt) == [blocks |-> blocks, ending |-> ending, bad |-> spoilt]

SoundBlocks ==
    {<<BlockOf(0, <<1, 255>>, <<>>)>>,
     <<BlockOf(0, <<>>, <<>>),
       BlockOf(1, <<>>, <<LiteralOf(200), LiteralOf(7), BackRef(5, 2), BackRef(258, 1)>>)>>,
     <<CodedBlock(<<LiteralOf(97), LiteralOf(98), BackRef(3, 1), BackRef(4, 2)>>, 0, LenRuns, CodeLens),
       BlockOf(0, <<9>>, <<>>)>>,
     <<BlockOf(1, <<>>, <<LiteralOf(3), BackRef(258, 1), BackRef(258, 1)>>)>>,
     <<BlockOf(0, Times(5, 301), <<>>)>>,
     <<BlockOf(1, <<>>, <<LiteralOf(3), BackRef(258, 1), BackRef(41, 1), LiteralOf(2)>>)>>}

DamagedBlocks ==
    {[BlockOf(0, <<1>>, <<>>) EXCEPT !.damage = 1],
     BlockOf(1, <<>>, <<LiteralOf(1), BackRef(3, 2)>>), BlockOf(3, <<>>, <<>>),
     BlockOf(1, <<>>, <<LiteralOf(286)>>),
     CodedBlock(<<>>, 1, <<<<16, 3>>>>, CodeLens),
     CodedBlock(<<>>, 1, <<<<18, 138>>, <<18, 138>>>>, CodeLens),
     CodedBlock(<<>>, 1, LenRuns, [i \in 1 .. 19 |-> 1])}

SomeStreams ==
    {StreamOf(b, e, FALSE) : b \in SoundBlocks, e \in {"sync", "cut", "bare", "final"}}
      \cup {StreamOf(<<b>>, "final", TRUE) : b \in DamagedBlocks}

-----------------------------------------------------------------------------
\* Interfaces: all patterns of two characters, and classes well and badly formed.
SomeAlphabet == <<"*", "-", "/", "?", "[", "\\", "]", "^", "a", "b", "c">>

SomePatterns ==
    [1 .. 1 -> {"*", "?", "a", "/", "[", "\\"}] \cup [1 .. 2 -> {"*", "?", "a", "\\"}]
      \cup {<<"*", "a", "*">>, <<"a", "*", "*", "b">>, <<"*", "?", "*">>}
      \cup {<<"[">> \o s : s \in {<<"a", "-", "b", "]">>, <<"^", "a", "]">>, <<"]", "]">>,
                                  <<"\\", "]", "]">>, <<"a", "-">>,
                                  <<"a", "b", "-", "c", "]", "*">>, <<"^", "b", "-", "c", "]">>,
                                  <<"a", "-", "]">>, <<"^", "]">>}}

SomeNames == {<<"a">>, <<"a", "/", "b">>, <<"b", "c", "a">>, <<"c", "a">>, <<"a", "a", "b">>}
SomeBuiltIn == {<<"c">>}

-----------------------------------------------------------------------------
\* Disks: two mounts and a larger one of a disk, datasets of a pool beside a
\* disk of its name, and mounts that do not count.
MountOf(device, type, under, total, used) ==
    [dev |-> device, fs |-> type, path |-> <<"/">> \o under, total |-> total, used |-> used]

SomeMounts ==
    {MountOf(<<"/dev/", "sda">>, "ext4", <<>>, 5, 2),
     MountOf(<<"/dev/", "sda">>, "ext4", <<"data">>, 5, 2),
     MountOf(<<"/dev/", "sda">>, "ext4", <<"data", "base">>, 7, 1),
     MountOf(<<"pool", "/a">>, "zfs", <<"a">>, 1, 1),
     MountOf(<<"pool", "/b">>, "zfs", <<"b">>, 3, 1),
     MountOf(<<"pool">>, "ext4", <<"c">>, 2, 0),
     MountOf(<<"/dev/", "loop", "0">>, "ext4", <<"snap">>, 1, 1),
     MountOf(<<"/dev/", "fuse">>, "fuse", <<"sdcard">>, 4, 4),
     MountOf(<<"/dev/", "sdb">>, "ext4", <<"run">>, 2, 1)}

SomePathLists == {{}, {<<"/", "data">>}, {<<"/", "a">>, <<"/", "sdcard">>}}

-----------------------------------------------------------------------------
\* Addresses: pages with an octet too large, by one and by a lot, and with the
\* largest one behind a zero, with too many dots, with groups and colons, and a
\* trace of both families; interfaces up and down.
SomeBodies ==
    {<<"0", ".", "2", "9", "9", ".", "1", ".", "1">>,
     <<"2", "6", "0", ".", "1", ".", "1", ".", "1">>,
     <<"1", ".", "1", ".", "0", "2", "5", "5", ".", "2", "5", "6">>,
     <<"1", ".", "2", "5", "6", ".", "1", ".", "6", "newline">>,
     <<"1", ".", "1", ".", "1", ".", "1", ".", "1", "x", "9", ".", "0", ".", "0", ".", "0", "1">>,
     <<"x", "2", ":", "1", ":", ":", ":", "f", "a", ":", ":", "1">>,
     <<"x", "newline", "ip", "=", "1", ".", "1", "newline", "ip", "=", "f", ":", ":", "newline">>}

NicOf(name, up, loopback, addr) == [name |-> name, up |-> up, loopback |-> loopback, addr |-> addr]
SomeNicKinds ==
    {NicOf("lo", TRUE, TRUE, "v4"), NicOf("e", FALSE, FALSE, "v6"), NicOf("e", TRUE, FALSE, "v4"),
     NicOf("e", TRUE, FALSE, "v6"), NicOf("w", TRUE, FALSE, "v4"), NicOf("w", TRUE, FALSE, "link")}
SomeNicLists == {{}, {"w"}}

-----------------------------------------------------------------------------
\* The choices of a machine that is not under way.
MeaPinned(m) ==
    /\ m = "json" \/ kind = "text"
    /\ m = "deflate" \/ (zin = <<>> /\ zphase = "deflate")
    /\ m = "interfaces" \/ (nic = <<"a">> /\ include = <<>> /\ exclude = <<>>)
    /\ m = "disks" \/ filters = [include |-> {}, exclude |-> {}]
    /\ m = "address" \/ (/\ wanted = [fromNic |-> FALSE, include |-> {}, exclude |-> {},
                                      v4 |-> NoAddress, v6 |-> NoAddress, tls |-> TRUE]
                         /\ nics = <<>>)

MeaInit(m) ==
    /\ MeaPinned(m)
    /\ JsInit /\ ZInit /\ IfInit /\ DkInit /\ PaInit

meaVars == <<jsVars, zVars, ifVars, dkVars, paVars>>

MeaNext(m) ==
    \/ m = "json" /\ JsNext /\ UNCHANGED <<zVars, ifVars, dkVars, paVars>>
    \/ m = "deflate" /\ ZNext /\ UNCHANGED <<jsVars, ifVars, dkVars, paVars>>
    \/ m = "interfaces" /\ IfNext /\ UNCHANGED <<jsVars, zVars, dkVars, paVars>>
    \/ m = "disks" /\ DkNext /\ UNCHANGED <<jsVars, zVars, ifVars, paVars>>
    \/ m = "address" /\ PaNext /\ UNCHANGED <<jsVars, zVars, ifVars, dkVars>>

MeaTypeOK == JsTypeOK /\ ZTypeOK /\ IfTypeOK /\ DkTypeOK /\ PaTypeOK

=============================================================================
