----------------------------- MODULE MCFrontEnds -----------------------------
(* Instance: small sizes, every kind of archive, frame and invocation.      *)
EXTENDS FrontEnds

CONSTANTS p1, p2, d1, d2, gone

ProcSymmetry == Permutations({p1, p2})

Nm(b) == [dir |-> "", base |-> b, lz4 |-> FALSE]
Lz(b) == [dir |-> "", base |-> b, lz4 |-> TRUE]
In(d, b) == [dir |-> d, base |-> b, lz4 |-> FALSE]
File(n, len, how) == Member(n, len, how, NoName)
Link(n, to) == Member(n, 0, "plain", to)

\* One, two or three members of any kind.
Ways == {"plain", "pax", "long"}
Members ==
  {<<File(Nm("boot"), s, w)>> : s \in 0 .. 5, w \in Ways}
  \cup {<<File(Nm("boot"), 3, v), File(In("x", "sys"), 2, w), File(Nm("boot"), 1, u)>> :
          u \in Ways, v \in Ways, w \in Ways}
  \cup {<<Link(Nm("copy"), to), File(Nm("boot"), 3, v), Link(Nm("sys"), to), File(Nm("fwd"), 2, w)>> :
          v \in Ways, w \in Ways, to \in {Nm("boot"), Nm("fwd"), Nm("nowhere")}}
  \cup {<< >>}

\* Frames: sound ones of up to seven units, cut ones, ended ones, ones with a wrong
\* block, small blocks, a bad header.
Sound(c) ==
  Frame("ok", 2, c, [i \in 1 .. (c + 1) \div 2 |->
                       FrameBlock(IF 2 * i <= c THEN 2 ELSE 1, IF i = 1 THEN 3 ELSE IF 2 * i <= c THEN 2 ELSE 1, i # 1)])
Short7  == [Sound(7) EXCEPT !.blocks = SubSeq(@, 1, 2)]
Ended5  == [Sound(5) EXCEPT !.blocks[2] = FrameBlock(0, 0, FALSE)]
Wrong5  == [Sound(5) EXCEPT !.blocks[3].out = 2, !.blocks[3].raw = FALSE]
Small2  == Frame("ok", 1, 2, <<FrameBlock(1, 1, TRUE), FrameBlock(1, 1, TRUE)>>)
Large5  == Frame("ok", 1, 5, << >>)
BadHead == Frame("bad", 2, 2, << >>)

Tar(members, list, frame) ==
  [members |-> members, blocks |-> Pack(members), list |-> list, frame |-> frame, named |-> "tar",
   name |-> Nm("cut"), size |-> 0]
RawFile(n, len, frame) ==
  [members |-> << >>, blocks |-> << >>, list |-> << >>, frame |-> frame, named |-> "raw", name |-> n, size |-> len]

ListMember == File(ListName, 1, "plain")
Plain(n) == <<File(Nm("boot"), n, "plain"), File(Nm("sys"), 2, "pax")>>
BaseTar   == Tar(Plain(5), << >>, Sound(2))
LaterTar  == Tar(<<File(Nm("sys"), 3, "plain"), File(Nm("fwd"), 1, "long"), File(Nm("a.pit"), 1, "plain")>>, << >>, Sound(2))
LinkTar   == Tar(<<Link(Nm("sys"), Nm("boot")), File(Nm("boot"), 3, "plain"), File(Nm("sys"), 1, "plain")>>, << >>, Sound(2))
ListTar   == Tar(<<ListMember>> \o Plain(3), <<"boot">>, Sound(2))
OtherList == Tar(<<ListMember, File(Nm("fwd"), 1, "plain")>>, <<"fwd", "boot">>, Sound(2))
TwiceList == Tar(<<ListMember>> \o Plain(3), <<"boot", "boot">>, Sound(2))
Packed(f) == Tar(<<File(Lz("boot"), 4, "plain"), File(Nm("sys"), 1, "plain")>>, << >>, f)
CutTar    == [BaseTar EXCEPT !.blocks = SubSeq(@, 1, 4)]
BadSum    == [BaseTar EXCEPT !.blocks = Damaged(@, 6)]

FrameSet == {Sound(c) : c \in {1, 2, 3, 4, 5, 7, 8, 9}} \cup {Short7, Ended5, Wrong5, Small2, Large5, BadHead}
AppFiles ==
  {<<BaseTar>>, <<BaseTar, LaterTar>>, <<LaterTar, BaseTar>>, <<LinkTar, BaseTar>>, <<BaseTar, LinkTar>>,
   <<ListTar, LaterTar>>, <<CutTar>>, <<BadSum>>, <<RawFile(Nm("boot"), 3, Sound(2))>>, << >>}
  \cup {<<Packed(f)>> : f \in FrameSet}
MCAppJobs == AppFiles \cup {<<Tar(ms, << >>, Sound(2))>> : ms \in Members}
CliFiles ==
  {<<BaseTar, LaterTar, RawFile(Nm("boot"), 2, Sound(2))>>, <<LinkTar, BaseTar>>,
   <<ListTar, LaterTar, ListTar>>, <<ListTar, OtherList>>, <<TwiceList>>, <<CutTar>>, <<BadSum>>,
   <<RawFile(Nm("boot"), 0, Sound(2))>>, <<Packed(Sound(7))>>, <<Packed(Wrong5)>>, <<Packed(BadHead)>>, <<RawFile(Lz("boot"), 3, Sound(4))>>,
   <<Tar(<<File(Nm("a.pit"), 1, "plain"), File(Nm("b.pit"), 1, "plain")>>, << >>, Sound(2))>>}

Args(mode, wireless, target, pit, files) ==
  [mode |-> mode, wireless |-> wireless, target |-> target, pit |-> pit, files |-> files]
MCInvocations ==
  {Args("flash", FALSE, None, "no", f) : f \in CliFiles}
  \cup {Args(m, FALSE, None, "no", << >>) : m \in {"help", "list", "bad", "flash"}}
  \cup {Args("flash", FALSE, None, pit, << >>) : pit \in {"given", "unreadable"}}
  \cup {Args("flash", FALSE, t, "no", <<BaseTar>>) : t \in {d1, d2, gone}}
  \cup {Args("flash", TRUE, t, "given", <<BaseTar>>) : t \in {None, d1}}

MCContents == {1}
\* Tables of three partitions in any order, on one device or two, in either format;
\* with equal beginnings; with one partition number twice; short, negative, no table.
Rows(begin, dev, old, id) ==
  [i \in 1 .. 3 |-> Entry(id[i], <<"boot", "sys", "fwd">>[i], dev[i], IF old THEN begin[i] ELSE 1,
                          IF old THEN 0 ELSE begin[i], IF i = 2 THEN 0 ELSE 4)]
Ids == <<1, 2, 3>>
MCTables ==
  {Table(TRUE, 3, Rows(b, <<2, 2, 2>>, old, Ids)) : b \in {<<0, 3, 6>>, <<3, 6, 0>>, <<6, 3, 0>>}, old \in BOOLEAN}
  \cup {Table(TRUE, 3, Rows(<<6, 3, 3>>, <<8, 2, 2>>, FALSE, Ids)),
        Table(TRUE, 3, Rows(<<3, 3, 3>>, <<2, 2, 2>>, TRUE, Ids)),
        Table(TRUE, 3, Rows(<<6, 3, 0>>, <<2, 8, 2>>, FALSE, <<1, 2, 2>>)),
        Table(TRUE, 2, Rows(<<3, 0, 6>>, <<2, 2, 2>>, TRUE, <<1, 1, 2>>))}
  \cup {Table(m, c, Rows(<<6, 3, 0>>, <<2, 2, 2>>, FALSE, Ids)) :
          <<m, c>> \in {<<FALSE, 3>>, <<TRUE, -1>>, <<TRUE, 4>>}}
=============================================================================
