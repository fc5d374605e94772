----------------------------- MODULE MCVfsFiles -----------------------------
(***************************************************************************)
(* The archives that the kernel is started with, and its devices.          *)
(***************************************************************************)
EXTENDS Vfs

TarEntry(prefix, name, type, size) ==
  <<[kind |-> "entry", prefix |-> prefix, name |-> name, type |-> type, size |-> size]>>
  \o [i \in 1..(size + 1) \div 2 |-> [kind |-> "data"]]
Empty == [kind |-> "empty"]
\* A directory, a file of each size in it, one beside it, and what varies: an
\* entry before its directory, a long name in two parts, other types.
Varied == {TarEntry(<<>>, <<"c", "x">>, "0", 1), TarEntry(<<"b", "l">>, <<"ong">>, "0", 2),
           TarEntry(<<>>, <<"a">>, "2", 0), TarEntry(<<>>, <<"b", "p">>, "6", 0), TarEntry(<<>>, <<"b", "x">>, "4", 0),
           TarEntry(<<>>, <<"b", "a">>, "1", 0), TarEntry(<<>>, <<"dev">>, "0", 3)}
MCArchive ==
  {TarEntry(<<>>, <<"boot">>, m, 0) \o TarEntry(<<>>, <<"b">>, "5", 0) \o TarEntry(<<>>, <<"b", "a">>, "0", n)
   \o v \o TarEntry(<<>>, <<"a">>, "0", 3) \o d \o TarEntry(<<>>, <<"b", "d">>, "5", 0)
   \o TarEntry(<<>>, <<"b", "d", "a">>, "3", 0) \o <<Empty, Empty>> :
     n \in {0, 1}, m \in {"0", "5"}, v \in Varied, d \in {<<>>, TarEntry(<<>>, <<"dev">>, "5", 0)}}
MCDevice ==
  <<[name |-> "null", std |-> TRUE, block |-> FALSE, calls |-> <<"none", "drop">>],
    [name |-> "console", std |-> TRUE, block |-> FALSE, calls |-> <<"getc", "putc">>],
    [name |-> "random", std |-> TRUE, block |-> FALSE, calls |-> <<"rand", "srand">>],
    [name |-> "urandom", std |-> TRUE, block |-> FALSE, calls |-> <<"rand", "srand">>],
    [name |-> "ttyS0", std |-> FALSE, block |-> FALSE, calls |-> <<"recv", "send">>]>>
MCMemPath == <<"boot">>
MCDevPath == <<"dev">>
=============================================================================
