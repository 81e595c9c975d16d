--------------------------- MODULE MCUpstreamPool ---------------------------
EXTENDS UpstreamPool

CONSTANTS a, b, c

MCAddrs == {a, b, c}

Item(scheme, host, weight) ==
  [blank |-> FALSE, scheme |-> scheme, host |-> host, weight |-> weight]

Blank == [Item("", NoAddr, <<>>) EXCEPT !.blank = TRUE]

Env(mde, addr, items) == [mode |-> mde, addr |-> addr, pool |-> items]

\* Pools whose weights 2 and 1 add up to MaxInt, with a node that has no port, and
\* with weights that overflow when both nodes are candidates; the other ways to
\* serve; and what is refused, by Load or by parsePool.
MCEnvs == {Env("Pool", NoAddr, <<Item("http", a, <<2>>), Blank, Item("socks5", b, <<>>)>>),
           Env("POOL", NoAddr, <<Item("https", a, <<2>>), Item("socks", c, <<>>)>>),
           Env("pool", NoAddr, <<Item("http", a, <<3>>), Item("http", a, <<1>>)>>),
           Env("Direct", NoAddr, <<>>),
           Env("socks5-upstream", a, <<>>),
           Env("http-upstream", NoAddr, <<>>),
           Env("tunnel", a, <<>>),
           Env("pool", NoAddr, <<>>),
           Env("pool", NoAddr, <<Blank>>),
           Env("pool", NoAddr, <<Item("http", a, <<0>>)>>),
           Env("pool", NoAddr, <<Item("http", a, <<4>>)>>),
           Env("pool", NoAddr, <<Item("ftp", a, <<>>)>>),
           Env("pool", NoAddr, <<Item("http", NoAddr, <<>>)>>)}
=============================================================================
