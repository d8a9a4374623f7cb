-------------------------- MODULE MCGenerationalGC --------------------------
EXTENDS GenerationalGC

Given(dyn) == [o \in DOMAIN dyn \cup {Main, Reg} |->
                  IF o = Main THEN "thread" ELSE IF o = Reg THEN "table" ELSE dyn[o]]
Built(dyn, built, stack, ents) ==
    [type |-> Given(dyn), built |-> built, stack |-> stack,
     ents |-> [o \in DOMAIN Given(dyn) |-> IF o \in DOMAIN ents THEN ents[o] ELSE {}]]
Fresh(dyn) == Built(dyn, {}, {}, <<>>)

\* five ephemerons, each with the key of the one before as its value, from the registry on:
\* when they are visited from a to e, each round marks what the next one needs
Chain == Built([x \in {"a", "b", "c", "d", "e", "i", "j", "k", "l", "v"} |->
                   IF x \in {"a", "b", "c", "d", "e"} THEN "ephemeron" ELSE "closure"],
               {"a", "b", "c", "d", "e", "i", "j", "k", "l", "v", Reg}, {"a", "b", "c", "d", "e"},
               [a |-> {<<"l", "v">>}, b |-> {<<"k", "l">>}, c |-> {<<"j", "k">>}, d |-> {<<"i", "j">>}, e |-> {<<Reg, "i">>}])

MCWorlds == {
    Fresh([a |-> "table", b |-> "udata"]),
    Built([e |-> "ephemeron", k |-> "udata"], {Reg}, {}, <<>>),
    Built([w |-> "weakv", b |-> "udata"], {Reg}, {}, <<>>),
    Built([w |-> "allweak", b |-> "udata"], {Reg}, {}, <<>>),
    Built([co |-> "thread", cl |-> "closure", u |-> "upval", v |-> "table"], {Reg}, {}, <<>>),
    Chain
}
=============================================================================
