-------------------------- MODULE MCEntityExtraction --------------------------
(* Two URLs on one host: post and blog mention a URL each and the host.  The     *)
(* URLs may be merged, and an old identifier row gives the host's name to the   *)
(* first URL.                                                                   *)
EXTENDS EntityExtraction

CONSTANTS w1, w2, post, blog, url1, url2, hostname, none

MCWorkers == {w1, w2}
AllKeys == {url1, url2, hostname}
Mention(k) == [key |-> k, off |-> 0, from |-> none]
Host(u) == [key |-> hostname, off |-> 0, from |-> u]
Found(d) == LET u == IF d = post THEN url2 ELSE url1 IN <<Mention(u), Host(u)>>
PostAndBlog == {post, blog}
Partitions == [d \in PostAndBlog |-> IF d = post THEN w1 ELSE w2]
FoundInTwo == [d \in PostAndBlog |-> Found(d)]
NoDocs == {}
Hosts == {hostname}
OldRows == [v \in {hostname} |-> url1]
Types == [k \in AllKeys |-> IF k = hostname THEN "domain" ELSE "url"]
Bundle == {url2}
OldKeys == {url2}
Pairs == {<<url1, url2>>, <<hostname, url1>>}
==============================================================================
