--------------------------- MODULE MCMemoryStream ---------------------------
EXTENDS MemoryStream, TLC

CONSTANTS tea, coffee, cats, dogs   \* two drinks alike, and two pets that are not

Drinks == {tea, coffee} \X {tea, coffee} \cup {<<cats, cats>>, <<dogs, dogs>>}
Finds == {<<>>, <<tea, coffee>>, <<cats, coffee>>, <<cats, dogs>>}
Infers == {<<>>, <<tea>>, <<coffee, cats>>}
Weight == [x \in {tea, coffee, cats, dogs} |-> IF x \in {cats, dogs} THEN 3 ELSE 2]

Alike == Permutations(Consolidators) \cup Permutations(Jobs)

=============================================================================
