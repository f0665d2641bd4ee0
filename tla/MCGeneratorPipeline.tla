------------------------ MODULE MCGeneratorPipeline ------------------------
(* The program's arguments, ids around one and two bytes in any order, and a *)
(* falling, a shortest and an empty linear space.                            *)
EXTENDS GeneratorPipeline
MCWanted == <<5, 6, 7>>
MCSpaces == {<<2, 3, 5>>, <<-1, 1, 5>>, <<3, 2, 2>>, <<7, 9, 0>>}
MCIds == SeqOf({0, 1, 127, 128, 20000}, 3) \cup {<<10, 11, 12, 14>>, <<367, 438, 439, 440>>, <<2147483647>>}
=============================================================================
