---- MODULE MCCatalogCommands ----
EXTENDS CatalogCommands

Entry(c, d) == [code |-> c, doc |-> d]
MCFiles ==
  {<<Entry("a", 1)>>, <<Entry("a", 1), Entry("a", 2)>>, <<Entry("a", 1), Entry("b", 1)>>,
   <<Entry("a", 1), Entry("b", 9)>>}
====
