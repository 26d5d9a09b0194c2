-------------------------- MODULE MCSchemaCatalog ---------------------------
(* Constants for model checking SchemaCatalog.                             *)
EXTENDS SchemaCatalog

CONSTANTS users, people, other, lengthy, c, id

\* Users and people are file names; other and lengthy are only ever declared,
\* and lengthy is too long to be one.
OneColumn == <<c>>
WithId == <<c, id>>

AllHeaders == {OneColumn, WithId, Malformed}

\* Good files, a file without a table line, one with two table lines, one with
\* two columns lines, and files that are refused at different points.
Files == {
  <<TableLine(other), ColumnsLine(OneColumn)>>,
  <<TableLine(users), OtherLine, ColumnsLine(OneColumn)>>,
  <<ColumnsLine(OneColumn)>>,
  <<TableLine(other), TableLine(people), ColumnsLine(OneColumn)>>,
  <<TableLine(lengthy), ColumnsLine(OneColumn)>>,
  <<TableLine(other), ColumnsLine(WithId), ColumnsLine(OneColumn)>>,
  <<TableLine(other), ColumnsLine(WithId)>>,
  <<TableLine(users), ColumnsLine(Malformed), Broken>> }
=============================================================================
