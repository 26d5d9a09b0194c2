SPECIFICATION Spec
CONSTANTS
  users = users
  people = people
  other = other
  lengthy = lengthy
  c = c
  id = id
  Storage = {users, people}
  Name = {users, people, other, lengthy}
  TooLong = {lengthy}
  Id = id
  MetaFiles <- Files
  Headers <- AllHeaders
  Absent = Absent
  Unreadable = Unreadable
  Malformed = Malformed
  Broken = Broken
  None = None
INVARIANTS AnswerFitsRequest AnswerMatchesCatalog
