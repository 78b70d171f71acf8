SPECIFICATION CtxSpec
CONSTANTS
  My = {m1}
  Client = {c1, c2}
  Db = {db1, db2, db3}
  NoDb = NoDb
  Charset = {utf8, gbk}
  NoCharset = NoCharset
SYMMETRY Symmetry
PROPERTY CommandInDb
