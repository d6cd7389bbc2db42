---------------------------- MODULE SearchIndex ----------------------------
(***************************************************************************)
(* The search index that doxygen generated for the programs: the tables at *)
(* the head of each search.js, and the results pages of the section "all", *)
(* which holds every entry.  The documentation of p1 has no pages.         *)
(*                                                                         *)
(* A results page is the sequence of its rows (searchData), each with the  *)
(* identifier that is searched and the number of results it has.           *)
(***************************************************************************)
EXTENDS Naturals, Sequences

-----------------------------------------------------------------------------
(* Names and letters of the sections: indexSectionNames, and the letters   *)
(* whose character in indexSectionsWithContent is 1.                       *)

p1_indexSectionNames == <<>>

p1_indexSectionsWithContent == <<>>

p2_indexSectionNames == <<"all", "classes", "namespaces", "functions",
  "variables", "typedefs", "related">>

p2_indexSectionsWithContent == <<
  {"a", "b", "c", "d", "e", "f", "g", "h", "i", "l", "m", "n", "o", "p", "r",
   "s", "u", "v", "w", "~"},
  {"b", "f", "h", "i", "p", "r", "s"},
  {"b"},
  {"a", "b", "c", "d", "e", "f", "g", "h", "i", "l", "m", "n", "o", "p", "r",
   "s", "u", "w", "~"},
  {"a", "b", "c", "d", "f", "i", "m", "n", "p", "r", "s", "u", "v"},
  {"f", "p", "s"},
  {"o"}>>

p3_indexSectionNames == <<"all", "classes", "namespaces", "functions",
  "variables", "typedefs", "enums", "related">>

p3_indexSectionsWithContent == <<
  {"a", "b", "c", "d", "e", "f", "g", "h", "i", "k", "l", "m", "n", "o", "p",
   "r", "s", "t", "u", "v", "w", "~"},
  {"b", "e", "f", "h", "i", "l", "n", "p", "r", "s", "t"},
  {"b"},
  {"a", "b", "c", "d", "e", "f", "g", "h", "i", "l", "m", "n", "o", "p", "r",
   "s", "u", "w", "~"},
  {"a", "b", "c", "d", "f", "i", "k", "l", "m", "n", "o", "p", "r", "s", "u",
   "v"},
  {"f", "p", "s"},
  {"d", "o"},
  {"o"}>>

-----------------------------------------------------------------------------
(* Results pages of p2, by the hexadecimal code of their letter.            *)

p2_all_61 == << <<"accesses", 1>>, <<"allocatepage", 1>>, <<"allocpage", 1>> >>

p2_all_62 == << <<"badbufferexception", 1>>, <<"badbufferexception", 1>>,
  <<"badgerdb", 1>>, <<"badgerdbexception", 1>>, <<"badgerdbexception", 1>>,
  <<"begin", 2>>, <<"bufdesc", 1>>, <<"bufferexceededexception", 1>>,
  <<"bufferexceededexception", 1>>, <<"bufhashtbl", 1>>,
  <<"bufhashtbl", 1>>, <<"bufmgr", 1>>, <<"bufmgr", 1>>, <<"bufpool", 1>>,
  <<"bufstats", 1>>, <<"bufstats", 1>> >>

p2_all_63 == << <<"clear", 1>>, <<"clearbufstats", 1>>, <<"create", 1>>,
  <<"current_5fpage_5fnumber", 1>> >>

p2_all_64 == << <<"data_5fsize", 1>>, <<"deletepage", 1>>,
  <<"deleterecord", 1>>, <<"dirty", 1>>, <<"diskreads", 1>>,
  <<"diskwrites", 1>>, <<"disposepage", 1>> >>

p2_all_65 == << <<"end", 2>>, <<"exists", 1>> >>

p2_all_66 == << <<"file", 1>>, <<"file", 2>>, <<"fileexistsexception", 1>>,
  <<"fileexistsexception", 1>>, <<"fileheader", 1>>, <<"fileiterator", 1>>,
  <<"fileiterator", 3>>, <<"filename", 5>>, <<"filename_5f", 4>>,
  <<"filenotfoundexception", 1>>, <<"filenotfoundexception", 1>>,
  <<"fileopenexception", 1>>, <<"fileopenexception", 1>>,
  <<"first_5ffree_5fpage", 1>>, <<"first_5fused_5fpage", 1>>,
  <<"flushfile", 1>>, <<"frameid", 1>>, <<"frameno", 5>>,
  <<"free_5fspace_5flower_5fbound", 1>>,
  <<"free_5fspace_5fupper_5fbound", 1>> >>

p2_all_67 == << <<"getbufstats", 1>>, <<"getfreespace", 1>>,
  <<"getnextusedslot", 1>>, <<"getrecord", 1>> >>

p2_all_68 == << <<"hashalreadypresentexception", 1>>,
  <<"hashalreadypresentexception", 1>>, <<"hashbucket", 1>>,
  <<"hashnotfoundexception", 1>>, <<"hashnotfoundexception", 1>>,
  <<"hashtableexception", 1>>, <<"hashtableexception", 1>>,
  <<"hasspaceforrecord", 1>> >>

p2_all_69 == << <<"insert", 1>>, <<"insertrecord", 1>>,
  <<"insufficientspaceexception", 1>>, <<"insufficientspaceexception", 1>>,
  <<"invalid_5fnumber", 1>>, <<"invalid_5fslot", 1>>,
  <<"invalidpageexception", 1>>, <<"invalidpageexception", 1>>,
  <<"invalidrecordexception", 1>>, <<"invalidrecordexception", 1>>,
  <<"invalidslotexception", 1>>, <<"invalidslotexception", 1>>,
  <<"isopen", 1>>, <<"item_5flength", 1>>, <<"item_5foffset", 1>> >>

p2_all_6c == << <<"lookup", 1>> >>

p2_all_6d == << <<"message", 1>>, <<"message_5f", 1>> >>

p2_all_6e == << <<"name", 4>>, <<"next", 1>>, <<"next_5fpage_5fnumber", 2>>,
  <<"num_5ffree_5fpages", 1>>, <<"num_5ffree_5fslots", 1>>,
  <<"num_5fpages", 1>>, <<"num_5fslots", 1>> >>

p2_all_6f == << <<"open", 1>>, <<"operator_21_3d", 1>>,
  <<"operator_2a", 2>>, <<"operator_2b_2b", 2>>, <<"operator_3c_3c", 1>>,
  <<"operator_3d", 1>>, <<"operator_3d_3d", 5>> >>

p2_all_70 == << <<"page", 1>>, <<"page", 1>>, <<"page_5fnumber", 7>>,
  <<"page_5fnumber_5f", 5>>, <<"pageheader", 1>>, <<"pageid", 1>>,
  <<"pageiterator", 3>>, <<"pageiterator", 1>>, <<"pageno", 5>>,
  <<"pagenotpinnedexception", 1>>, <<"pagenotpinnedexception", 1>>,
  <<"pagepinnedexception", 1>>, <<"pagepinnedexception", 1>>,
  <<"pageslot", 1>>, <<"printself", 1>> >>

p2_all_72 == << <<"readpage", 2>>, <<"record_5fid", 1>>,
  <<"record_5fid_5f", 1>>, <<"recordid", 1>>, <<"refbit", 1>>,
  <<"remove", 2>> >>

p2_all_73 == << <<"size", 1>>, <<"slot_5fnumber", 3>>,
  <<"slot_5fnumber_5f", 2>>, <<"slotid", 1>>, <<"slotinuseexception", 1>>,
  <<"slotinuseexception", 1>>, <<"space_5favailable", 1>>,
  <<"space_5favailable_5f", 1>>, <<"space_5frequested", 1>>,
  <<"space_5frequested_5f", 1>> >>

p2_all_75 == << <<"unpinpage", 1>>, <<"updaterecord", 1>>, <<"used", 1>> >>

p2_all_76 == << <<"valid", 1>> >>

p2_all_77 == << <<"what", 1>>, <<"writepage", 1>> >>

p2_all_7e == << <<"_7ebadgerdbexception", 1>>, <<"_7ebufhashtbl", 1>>,
  <<"_7ebufmgr", 1>>, <<"_7efile", 1>>, <<"_7einvalidpageexception", 1>> >>

\* The pages by letter, as createResults finds them.
p2_pages == {[letter |-> "a", rows |-> p2_all_61],
  [letter |-> "b", rows |-> p2_all_62], [letter |-> "c", rows |-> p2_all_63],
  [letter |-> "d", rows |-> p2_all_64], [letter |-> "e", rows |-> p2_all_65],
  [letter |-> "f", rows |-> p2_all_66], [letter |-> "g", rows |-> p2_all_67],
  [letter |-> "h", rows |-> p2_all_68], [letter |-> "i", rows |-> p2_all_69],
  [letter |-> "l", rows |-> p2_all_6c], [letter |-> "m", rows |-> p2_all_6d],
  [letter |-> "n", rows |-> p2_all_6e], [letter |-> "o", rows |-> p2_all_6f],
  [letter |-> "p", rows |-> p2_all_70], [letter |-> "r", rows |-> p2_all_72],
  [letter |-> "s", rows |-> p2_all_73], [letter |-> "u", rows |-> p2_all_75],
  [letter |-> "v", rows |-> p2_all_76], [letter |-> "w", rows |-> p2_all_77],
  [letter |-> "~", rows |-> p2_all_7e]}

-----------------------------------------------------------------------------
(* Results pages of p3, by the hexadecimal code of their letter.            *)

p3_all_61 == << <<"accesses", 1>>, <<"allocatepage", 3>>,
  <<"allocpage", 1>>, <<"attrbyteoffset", 1>>, <<"attrtype", 1>> >>

p3_all_62 == << <<"badbufferexception", 1>>, <<"badbufferexception", 1>>,
  <<"badgerdb", 1>>, <<"badgerdbexception", 1>>, <<"badgerdbexception", 1>>,
  <<"badindexinfoexception", 1>>, <<"badindexinfoexception", 1>>,
  <<"badopcodesexception", 1>>, <<"badopcodesexception", 1>>,
  <<"badscanparamexception", 1>>, <<"badscanparamexception", 1>>,
  <<"badscanrangeexception", 1>>, <<"badscanrangeexception", 1>>,
  <<"begin", 2>>, <<"blobfile", 2>>, <<"blobfile", 1>>, <<"btreeindex", 1>>,
  <<"btreeindex", 1>>, <<"bufdesc", 1>>, <<"bufferexceededexception", 1>>,
  <<"bufferexceededexception", 1>>, <<"bufhashtbl", 1>>,
  <<"bufhashtbl", 1>>, <<"bufmgr", 1>>, <<"bufmgr", 1>>, <<"bufpool", 1>>,
  <<"bufstats", 1>>, <<"bufstats", 1>> >>

p3_all_63 == << <<"clear", 1>>, <<"clearbufstats", 1>>, <<"close", 1>>,
  <<"create", 2>>, <<"current_5fpage_5fnumber", 1>> >>

p3_all_64 == << <<"data_5fsize", 1>>, <<"datatype", 1>>,
  <<"deletepage", 3>>, <<"deleterecord", 1>>, <<"dirty", 1>>,
  <<"diskreads", 1>>, <<"diskwrites", 1>>, <<"disposepage", 1>>,
  <<"doublearrayleafsize", 1>>, <<"doublearraynonleafsize", 1>> >>

p3_all_65 == << <<"end", 2>>, <<"endoffileexception", 1>>,
  <<"endoffileexception", 1>>, <<"endscan", 1>>, <<"exists", 1>> >>

p3_all_66 == << <<"file", 1>>, <<"file", 2>>, <<"fileexistsexception", 1>>,
  <<"fileexistsexception", 1>>, <<"fileheader", 1>>, <<"fileiterator", 1>>,
  <<"fileiterator", 3>>, <<"filename", 5>>, <<"filename_5f", 5>>,
  <<"filenotfoundexception", 1>>, <<"filenotfoundexception", 1>>,
  <<"fileopenexception", 1>>, <<"fileopenexception", 1>>, <<"filescan", 1>>,
  <<"first_5ffree_5fpage", 1>>, <<"first_5fused_5fpage", 1>>,
  <<"flushfile", 1>>, <<"frameid", 1>>, <<"frameno", 5>>,
  <<"free_5fspace_5flower_5fbound", 1>>,
  <<"free_5fspace_5fupper_5fbound", 1>> >>

p3_all_67 == << <<"getbufstats", 1>>, <<"getfirstpageno", 1>>,
  <<"getfreespace", 1>>, <<"getnextusedslot", 1>>, <<"getrecord", 1>> >>

p3_all_68 == << <<"hashalreadypresentexception", 1>>,
  <<"hashalreadypresentexception", 1>>, <<"hashbucket", 1>>,
  <<"hashnotfoundexception", 1>>, <<"hashnotfoundexception", 1>>,
  <<"hashtableexception", 1>>, <<"hashtableexception", 1>>,
  <<"hasspaceforrecord", 1>> >>

p3_all_69 == << <<"indexmetainfo", 1>>,
  <<"indexscancompletedexception", 1>>,
  <<"indexscancompletedexception", 1>>, <<"insert", 1>>,
  <<"insertentry", 1>>, <<"insertrecord", 1>>,
  <<"insufficientspaceexception", 1>>, <<"insufficientspaceexception", 1>>,
  <<"intarrayleafsize", 1>>, <<"intarraynonleafsize", 1>>,
  <<"invalid_5fnumber", 1>>, <<"invalid_5fslot", 1>>,
  <<"invalidpageexception", 1>>, <<"invalidpageexception", 1>>,
  <<"invalidrecordexception", 1>>, <<"invalidrecordexception", 1>>,
  <<"invalidslotexception", 1>>, <<"invalidslotexception", 1>>,
  <<"isopen", 1>>, <<"item_5flength", 1>>, <<"item_5foffset", 1>> >>

p3_all_6b == << <<"keyarray", 6>> >>

p3_all_6c == << <<"leafnodedouble", 1>>, <<"leafnodeint", 1>>,
  <<"leafnodestring", 1>>, <<"level", 3>>, <<"lookup", 1>> >>

p3_all_6d == << <<"message", 1>>, <<"message_5f", 1>> >>

p3_all_6e == << <<"name", 4>>, <<"next", 1>>, <<"next_5fpage_5fnumber", 2>>,
  <<"nonleafnodedouble", 1>>, <<"nonleafnodeint", 1>>,
  <<"nonleafnodestring", 1>>, <<"nosuchkeyfoundexception", 1>>,
  <<"nosuchkeyfoundexception", 1>>, <<"num_5ffree_5fpages", 1>>,
  <<"num_5ffree_5fslots", 1>>, <<"num_5fpages", 1>>, <<"num_5fslots", 1>> >>

p3_all_6f == << <<"open", 2>>, <<"open_5fcounts_5f", 1>>,
  <<"open_5fstreams_5f", 1>>, <<"openifneeded", 1>>, <<"operator", 1>>,
  <<"operator_21_3d", 1>>, <<"operator_2a", 2>>, <<"operator_2b_2b", 2>>,
  <<"operator_3c", 1>>, <<"operator_3c_3c", 1>>, <<"operator_3d", 2>>,
  <<"operator_3d_3d", 5>> >>

p3_all_70 == << <<"page", 1>>, <<"page", 1>>, <<"page_5fnumber", 7>>,
  <<"page_5fnumber_5f", 5>>, <<"pagefile", 1>>, <<"pagefile", 2>>,
  <<"pageheader", 1>>, <<"pageid", 1>>, <<"pageiterator", 1>>,
  <<"pageiterator", 3>>, <<"pagekeypair", 1>>, <<"pageno", 5>>,
  <<"pagenoarray", 3>>, <<"pagenotpinnedexception", 1>>,
  <<"pagenotpinnedexception", 1>>, <<"pagepinnedexception", 1>>,
  <<"pagepinnedexception", 1>>, <<"pageposition", 1>>, <<"pageslot", 1>>,
  <<"printself", 1>> >>

p3_all_72 == << <<"readheader", 1>>, <<"readpage", 4>>, <<"reason", 1>>,
  <<"reason_5f", 1>>, <<"record_5fid", 1>>, <<"record_5fid_5f", 1>>,
  <<"recordid", 1>>, <<"refbit", 1>>, <<"relationname", 1>>,
  <<"remove", 2>>, <<"ridarray", 3>>, <<"ridkeypair", 1>>,
  <<"rightsibpageno", 3>>, <<"rootpageno", 1>> >>

p3_all_73 == << <<"scannext", 1>>, <<"scannotinitializedexception", 1>>,
  <<"scannotinitializedexception", 1>>, <<"size", 1>>,
  <<"slot_5fnumber", 3>>, <<"slot_5fnumber_5f", 2>>, <<"slotid", 1>>,
  <<"slotinuseexception", 1>>, <<"slotinuseexception", 1>>,
  <<"space_5favailable", 1>>, <<"space_5favailable_5f", 1>>,
  <<"space_5frequested", 1>>, <<"space_5frequested_5f", 1>>,
  <<"startscan", 1>>, <<"stream_5f", 1>>, <<"stringarrayleafsize", 1>>,
  <<"stringarraynonleafsize", 1>>, <<"stringsize", 1>> >>

p3_all_74 == << <<"tuple", 1>> >>

p3_all_75 == << <<"unpinpage", 1>>, <<"updaterecord", 1>>, <<"used", 1>> >>

p3_all_76 == << <<"valid", 1>> >>

p3_all_77 == << <<"what", 1>>, <<"writeheader", 1>>, <<"writepage", 3>> >>

p3_all_7e == << <<"_7ebadgerdbexception", 1>>, <<"_7eblobfile", 1>>,
  <<"_7ebtreeindex", 1>>, <<"_7ebufhashtbl", 1>>, <<"_7ebufmgr", 1>>,
  <<"_7efile", 1>>, <<"_7einvalidpageexception", 1>>, <<"_7epagefile", 1>> >>

\* The pages by letter, as createResults finds them.
p3_pages == {[letter |-> "a", rows |-> p3_all_61],
  [letter |-> "b", rows |-> p3_all_62], [letter |-> "c", rows |-> p3_all_63],
  [letter |-> "d", rows |-> p3_all_64], [letter |-> "e", rows |-> p3_all_65],
  [letter |-> "f", rows |-> p3_all_66], [letter |-> "g", rows |-> p3_all_67],
  [letter |-> "h", rows |-> p3_all_68], [letter |-> "i", rows |-> p3_all_69],
  [letter |-> "k", rows |-> p3_all_6b], [letter |-> "l", rows |-> p3_all_6c],
  [letter |-> "m", rows |-> p3_all_6d], [letter |-> "n", rows |-> p3_all_6e],
  [letter |-> "o", rows |-> p3_all_6f], [letter |-> "p", rows |-> p3_all_70],
  [letter |-> "r", rows |-> p3_all_72], [letter |-> "s", rows |-> p3_all_73],
  [letter |-> "t", rows |-> p3_all_74], [letter |-> "u", rows |-> p3_all_75],
  [letter |-> "v", rows |-> p3_all_76], [letter |-> "w", rows |-> p3_all_77],
  [letter |-> "~", rows |-> p3_all_7e]}

-----------------------------------------------------------------------------
(* There is a results page for a letter exactly if the table says so.      *)
ASSUME PagesAnnounced ==
  /\ {p.letter : p \in p2_pages} = p2_indexSectionsWithContent[1]
  /\ {p.letter : p \in p3_pages} = p3_indexSectionsWithContent[1]

=============================================================================
