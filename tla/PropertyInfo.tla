----------------------------- MODULE PropertyInfo ----------------------------
(***************************************************************************)
(* How the program finds KMS properties by name (drm.hpp): a static table  *)
(* of the names it knows is filled with the ids and, for enum properties,  *)
(* with the values the driver has for the names; a value that the driver   *)
(* reports is then translated into the index of the program's own enum.    *)
(***************************************************************************)
EXTENDS Integers, Sequences

\* The least and the greatest number of S.
First(S) == CHOOSE i \in S : \A j \in S : i <= j
Last(S)  == CHOOSE i \in S : \A j \in S : j <= i

\* The index of the enum value of the driver that is called name, if any.
Named(name, enums) == {l \in DOMAIN enums : enums[l].name = name}

\* The assertion that enums and plain properties are not mixed up. KMS[id] is
\* the property's name and enum values, or nothing if it is gone.
Consistent(src, props, KMS) ==
  \A i \in DOMAIN props, p \in {src[j] : j \in DOMAIN src} :
    \A prop \in KMS[props[i].id] :
      prop.name = p.name => (prop.enums # <<>>) = (p.enums # <<>>)

\* The places of the object's properties that are called name.
Matching(name, props, KMS) ==
  {i \in DOMAIN props : \E prop \in KMS[props[i].id] : prop.name = name}

\* The value, if any, that the property with this id has under the enum's name.
ValueNamed(name, id, KMS) ==
  UNION {{prop.enums[First(l)].value : l \in {Named(name, prop.enums)} \ {{}}} : prop \in KMS[id]}

\* The entry for p of the table: each property that is found under its name
\* overwrites the id, and the values of those enum names that the driver has.
Entry(p, props, KMS) ==
  LET found     == Matching(p.name, props, KMS)
      having(k) == {i \in found : ValueNamed(p.enums[k], props[i].id, KMS) # {}}
  IN [prop_id     |-> IF found = {} THEN 0 ELSE props[Last(found)].id,
      enum_values |-> [k \in DOMAIN p.enums |->
        IF having(k) = {} THEN [valid |-> FALSE, value |-> 0]
        ELSE [valid |-> TRUE,
              value |-> CHOOSE v \in ValueNamed(p.enums[k], props[Last(having(k))].id, KMS) : TRUE]]]

\* The entries for the table src, from the properties of an object.
drm_property_info_populate(src, props, KMS) == [j \in DOMAIN src |-> Entry(src[j], props, KMS)]

\* Mutant: values of names the driver does not have are compared too.
Translations_all(info, value) ==
  {k \in DOMAIN info.enum_values : info.enum_values[k].value = value}

\* The indices of the program's enum that stand for the driver's value.
Translations(info, value) ==
  {k \in DOMAIN info.enum_values :
     info.enum_values[k].valid /\ info.enum_values[k].value = value}

\* The current value of the property, from 0 for an enum, or default.
drm_property_get_value(info, props, default) ==
  LET at == {i \in DOMAIN props : props[i].id = info.prop_id} IN
    IF info.prop_id = 0 \/ at = {} THEN default
    ELSE LET value == props[First(at)].value
             known == Translations(info, value)
         IN IF info.enum_values = <<>> THEN value
            ELSE IF known = {} THEN default
            ELSE First(known) - 1

\* What the comment promises (drm.hpp:119-132): the value of the property
\* called p.name; of an enum, the place in the table of what the driver calls
\* the value; and the default if the object or the table does not have it.
ValueByName(p, props, KMS, default) ==
  LET mine  == Matching(p.name, props, KMS)
      value == props[First(mine)].value
      names == {e.name : e \in {e \in UNION {{prop.enums[l] : l \in DOMAIN prop.enums} :
                                             prop \in KMS[props[First(mine)].id]} :
                                  e.value = value}}
      known == {k \in DOMAIN p.enums : p.enums[k] \in names}
  IN IF mine = {} THEN default
     ELSE IF p.enums = <<>> THEN value
     ELSE IF known = {} THEN default
     ELSE First(known) - 1

\* What the kernel hands out: properties with ids, each with at most one
\* description; no name twice in the table, on an object or in an enum.
EnumNamesDiffer(enums) ==
  /\ enums \in Seq([name : STRING, value : Nat])
  /\ \A k, l \in DOMAIN enums : enums[k].name = enums[l].name => k = l

Described(s) ==
  /\ s.src \in Seq([name : STRING, enums : Seq(STRING)])
  /\ s.props \in Seq([id : Nat \ {0}, value : Nat])
  /\ \A i, j \in DOMAIN s.src : s.src[i].name = s.src[j].name => i = j
  /\ \A i \in DOMAIN s.props :
       /\ \A p, q \in s.KMS[s.props[i].id] : p = q
       /\ \A p \in s.KMS[s.props[i].id] : EnumNamesDiffer(p.enums)
  /\ \A i, j \in DOMAIN s.props :
       \A p \in s.KMS[s.props[i].id], q \in s.KMS[s.props[j].id] : p.name = q.name => i = j
=============================================================================
